------------------------- MODULE KernelExportProofs -------------------------
(***************************************************************************)
(* Proofs about the export of a kernel interface: for any kernel, any      *)
(* configurations, any number of exports, builds, edits and readers, with  *)
(* kills at any step and process ids that come again; first about the walk *)
(* over the dependencies alone, for any target directory and any graph,    *)
(* cycles included, and beside a Cargo that may change the directory.      *)
(***************************************************************************)
EXTENDS KernelExport, FiniteSetTheorems, TLAPS

-----------------------------------------------------------------------------
(* The walk over the dependencies. *)

\* One more dependency looked for adds its candidates to those found.
LEMMA FoundAdd ==
    ASSUME NEW S, NEW d
    PROVE  Found(S \cup {d}) = Found(S) \cup Candidates(d)
BY DEF Found

\* A larger set leads to no fewer units.
LEMMA FoundMonotone ==
    ASSUME NEW S, NEW T, S \subseteq T
    PROVE  Found(S) \subseteq Found(T)
BY DEF Found

\* The walk keeps the invariant while Cargo is quiet.
LEMMA WalkStepKeeps ==
    ASSUME ClosureInv, WalkStep, UNCHANGED <<units, moved>>
    PROVE  ClosureInv'
<1> USE DEF ClosureInv
<1>0. walk = "walking"
  BY DEF WalkStep, EndWalk, Visit, VisitAgain, VisitFails, VisitNone, VisitTake
<1>1. CASE EndWalk
  <2>1. ClosureTypeOK'
    BY <1>1 DEF EndWalk, ClosureTypeOK
  <2>2. pending' = {}
    BY <1>1 DEF EndWalk
  <2>3. ASSUME ~moved PROVE Covered' /\ Needed'
    <3>1. Covered /\ Needed
      BY <1>0, <2>3
    <3>2. Covered'
      BY <1>1, <3>1 DEF EndWalk, Covered, Found, Candidates
    <3>3. Needed'
      BY <1>1, <3>1 DEF EndWalk, Needed, Closed, Found, Candidates
    <3>4. QED
      BY <3>2, <3>3
  <2>4. QED
    BY <2>1, <2>2, <2>3
<1>2. ASSUME NEW d \in pending, Visit(d) PROVE ClosureInv'
  <2>0. /\ d \in Dependency
        /\ pending \in SUBSET Dependency /\ visited \in SUBSET Dependency
    BY DEF ClosureTypeOK
  <2>1. CASE VisitFails(d)
    BY <2>1 DEF VisitFails, ClosureTypeOK
  <2>2. CASE VisitAgain(d)
    <3>1. ClosureTypeOK'
      BY <2>0, <2>2 DEF VisitAgain, ClosureTypeOK
    <3>2. walk' = "walking" /\ visited' \cup pending' = visited \cup pending
      BY <2>2 DEF VisitAgain
    <3>3. ASSUME ~moved PROVE Covered' /\ Needed'
      <4>1. Covered /\ Needed
        BY <1>0, <3>3
      <4>2. Covered'
        BY <2>2, <3>2, <4>1 DEF VisitAgain, Covered, Found, Candidates
      <4>3. Needed'
        BY <2>2, <3>2, <4>1 DEF VisitAgain, Needed, Closed, Found, Candidates
      <4>4. QED
        BY <4>2, <4>3
    <3>4. QED
      BY <3>1, <3>2, <3>3
  <2>3. CASE VisitNone(d)
    <3>1. ClosureTypeOK'
      BY <2>0, <2>3 DEF VisitNone, ClosureTypeOK
    <3>2. /\ walk' = "walking" /\ visited' = visited \cup {d}
          /\ visited' \cup pending' = visited \cup pending
      BY <1>0, <2>3 DEF VisitNone
    <3>3. ASSUME ~moved PROVE Covered' /\ Needed'
      <4>1. Covered /\ Needed
        BY <1>0, <3>3
      <4>2. Found(visited \cup {d}) = Found(visited)
        BY <2>3, FoundAdd DEF VisitNone
      <4>3. Covered'
        BY <2>3, <3>2, <4>1, <4>2 DEF VisitNone, Covered, Found, Candidates
      <4>4. Needed'
        BY <2>3, <3>2, <4>1 DEF VisitNone, Needed, Closed, Found, Candidates
      <4>5. QED
        BY <4>3, <4>4
    <3>4. QED
      BY <3>1, <3>2, <3>3
  <2>4. CASE VisitTake(d)
    <3>1. PICK u \in Unit : /\ Candidates(d) = {u}
                            /\ files' = files \cup {u}
                            /\ pending' = (pending \ {d}) \cup units[u].deps
      BY <2>4 DEF VisitTake
    <3>2. units[u].deps \in SUBSET Dependency
      BY DEF ClosureTypeOK, UnitState
    <3>3. ClosureTypeOK'
      BY <2>0, <2>4, <3>1, <3>2 DEF VisitTake, ClosureTypeOK
    <3>4. /\ walk' = "walking" /\ visited' = visited \cup {d}
          /\ visited' \cup pending' = visited \cup pending \cup units[u].deps
      BY <1>0, <2>4, <3>1 DEF VisitTake
    <3>5. ASSUME ~moved PROVE Covered' /\ Needed'
      <4>1. Covered /\ Needed
        BY <1>0, <3>5
      <4>2. Found(visited \cup {d}) = Found(visited) \cup {u}
        BY <3>1, FoundAdd
      <4>3. Found(visited)' = Found(visited) \cup {u}
        BY <3>4, <4>2 DEF Found, Candidates
      <4>4. Covered'
        <5>1. (rootDeps \subseteq visited \cup pending)'
          BY <2>4, <3>4, <4>1 DEF VisitTake, Covered
        <5>2. (\A w \in Found(visited) : units[w].deps \subseteq visited \cup pending)'
          BY <3>4, <4>1, <4>3 DEF Covered
        <5>3. (files = roots \cup Found(visited))'
          BY <2>4, <3>1, <4>1, <4>3 DEF VisitTake, Covered
        <5>4. (\A e \in visited : \A v, w \in Candidates(e) : v = w)'
          BY <3>1, <3>4, <4>1 DEF Covered, Candidates
        <5>5. QED
          BY <5>1, <5>2, <5>3, <5>4 DEF Covered
      <4>5. Needed'
        <5>1. ASSUME NEW T \in SUBSET Dependency, rootDeps \subseteq T, Closed(T)
              PROVE  visited' \cup pending' \subseteq T
          <6>1. visited \cup pending \subseteq T
            BY <4>1, <5>1 DEF Needed
          <6>2. u \in Found(T)
            BY <3>1, <6>1 DEF Found
          <6>3. units[u].deps \subseteq T
            BY <5>1, <6>2 DEF Closed
          <6>4. QED
            BY <3>4, <6>1, <6>3
        <5>2. \A T : Closed(T)' <=> Closed(T)
          BY DEF Closed, Found, Candidates
        <5>3. rootDeps' = rootDeps
          BY <2>4 DEF VisitTake
        <5>4. QED
          BY <5>1, <5>2, <5>3 DEF Needed
      <4>6. QED
        BY <4>4, <4>5
    <3>6. QED
      BY <3>3, <3>4, <3>5
  <2>5. QED
    BY <1>2, <2>1, <2>2, <2>3, <2>4 DEF Visit
<1>3. QED
  BY <1>1, <1>2 DEF WalkStep

\* The walk begins with a list that covers what the kernel names.
LEMMA WalkBegins ==
    ASSUME ClosureTypeOK, NEW first \in SUBSET Unit, NEW deps \in SUBSET Dependency,
           StartWalk(first, deps), units' = units, moved' = FALSE
    PROVE  ClosureInv'
<1>1. ClosureTypeOK'
  BY DEF StartWalk, ClosureTypeOK
<1>2. Found(visited)' = {}
  BY DEF StartWalk, Found
<1>3. Covered'
  BY <1>2 DEF StartWalk, Covered
<1>4. Needed'
  BY DEF StartWalk, Needed
<1>5. QED
  BY <1>1, <1>3, <1>4 DEF StartWalk, ClosureInv

\* Whatever Cargo writes, the walk only loses its claim.
LEMMA MovedKeeps ==
    ASSUME ClosureInv, units' \in [Unit -> UnitState], moved' = (walk # "off"), UNCHANGED walkVars
    PROVE  ClosureInv'
<1>1. ClosureTypeOK'
  BY DEF ClosureInv, ClosureTypeOK, walkVars
<1>2. QED
  BY <1>1 DEF ClosureInv, walkVars

\* Nothing happens to the walk.
LEMMA StillKeeps ==
    ASSUME ClosureInv, UNCHANGED closureVars
    PROVE  ClosureInv'
<1>1. ClosureTypeOK'
  BY DEF closureVars, walkVars, ClosureTypeOK, ClosureInv
<1>2. Covered => Covered'
  BY DEF closureVars, walkVars, Covered, Found, Candidates
<1>3. Needed => Needed'
  BY DEF closureVars, walkVars, Needed, Closed, Found, Candidates
<1>4. QED
  BY <1>1, <1>2, <1>3 DEF closureVars, walkVars, ClosureInv

\* Where the walk is, at every moment.
THEOREM ClosureInductive == ClosureSpec => []ClosureInv
<1>1. ClosureInit => ClosureInv
  <2> SUFFICES ASSUME ClosureInit PROVE ClosureInv
    OBVIOUS
  <2>1. ClosureTypeOK
    BY DEF ClosureInit, ClosureTypeOK
  <2>2. Found({}) = {}
    BY DEF Found
  <2>3. Covered
    BY <2>2 DEF ClosureInit, Covered
  <2>4. Needed
    BY DEF ClosureInit, Needed
  <2>5. QED
    BY <2>1, <2>3, <2>4 DEF ClosureInit, ClosureInv
<1>2. ClosureInv /\ [ClosureNext]_closureVars => ClosureInv'
  <2> SUFFICES ASSUME ClosureInv, [ClosureNext]_closureVars PROVE ClosureInv'
    OBVIOUS
  <2>1. CASE WalkStep /\ UNCHANGED <<units, moved>>
    BY <2>1, WalkStepKeeps
  <2>2. CASE CargoWrites
    <3>1. /\ moved' = TRUE /\ walk' = walk /\ pending' = pending
          /\ UNCHANGED <<roots, rootDeps, visited, files>>
      BY <2>2 DEF CargoWrites, walkVars
    <3>2. ClosureTypeOK'
      BY <2>2, <3>1 DEF CargoWrites, ClosureTypeOK, ClosureInv
    <3>3. QED
      BY <3>1, <3>2 DEF ClosureInv
  <2>3. CASE UNCHANGED closureVars
    BY <2>3, StillKeeps
  <2>4. QED
    BY <2>1, <2>2, <2>3 DEF ClosureNext
<1>3. QED
  BY <1>1, <1>2, PTL DEF ClosureSpec

\* At the end the list is empty, and both halves of the invariant meet.
LEMMA InvIsExact == ClosureInv => ClosureExact
<1> SUFFICES ASSUME ClosureInv, walk = "done", ~moved
             PROVE  IsReach(visited) /\ files = roots \cup Found(visited)
  BY DEF ClosureExact
<1>1. Covered /\ Needed /\ pending = {} /\ visited \in SUBSET Dependency
  BY DEF ClosureInv, ClosureTypeOK
<1>2. rootDeps \subseteq visited /\ Closed(visited)
  BY <1>1 DEF Covered, Closed
<1>3. \A T \in SUBSET visited : rootDeps \subseteq T /\ Closed(T) => T = visited
  BY <1>1 DEF Needed
<1>4. QED
  BY <1>1, <1>2, <1>3 DEF IsReach, Covered

\* The rlibs taken are those of the API crates and of the crates that can be
\* reached from the kernel, unless Cargo changed the directory meanwhile.
THEOREM ClosureExactHolds == ClosureSpec => []ClosureExact
BY ClosureInductive, InvIsExact, PTL

-----------------------------------------------------------------------------
(* The repository and Cargo. *)

\* One more of a kind.
LEMMA BumpCounts ==
    ASSUME RepositoryInv, NEW field \in {"edits", "builds", "exports", "stops", "reads"}, Bump(field)
    PROVE  /\ count' = [edits |-> count'.edits, builds |-> count'.builds, exports |-> count'.exports,
                        stops |-> count'.stops, reads |-> count'.reads]
           /\ count'.edits = IF field = "edits" THEN count.edits + 1 ELSE count.edits
           /\ field # "exports" => count'.exports = count.exports
BY DEF RepositoryInv, Bump

\* Steps that change neither the repository nor what Cargo has linked.
LEMMA RepositoryStays ==
    ASSUME RepositoryInv, UNCHANGED <<repositoryVars, bins, linked, cargo>>,
           \/ count' = count
           \/ \E field \in {"builds", "exports", "stops", "reads"} : Bump(field)
    PROVE  RepositoryInv'
<1>1. count'.edits = count.edits
      /\ count' = [edits |-> count'.edits, builds |-> count'.builds, exports |-> count'.exports,
                   stops |-> count'.stops, reads |-> count'.reads]
  <2>1. CASE count' = count
    BY <2>1 DEF RepositoryInv
  <2>2. CASE \E field \in {"builds", "exports", "stops", "reads"} : Bump(field)
    BY <2>2, BumpCounts
  <2>3. QED
    BY <2>1, <2>2
<1>2. QED
  BY <1>1 DEF RepositoryInv, repositoryVars, IsCargo

LEMMA EditRepository ==
    ASSUME RepositoryInv, Edit
    PROVE  RepositoryInv'
<1>1. /\ Bump("edits") /\ count.edits < MaxEdits
      /\ sources' \in {sources, sources + 1} /\ framework' \in {framework, framework + 1}
      /\ UNCHANGED <<bins, linked, cargo>>
  BY DEF Edit, Event, cargoVars
<1>2. count.edits \in 0 .. MaxEdits /\ MaxEdits \in Nat
  BY ExportAssumption DEF RepositoryInv
<1>3. /\ count'.edits = count.edits + 1
      /\ count' = [edits |-> count'.edits, builds |-> count'.builds, exports |-> count'.exports,
                   stops |-> count'.stops, reads |-> count'.reads]
  BY <1>1, BumpCounts
<1>4. /\ count'.edits \in 0 .. MaxEdits
      /\ sources' \in 1 .. (count'.edits + 1) /\ framework' \in 1 .. (count'.edits + 1)
  BY <1>1, <1>2, <1>3 DEF RepositoryInv
<1>5. QED
  BY <1>1, <1>3, <1>4 DEF RepositoryInv, IsCargo

\* The JSON file of a unit names crates with their fingerprints.
LEMMA NamesAreDependencies ==
    ASSUME NEW c \in Config, NEW S \in SUBSET Crate
    PROVE  NamesOf(c, S) \in SUBSET Dependency
BY ExportAssumption DEF NamesOf, Dependency

LEMMA CargoRepository ==
    ASSUME RepositoryInv, CargoStep
    PROVE  RepositoryInv'
<1>1. CASE \E c \in Config : CargoStarts(c)
  <2>1. PICK c \in Config : CargoStarts(c)
    BY <1>1
  <2>2. /\ Bump("builds") /\ UNCHANGED <<sources, framework, bins, linked>>
        /\ cargo' = [config |-> c, left |-> Affected(Stale(c)), crate |-> None]
    BY <2>1 DEF CargoStarts, Event, repositoryVars
  <2>3. /\ count'.edits = count.edits
        /\ count' = [edits |-> count'.edits, builds |-> count'.builds, exports |-> count'.exports,
                     stops |-> count'.stops, reads |-> count'.reads]
    BY <2>2, BumpCounts
  <2>4. Affected(Stale(c)) \subseteq Compiled
    BY DEF Affected
  <2>5. IsCargo(cargo') /\ cargo'.config \in Config /\ cargo'.left \subseteq Compiled /\ cargo'.crate = None
    BY <2>2, <2>4 DEF IsCargo
  <2>6. QED
    BY <2>2, <2>3, <2>5 DEF RepositoryInv
<1>2. CASE \E x \in Compiled : CargoEmptiesMarker(x)
  <2>1. PICK x \in Compiled : CargoEmptiesMarker(x)
    BY <1>2
  <2>2. /\ cargo # None /\ cargo' = [cargo EXCEPT !.crate = x]
        /\ UNCHANGED <<sources, framework, bins, linked, count>>
    BY <2>1 DEF CargoEmptiesMarker, repositoryVars
  <2>3. IsCargo(cargo') /\ cargo'.config = cargo.config /\ cargo'.left = cargo.left /\ cargo'.crate = x
    BY <2>2 DEF RepositoryInv, IsCargo
  <2>4. QED
    BY <2>2, <2>3 DEF RepositoryInv
<1>3. CASE CargoCompiles
  <2>1. /\ cargo # None /\ cargo' = [cargo EXCEPT !.crate = None, !.left = @ \ {cargo.crate}]
        /\ UNCHANGED <<sources, framework, bins, linked, count>>
    BY <1>3 DEF CargoCompiles, repositoryVars
  <2>2. /\ IsCargo(cargo') /\ cargo'.config = cargo.config
        /\ cargo'.left \subseteq cargo.left /\ cargo'.crate = None
    BY <2>1 DEF RepositoryInv, IsCargo
  <2>3. QED
    BY <2>1, <2>2 DEF RepositoryInv
<1>4. CASE CargoLinks
  <2> DEFINE c == cargo.config
  <2>1. /\ cargo # None /\ cargo' = None /\ UNCHANGED <<sources, framework, count>>
        /\ bins' = [bins EXCEPT ![KernelUnit[c]] = [image |-> ImageOf(c), deps |-> NamesOf(c, KernelNeeds)]]
        /\ linked' = [config |-> c, image |-> ImageOf(c)]
    BY <1>4 DEF CargoLinks, repositoryVars
  <2>2. c \in Config /\ KernelUnit[c] \in Kernels /\ bins = [k \in Kernels |-> bins[k]]
    BY <2>1 DEF RepositoryInv, Kernels
  <2>3. NamesOf(c, KernelNeeds) \in SUBSET Dependency
    BY <2>2, NamesAreDependencies, ExportAssumption
  <2> HIDE DEF c
  <2>4. /\ bins' = [k \in Kernels |-> bins'[k]] /\ linked'.config = c
        /\ bins'[KernelUnit[c]].deps = NamesOf(c, KernelNeeds)
        /\ \A k \in Kernels : k # KernelUnit[c] => bins'[k] = bins[k]
    BY <2>1, <2>2
  <2>5. \A k \in Kernels :
          bins'[k] # None \/ k = KernelUnit[linked'.config] => bins'[k].deps \in SUBSET Dependency
    BY <2>3, <2>4 DEF RepositoryInv
  <2>6. QED
    BY <2>1, <2>2, <2>4, <2>5 DEF RepositoryInv
<1>5. CASE CargoStops
  BY <1>5 DEF CargoStops, repositoryVars, RepositoryInv
<1>6. QED
  BY <1>1, <1>2, <1>3, <1>4, <1>5 DEF CargoStep

\* The exporter and the readers leave the repository and Cargo alone.
LEMMA OthersRepository ==
    ASSUME (\E pid \in Pid : ReadKernel(pid)) \/ ExportStep \/ Stop \/ ReaderStep
    PROVE  /\ UNCHANGED <<repositoryVars, bins, linked, cargo, units, interrupted>>
           /\ count' = count \/ \E field \in {"builds", "exports", "stops", "reads"} : Bump(field)
<1>1. CASE \E pid \in Pid : ReadKernel(pid)
  BY <1>1 DEF ReadKernel, OnlyReads, repositoryVars
<1>2. CASE ExportStep
  <2>1. CASE HashSources \/ HashFramework \/ ScanExports \/ FindKernel \/ FindApi
    BY <2>1 DEF HashSources, HashFramework, ScanExports, FindKernel, FindApi, OnlyReads, repositoryVars
  <2>2. CASE FindKernelAgain \/ Walk \/ ScanAbis \/ ScanSites
    BY <2>2 DEF FindKernelAgain, Walk, ScanAbis, ScanSites, OnlyReads, repositoryVars
  <2>3. CASE CleanTemporary \/ CreateTemporary \/ CopyRlib \/ BuildSupport \/ BuildImports
             \/ CopySources \/ CopyFramework \/ WriteManifest \/ RemoveOutput \/ Rename
    BY <2>3 DEF CleanTemporary, CreateTemporary, CopyRlib, BuildSupport, BuildImports, CopySources,
                CopyFramework, WriteManifest, RemoveOutput, Rename, OnlyWrites, closureVars, repositoryVars
  <2>4. QED
    BY <1>2, <2>1, <2>2, <2>3 DEF ExportStep
<1>3. CASE Stop
  BY <1>3 DEF Stop, Event, closureVars, repositoryVars
<1>4. CASE ReaderStep
  BY <1>4 DEF ReaderStep, ReadPackages, TakeFramework, Event, closureVars, repositoryVars
<1>5. QED
  BY <1>1, <1>2, <1>3, <1>4

LEMMA RepositoryKeeps ==
    ASSUME RepositoryInv, [Next]_exportVars
    PROVE  RepositoryInv'
<1>1. CASE UNCHANGED exportVars
  BY <1>1 DEF exportVars, repositoryVars, RepositoryInv, IsCargo
<1>2. CASE (\E pid \in Pid : ReadKernel(pid)) \/ ExportStep \/ Stop \/ ReaderStep
  BY <1>2, OthersRepository, RepositoryStays
<1>3. QED
  BY <1>1, <1>2, EditRepository, CargoRepository DEF Next

-----------------------------------------------------------------------------
(* The walk, beside a Cargo that compiles and an exporter that starts it. *)

\* What a compilation leaves is what a unit may be.
LEMMA CompiledIsUnit ==
    ASSUME RepositoryInv, NEW c \in Config, NEW x \in Compiled
    PROVE  UnitOf[c][x] \in Unit /\ CompiledUnit(c, x, sources) \in UnitState
<1>1. sources \in Version
  BY ExportAssumption DEF RepositoryInv
<1>2. x \in Crate /\ Depends[x] \in SUBSET Crate
  BY ExportAssumption
<1>3. NamesOf(c, Depends[x]) \in SUBSET Dependency
  BY <1>2, NamesAreDependencies
<1>4. FingerprintOf[c][x] \in Fingerprint
  BY <1>2, ExportAssumption
<1>5. QED
  BY <1>1, <1>3, <1>4, ExportAssumption DEF CompiledUnit, UnitState

LEMMA CargoWalk ==
    ASSUME RepositoryInv, ClosureInv, CargoStep
    PROVE  ClosureInv'
<1>0. units \in [Unit -> UnitState]
  BY DEF ClosureInv, ClosureTypeOK
<1>1. CASE \E c \in Config : CargoStarts(c)
  BY <1>1, StillKeeps DEF CargoStarts, closureVars
<1>2. CASE \E x \in Compiled : CargoEmptiesMarker(x)
  <2>1. PICK x \in Compiled : CargoEmptiesMarker(x)
    BY <1>2
  <2>2. /\ units' = [units EXCEPT ![UnitOf[cargo.config][x]].marker = None]
        /\ moved' = (walk # "off") /\ UNCHANGED walkVars
    BY <2>1 DEF CargoEmptiesMarker, Disturb
  <2>3. units' \in [Unit -> UnitState]
    BY <1>0, <2>2 DEF UnitState
  <2>4. QED
    BY <2>2, <2>3, MovedKeeps
<1>3. CASE CargoCompiles
  <2>1. /\ cargo # None /\ cargo.crate # None
        /\ units' = [units EXCEPT ![UnitOf[cargo.config][cargo.crate]] =
                         CompiledUnit(cargo.config, cargo.crate, sources)]
        /\ moved' = (walk # "off") /\ UNCHANGED walkVars
    BY <1>3 DEF CargoCompiles, Disturb
  <2>2. cargo.config \in Config /\ cargo.crate \in Compiled
    BY <2>1 DEF RepositoryInv
  <2>3. CompiledUnit(cargo.config, cargo.crate, sources) \in UnitState
    BY <2>2, CompiledIsUnit
  <2>4. units' \in [Unit -> UnitState]
    BY <1>0, <2>1, <2>3
  <2>5. QED
    BY <2>1, <2>4, MovedKeeps
<1>4. CASE CargoLinks
  BY <1>0, <1>4, MovedKeeps DEF CargoLinks, Disturb
<1>5. CASE CargoStops
  BY <1>5, StillKeeps DEF CargoStops, closureVars
<1>6. QED
  BY <1>1, <1>2, <1>3, <1>4, <1>5 DEF CargoStep

\* The kernel that is found has a JSON file.
LEMMA KernelIsNamed ==
    ASSUME RepositoryInv, NEW k \in ActiveKernel
    PROVE  k \in Kernels /\ bins[k].deps \in SUBSET Dependency
<1>1. k = KernelUnit[linked.config] \/ (k \in Kernels /\ bins[k] # None)
  BY DEF ActiveKernel, SameFile, SameBytes
<1>2. KernelUnit[linked.config] \in Kernels
  BY DEF RepositoryInv, Kernels
<1>3. QED
  BY <1>1, <1>2 DEF RepositoryInv

LEMMA ClosureKeeps ==
    ASSUME RepositoryInv, ClosureInv, ExporterInv, [Next]_exportVars
    PROVE  ClosureInv'
<1>1. CASE UNCHANGED exportVars \/ Edit \/ (\E pid \in Pid : ReadKernel(pid)) \/ Stop \/ ReaderStep
  <2>1. UNCHANGED closureVars
    BY <1>1 DEF exportVars, Edit, cargoVars, ReadKernel, OnlyReads, Stop, ReaderStep, ReadPackages,
                TakeFramework, closureVars
  <2>2. QED
    BY <2>1, StillKeeps
<1>2. CASE ExportStep
  <2>1. CASE HashSources \/ HashFramework \/ ScanExports \/ FindKernel \/ FindApi \/ ScanSites
    <3>1. UNCHANGED closureVars
      BY <2>1 DEF HashSources, HashFramework, ScanExports, FindKernel, FindApi, ScanSites, OnlyReads,
                  closureVars
    <3>2. QED
      BY <3>1, StillKeeps
  <2>2. CASE FindKernelAgain
    <3>1. CASE UNCHANGED <<walkVars, moved>>
      BY <2>2, <3>1, StillKeeps DEF FindKernelAgain, closureVars
    <3>2. CASE moved' = FALSE /\ \E k \in ActiveKernel : StartWalk(export.api, bins[k].deps)
      <4>1. PICK k \in ActiveKernel : StartWalk(export.api, bins[k].deps)
        BY <3>2
      <4>2. export.api \in SUBSET Unit /\ bins[k].deps \in SUBSET Dependency
        BY <2>2, KernelIsNamed DEF FindKernelAgain, ExporterInv, At
      <4>3. QED
        BY <2>2, <3>2, <4>1, <4>2, WalkBegins DEF FindKernelAgain, ClosureInv
    <3>3. QED
      BY <2>2, <3>1, <3>2 DEF FindKernelAgain
  <2>3. CASE Walk
    BY <2>3, WalkStepKeeps DEF Walk, OnlyReads
  <2>4. CASE ScanAbis
    <3>1. /\ walk' = "off" /\ moved' = FALSE /\ units' = units
          /\ roots' = {} /\ rootDeps' = {} /\ pending' = {} /\ visited' = {} /\ files' = {}
      BY <2>4 DEF ScanAbis, ForgetWalk
    <3>2. QED
      BY <3>1 DEF ClosureInv, ClosureTypeOK
  <2>5. CASE CleanTemporary \/ CreateTemporary \/ CopyRlib \/ BuildSupport \/ BuildImports
             \/ CopySources \/ CopyFramework \/ WriteManifest \/ RemoveOutput \/ Rename
    <3>1. UNCHANGED closureVars
      BY <2>5 DEF CleanTemporary, CreateTemporary, CopyRlib, BuildSupport, BuildImports, CopySources,
                  CopyFramework, WriteManifest, RemoveOutput, Rename, OnlyWrites
    <3>2. QED
      BY <3>1, StillKeeps
  <2>6. QED
    BY <1>2, <2>1, <2>2, <2>3, <2>4, <2>5 DEF ExportStep
<1>3. QED
  BY <1>1, <1>2, CargoWalk DEF Next

-----------------------------------------------------------------------------
(* The exporter. *)

\* The exporter stands still, but something it reads may have changed.
Same == /\ export' \in {export, Disturbed}
        /\ UNCHANGED <<roots, files>>

LEMMA SameExporter ==
    ASSUME ExporterInv, Same
    PROVE  /\ ExporterInv'
           /\ export'.step = export.step
           /\ ~At("idle") => export'.pid = export.pid /\ export'.files = export.files
<1>1. CASE export' = export
  BY <1>1 DEF Same, ExporterInv, At
<1>2. CASE At("idle")
  BY <1>2 DEF Same, ExporterInv, At, Disturbed
<1>3. CASE ~At("idle") /\ export' = [export EXCEPT !.calm = FALSE]
  <2>1. /\ IsExport(export') /\ export'.step = export.step /\ export'.pid = export.pid
        /\ export'.api = export.api /\ export'.files = export.files
        /\ export'.sourceHash = export.sourceHash /\ export'.symbols = export.symbols
    BY <1>3 DEF ExporterInv, IsExport
  <2>2. QED
    BY <2>1, <1>3 DEF ExporterInv, At, Same
<1>4. QED
  BY <1>1, <1>2, <1>3 DEF Same, Disturbed, At

\* Everybody else leaves the exporter where it is.
LEMMA OthersSame ==
    ASSUME UNCHANGED exportVars \/ Edit \/ CargoStep \/ ReaderStep
    PROVE  Same /\ UNCHANGED packages
<1>1. CASE UNCHANGED exportVars \/ Edit \/ ReaderStep
  BY <1>1 DEF exportVars, closureVars, walkVars, Edit, ReaderStep, ReadPackages, TakeFramework, Same
<1>2. CASE CargoStep
  BY <1>2 DEF CargoStep, CargoStarts, CargoEmptiesMarker, CargoCompiles, CargoLinks, CargoStops,
              Disturb, walkVars, Same
<1>3. QED
  BY <1>1, <1>2

\* The exporter goes on to the next step, or gives up, with what it knew.
LEMMA GoesOn ==
    ASSUME ExporterInv, ~At("idle"), NEW step, export' = [export EXCEPT !.step = step]
    PROVE  /\ IsExport(export') /\ export'.step = step /\ export'.pid = export.pid
           /\ export'.api = export.api /\ export'.files = export.files
           /\ export'.sourceHash = export.sourceHash /\ export'.symbols = export.symbols
BY DEF ExporterInv, IsExport

LEMMA GivesUp ==
    ASSUME export' = Idle
    PROVE  ExporterInv' /\ export'.step = "idle"
BY DEF Idle, ExporterInv, At

\* The versions are among those the constants name.
LEMMA VersionsOK ==
    ASSUME RepositoryInv
    PROVE  sources \in Version /\ framework \in Version /\ None \notin Version
BY ExportAssumption, ClosureAssumption DEF RepositoryInv

LEMMA ReadingExporter ==
    ASSUME RepositoryInv, ClosureInv, ExporterInv,
           HashSources \/ HashFramework \/ ScanExports \/ FindKernel \/ FindApi
    PROVE  ExporterInv'
<1>0. sources \in Version
  BY VersionsOK
<1>1. CASE HashSources
  <2>1. At("sources") /\ export' = [export EXCEPT !.step = "framework", !.sourceHash = sources]
    BY <1>1 DEF HashSources
  <2>2. /\ IsExport(export') /\ export'.step = "framework" /\ export'.pid = export.pid
        /\ export'.api = export.api /\ export'.files = export.files /\ export'.sourceHash = sources
    BY <2>1 DEF ExporterInv, IsExport, At
  <2>3. QED
    BY <1>0, <2>1, <2>2 DEF ExporterInv, At, Writing
<1>2. CASE HashFramework
  <2>1. At("framework") /\ export' = [export EXCEPT !.step = "symbols", !.frameworkHash = framework]
    BY <1>2 DEF HashFramework
  <2>2. /\ IsExport(export') /\ export'.step = "symbols" /\ export'.pid = export.pid
        /\ export'.api = export.api /\ export'.files = export.files
        /\ export'.sourceHash = export.sourceHash
    BY <2>1 DEF ExporterInv, IsExport, At
  <2>3. QED
    BY <2>1, <2>2 DEF ExporterInv, At, Writing
<1>3. CASE ScanExports
  <2>1. At("symbols") /\ export' = [export EXCEPT !.step = "unit", !.symbols = sources]
    BY <1>3 DEF ScanExports
  <2>2. /\ IsExport(export') /\ export'.step = "unit" /\ export'.pid = export.pid
        /\ export'.api = export.api /\ export'.files = export.files
        /\ export'.sourceHash = export.sourceHash /\ export'.symbols = sources
    BY <2>1 DEF ExporterInv, IsExport, At
  <2>3. QED
    BY <1>0, <2>1, <2>2 DEF ExporterInv, At, Writing
<1>4. CASE FindKernel
  <2>1. CASE \E k \in ActiveKernel : export' = [export EXCEPT !.step = "api", !.unit = bins[k].deps]
    <3>1. At("unit")
      BY <1>4 DEF FindKernel
    <3>2. /\ IsExport(export') /\ export'.step = "api" /\ export'.pid = export.pid
          /\ export'.api = export.api /\ export'.files = export.files
          /\ export'.sourceHash = export.sourceHash /\ export'.symbols = export.symbols
      BY <2>1, <3>1 DEF ExporterInv, IsExport, At
    <3>3. QED
      BY <3>1, <3>2 DEF ExporterInv, At, Writing
  <2>2. QED
    BY <1>4, <2>1, GivesUp DEF FindKernel, Fail
<1>5. CASE FindApi
  <2>1. PICK x \in Api \ {CrateOf[u] : u \in export.api} :
            LET found == UNION {Candidates(d) : d \in {e \in export.unit : e.crate = x}}
            IN  IF Cardinality(found) = 1 THEN export' = [export EXCEPT !.api = @ \cup found]
                                          ELSE Fail
    BY <1>5 DEF FindApi
  <2> DEFINE found == UNION {Candidates(d) : d \in {e \in export.unit : e.crate = x}}
  <2>2. found \subseteq Unit
    BY DEF Candidates
  <2> HIDE DEF found
  <2>3. CASE export' = [export EXCEPT !.api = @ \cup found]
    <3>1. At("api")
      BY <1>5 DEF FindApi
    <3>2. /\ IsExport(export') /\ export'.step = "api" /\ export'.pid = export.pid
          /\ export'.api = export.api \cup found /\ export'.files = export.files
          /\ export'.sourceHash = export.sourceHash /\ export'.symbols = export.symbols
      BY <2>3, <3>1 DEF ExporterInv, IsExport, At
    <3>3. QED
      BY <2>2, <3>1, <3>2 DEF ExporterInv, At, Writing
  <2>4. QED
    BY <2>1, <2>3, GivesUp DEF Fail, found
<1>6. QED
  BY <1>1, <1>2, <1>3, <1>4, <1>5

LEMMA WalkingExporter ==
    ASSUME ClosureInv, ExporterInv, FindKernelAgain \/ Walk \/ ScanAbis \/ ScanSites
    PROVE  ExporterInv'
<1>1. CASE FindKernelAgain
  <2>1. At("api")
    BY <1>1 DEF FindKernelAgain
  <2>2. CASE Go("walk") /\ \E k \in ActiveKernel : StartWalk(export.api, bins[k].deps)
    <3>1. roots' = export.api /\ files' = export.api
      BY <2>2 DEF StartWalk
    <3>2. QED
      BY <2>1, <2>2, <3>1, GoesOn DEF Go, ExporterInv, At, Writing
  <2>3. QED
    BY <1>1, <2>2, GivesUp DEF FindKernelAgain, Fail
<1>2. CASE Walk
  <2>1. /\ At("walk") /\ roots = export.api /\ roots \subseteq files
        /\ files \in SUBSET Unit
    BY <1>2 DEF Walk, ExporterInv, At, ClosureInv, ClosureTypeOK
  <2>2. /\ roots' = roots /\ files \subseteq files' /\ files' \in SUBSET Unit
        /\ walk' # "walking" => files' = files
    BY <1>2, <2>1 DEF Walk, WalkStep, EndWalk, Visit, VisitAgain, VisitFails, VisitNone, VisitTake
  <2>3. CASE UNCHANGED export
    BY <2>1, <2>2, <2>3 DEF ExporterInv, At, Writing
  <2>4. CASE Fail
    BY <2>4, GivesUp DEF Fail
  <2>5. CASE walk' = "done" /\ export' = [export EXCEPT !.step = "abis", !.files = files]
    <3>1. /\ IsExport(export') /\ export'.step = "abis" /\ export'.pid = export.pid
          /\ export'.api = export.api /\ export'.files = files
          /\ export'.sourceHash = export.sourceHash /\ export'.symbols = export.symbols
      BY <2>1, <2>5 DEF ExporterInv, IsExport, At
    <3>2. QED
      BY <2>1, <3>1 DEF ExporterInv, At, Writing
  <2>6. walk' \in {"walking", "done", "failed"}
    BY <1>2 DEF Walk, WalkStep, EndWalk, Visit, VisitAgain, VisitFails, VisitNone, VisitTake
  <2>7. QED
    BY <1>2, <2>3, <2>4, <2>5, <2>6 DEF Walk
<1>3. CASE ScanAbis
  <2>1. At("abis") /\ (Go("sites") \/ Fail)
    BY <1>3 DEF ScanAbis
  <2>2. CASE Go("sites")
    BY <2>1, <2>2, GoesOn DEF Go, ExporterInv, At, Writing
  <2>3. QED
    BY <2>1, <2>2, GivesUp DEF Fail
<1>4. CASE ScanSites
  <2>1. At("sites") /\ (Go("clean") \/ Fail)
    BY <1>4 DEF ScanSites, Go
  <2>2. CASE Go("clean")
    BY <2>1, <2>2, GoesOn DEF Go, ExporterInv, At, Writing
  <2>3. QED
    BY <2>1, <2>2, GivesUp DEF Fail
<1>5. QED
  BY <1>1, <1>2, <1>3, <1>4

LEMMA StartsExporter ==
    ASSUME NEW pid \in Pid, ReadKernel(pid)
    PROVE  /\ ExporterInv' /\ export'.step = "sources" /\ UNCHANGED packages
           /\ export'.pid = pid
<1>1. PICK copy \in BOOLEAN, image \in images :
          export' = [step |-> "sources", pid |-> pid, copy |-> copy, image |-> image,
                     calm |-> cargo = None /\ ~interrupted, last |-> linked, sourceHash |-> None,
                     frameworkHash |-> None, symbols |-> None, unit |-> None, api |-> {}, files |-> {}]
  BY DEF ReadKernel
<1>2. /\ IsExport(export') /\ export'.step = "sources" /\ export'.pid = pid
      /\ export'.api = {} /\ export'.files = {}
  BY <1>1 DEF IsExport
<1>3. QED
  BY <1>2 DEF ReadKernel, OnlyReads, ExporterInv, At, Writing

\* The steps of the exporter that write.
Writes ==
    \/ CleanTemporary \/ CreateTemporary \/ CopyRlib \/ BuildSupport \/ BuildImports
    \/ CopySources \/ CopyFramework \/ WriteManifest \/ RemoveOutput \/ Rename

LEMMA WritingExporter ==
    ASSUME ExporterInv, Writes
    PROVE  ExporterInv'
<1>1. UNCHANGED <<roots, files>> /\ export.step \in {"clean"} \cup Writing
  BY DEF Writes, CleanTemporary, CreateTemporary, CopyRlib, BuildSupport, BuildImports, CopySources,
         CopyFramework, WriteManifest, RemoveOutput, Rename, OnlyWrites, closureVars, walkVars, At,
         Writing
<1>2. CASE UNCHANGED export
  BY <1>1, <1>2 DEF ExporterInv, At
<1>3. CASE \E step \in Writing : Go(step)
  <2>1. PICK step \in Writing : export' = [export EXCEPT !.step = step]
    BY <1>3 DEF Go
  <2>2. QED
    BY <1>1, <2>1, GoesOn DEF ExporterInv, At, Writing
<1>4. CASE export' = Idle
  BY <1>4, GivesUp
<1>5. QED
  BY <1>2, <1>3, <1>4
  DEF Writes, CleanTemporary, CreateTemporary, CopyRlib, BuildSupport, BuildImports, CopySources,
      CopyFramework, WriteManifest, RemoveOutput, Rename, Fail, Writing

LEMMA ExporterKeeps ==
    ASSUME RepositoryInv, ClosureInv, ExporterInv, [Next]_exportVars
    PROVE  ExporterInv'
<1>1. CASE UNCHANGED exportVars \/ Edit \/ CargoStep \/ ReaderStep
  BY <1>1, OthersSame, SameExporter
<1>2. CASE \E pid \in Pid : ReadKernel(pid)
  BY <1>2, StartsExporter
<1>3. CASE ExportStep
  BY <1>3, ReadingExporter, WalkingExporter, WritingExporter DEF ExportStep, Writes
<1>4. CASE Stop
  BY <1>4, GivesUp DEF Stop
<1>5. QED
  BY <1>1, <1>2, <1>3, <1>4 DEF Next

-----------------------------------------------------------------------------
(* The packages. *)

\* What PackageWhole says of one package.
Whole(p) ==
    p # None /\ p.manifest \notin {None, Torn} /\ ~p.removing =>
        /\ p.writers = {p.manifest.by}
        /\ \A u \in Unit : p.metadata[u] # None <=> u \in p.manifest.files
        /\ p.manifest.api \subseteq p.manifest.files
        /\ None \notin {p.support, p.imports, p.source, p.framework}

LEMMA WholeOfEach ==
    /\ PackageWhole <=> \A d \in Directory : Whole(packages[d])
    /\ PackageWhole' <=> \A d \in Directory : Whole(packages'[d])
BY DEF PackageWhole, Written, Whole

\* The directory an export writes is beside the package.
LEMMA HereIsBeside ==
    ASSUME ExporterInv, ~At("idle")
    PROVE  Here \in Directory /\ Here # Output /\ Output \in Directory
BY ExportAssumption DEF ExporterInv, Here, Temporary, Directory, Output

\* One directory changes.
LEMMA OneChanges ==
    ASSUME PackagesOK, PackageWhole, NEW d \in Directory, NEW p,
           packages' = [packages EXCEPT ![d] = p], p # None => IsPackage(p), Whole(p)
    PROVE  /\ PackagesOK' /\ PackageWhole'
           /\ packages'[d] = p /\ \A e \in Directory \ {d} : packages'[e] = packages[e]
<1>1. /\ packages' = [e \in Directory |-> packages'[e]]
      /\ packages'[d] = p /\ \A e \in Directory \ {d} : packages'[e] = packages[e]
  BY DEF PackagesOK
<1>2. PackagesOK'
  BY <1>1 DEF PackagesOK, IsPackage
<1>3. PackageWhole'
  BY <1>1, WholeOfEach
<1>4. QED
  BY <1>1, <1>2, <1>3

\* A package changes in a field, or more.
LEMMA WithoutIsPackage ==
    ASSUME NEW p, IsPackage(p), NEW gone, NEW q, q = Without(p, gone)
    PROVE  IsPackage(q) /\ q.removing
BY DEF IsPackage, Without

LEMMA WithIsPackage ==
    ASSUME NEW p, IsPackage(p), NEW value, NEW part, NEW q, q = With(p, part, value),
           part \in {"metadata", "support", "imports", "source", "framework", "manifest"},
           part = "metadata" => value = [u \in Unit |-> value[u]]
    PROVE  /\ IsPackage(q) /\ q.removing = p.removing /\ q.writers = p.writers \cup {count.exports}
           /\ q.metadata = IF part = "metadata" THEN value ELSE p.metadata
           /\ q.support = IF part = "support" THEN value ELSE p.support
           /\ q.imports = IF part = "imports" THEN value ELSE p.imports
           /\ q.source = IF part = "source" THEN value ELSE p.source
           /\ q.framework = IF part = "framework" THEN value ELSE p.framework
           /\ q.manifest = IF part = "manifest" THEN value ELSE p.manifest
<1>1. CASE part = "metadata"
  BY <1>1 DEF IsPackage, With
<1>2. CASE part = "support"
  BY <1>2 DEF IsPackage, With
<1>3. CASE part = "imports"
  BY <1>3 DEF IsPackage, With
<1>4. CASE part = "source"
  BY <1>4 DEF IsPackage, With
<1>5. CASE part = "framework"
  BY <1>5 DEF IsPackage, With
<1>6. CASE part = "manifest"
  BY <1>6 DEF IsPackage, With
<1>7. QED
  BY <1>1, <1>2, <1>3, <1>4, <1>5, <1>6

\* A directory that is being removed is not whole and need not be.
LEMMA RemovalKeeps ==
    ASSUME PackagesOK, PackageWhole, NEW d \in Directory, BeginRemove(d) \/ EndRemove(d)
    PROVE  /\ PackagesOK' /\ PackageWhole'
           /\ \A e \in Directory \ {d} : packages'[e] = packages[e]
<1>1. CASE BeginRemove(d)
  <2>1. PICK gone : packages' = [packages EXCEPT ![d] = Without(packages[d], gone)]
    BY <1>1 DEF BeginRemove
  <2>2. IsPackage(packages[d])
    BY <1>1 DEF PackagesOK, BeginRemove
  <2>3. QED
    BY <2>1, <2>2, WithoutIsPackage, OneChanges DEF Whole
<1>2. CASE EndRemove(d)
  BY <1>2, OneChanges DEF EndRemove, Whole
<1>3. QED
  BY <1>1, <1>2

\* A part is written into the directory of the export.
LEMMA PutWrites ==
    ASSUME PackagesOK, PackageWhole, Here \in Directory, IsPackage(packages[Here]), NEW value,
           NEW part \in {"metadata", "support", "imports", "source", "framework"},
           part = "metadata" => value = [u \in Unit |-> value[u]],
           packages[Here].manifest = None, Put(part, value)
    PROVE  /\ PackagesOK' /\ PackageWhole'
           /\ packages'[Here] = With(packages[Here], part, value)
           /\ \A e \in Directory \ {Here} : packages'[e] = packages[e]
<1> DEFINE p == With(packages[Here], part, value)
<1>1. packages' = [packages EXCEPT ![Here] = p]
  BY DEF Put
<1> HIDE DEF p
<1>2. IsPackage(p) /\ p.manifest = None
  BY WithIsPackage DEF p
<1>3. Whole(p)
  BY <1>2 DEF Whole
<1>4. QED
  BY <1>1, <1>2, <1>3, OneChanges DEF p

\* Only the beginning of an export counts as one more.
LEMMA ExportsStay ==
    ASSUME RepositoryInv, UNCHANGED exportVars \/ Edit \/ CargoStep \/ ReaderStep
    PROVE  count'.exports = count.exports
<1>1. count' = count \/ \E field \in {"edits", "builds", "reads"} : Bump(field)
  <2>1. CASE UNCHANGED exportVars
    BY <2>1 DEF exportVars
  <2>2. CASE Edit
    BY <2>2 DEF Edit, Event
  <2>3. CASE CargoStep
    BY <2>3 DEF CargoStep, CargoStarts, CargoEmptiesMarker, CargoCompiles, CargoLinks, CargoStops, Event
  <2>4. CASE ReaderStep
    BY <2>4 DEF ReaderStep, ReadPackages, TakeFramework, Event
  <2>5. QED
    BY <2>1, <2>2, <2>3, <2>4
<1>2. QED
  BY <1>1, BumpCounts

\* What the others do does not touch the directory that is written.
LEMMA OwnSame ==
    ASSUME ExporterInv, OwnPackage, Same, UNCHANGED packages, count'.exports = count.exports
    PROVE  OwnPackage'
<1>1. CASE At("idle")
  BY <1>1, SameExporter DEF OwnPackage, At, Writing
<1>2. CASE ~At("idle")
  <2>1. export'.step = export.step /\ export'.files = export.files /\ Here' = Here
    BY <1>2, SameExporter DEF Here, Temporary
  <2>2. QED
    BY <2>1 DEF OwnPackage, At
<1>3. QED
  BY <1>1, <1>2

\* The next step of the exporter, and the directory it then finds.
LEMMA NextFinds ==
    ASSUME ExporterInv, ~At("idle"), NEW step, Go(step) \/ (UNCHANGED export /\ At(step))
    PROVE  export'.step = step /\ export'.files = export.files /\ Here' = Here
<1>1. CASE Go(step)
  BY <1>1, GoesOn DEF Go, Here, Temporary
<1>2. CASE UNCHANGED export /\ At(step)
  BY <1>2 DEF At, Here, Temporary
<1>3. QED
  BY <1>1, <1>2

PackagesInv == PackagesOK /\ PackageWhole /\ OwnPackage

LEMMA CreatesKeeps ==
    ASSUME ExporterInv, PackagesInv, CreateTemporary
    PROVE  PackagesInv'
<1>1. At("clean") /\ Here \in Directory
  BY HereIsBeside DEF CreateTemporary, At
<1>2. IsPackage(Empty) /\ Whole(Empty)
  BY DEF IsPackage, Whole, Empty
<1>3. PackagesOK' /\ PackageWhole' /\ packages'[Here] = Empty
  BY <1>1, <1>2, OneChanges DEF CreateTemporary, PackagesInv
<1>4. export'.step = "metadata" /\ Here' = Here
  BY <1>1, NextFinds DEF CreateTemporary, At
<1>5. OwnPackage'
  BY <1>2, <1>3, <1>4 DEF OwnPackage, At, Empty
<1>6. QED
  BY <1>3, <1>5 DEF PackagesInv

LEMMA CopiesKeeps ==
    ASSUME ExporterInv, PackagesInv, CopyRlib
    PROVE  PackagesInv'
<1>1. At("metadata") /\ Here \in Directory /\ count' = count
  BY HereIsBeside DEF CopyRlib, At, OnlyWrites
<1>2. CASE Fail /\ UNCHANGED packages
  BY <1>2, GivesUp DEF Fail, PackagesInv, PackagesOK, PackageWhole, Written, OwnPackage, Writing, IsPackage
<1>3. CASE \E u \in Missing :
              /\ units[u].rlib # None /\ UNCHANGED export
              /\ Put("metadata", [packages[Here].metadata EXCEPT ![u] = units[u].rlib])
  <2>1. PICK u \in Missing :
              /\ units[u].rlib # None /\ UNCHANGED export
              /\ Put("metadata", [packages[Here].metadata EXCEPT ![u] = units[u].rlib])
    BY <1>3
  <2> DEFINE value == [packages[Here].metadata EXCEPT ![u] = units[u].rlib]
  <2>2. IsPackage(packages[Here]) /\ packages[Here].manifest = None
    BY <1>1 DEF PackagesInv, OwnPackage, At, Writing
  <2>3. /\ value = [w \in Unit |-> value[w]] /\ u \in export.files
        /\ \A w \in Unit : w # u => value[w] = packages[Here].metadata[w]
    BY <2>1, <2>2 DEF IsPackage, Missing
  <2> HIDE DEF value
  <2>4. PackagesOK' /\ PackageWhole' /\ packages'[Here] = With(packages[Here], "metadata", value)
    BY <1>1, <2>1, <2>2, <2>3, PutWrites DEF value, PackagesInv
  <2>5. /\ IsPackage(packages'[Here]) /\ packages'[Here].removing = packages[Here].removing
        /\ packages'[Here].writers = packages[Here].writers \cup {count.exports}
        /\ packages'[Here].metadata = value /\ packages'[Here].manifest = packages[Here].manifest
    BY <2>2, <2>3, <2>4, WithIsPackage
  <2>6. export'.step = "metadata" /\ export'.files = export.files /\ Here' = Here
    BY <1>1, <2>1, NextFinds DEF At
  <2>7. OwnPackage'
    BY <1>1, <2>3, <2>5, <2>6 DEF PackagesInv, OwnPackage, At, Writing
  <2>8. QED
    BY <2>4, <2>7 DEF PackagesInv
<1>4. QED
  BY <1>2, <1>3 DEF CopyRlib

\* Each of the parts between the rlibs and the manifest.
Between(step, part, next) ==
    \/ step = "metadata" /\ part = "support" /\ next = "imports"
    \/ step = "imports" /\ part = "imports" /\ next = "snapshot"
    \/ step = "snapshot" /\ part = "source" /\ next = "copy_framework"
    \/ step = "copy_framework" /\ part = "framework" /\ next = "manifest"

LEMMA PartKeeps ==
    ASSUME ExporterInv, PackagesInv, NEW part, NEW next, Between(export.step, part, next),
           At("metadata") => Missing = {}, NEW value, value # None, Put(part, value), Go(next),
           count' = count
    PROVE  PackagesInv'
<1>1. Here \in Directory /\ ~At("idle") /\ ~At("replace") /\ export.step \in Writing
  BY HereIsBeside DEF Between, At, Writing
<1>2. IsPackage(packages[Here]) /\ packages[Here].manifest = None
  BY <1>1 DEF PackagesInv, OwnPackage
<1>3. part \in {"support", "imports", "source", "framework"}
  BY DEF Between
<1>4. PackagesOK' /\ PackageWhole' /\ packages'[Here] = With(packages[Here], part, value)
  BY <1>1, <1>2, <1>3, PutWrites DEF PackagesInv
<1>5. LET own == packages[Here]
          new == packages'[Here]
      IN  /\ IsPackage(new) /\ new.removing = own.removing
          /\ new.writers = own.writers \cup {count.exports}
          /\ new.metadata = own.metadata /\ new.manifest = own.manifest
          /\ new.support = IF part = "support" THEN value ELSE own.support
          /\ new.imports = IF part = "imports" THEN value ELSE own.imports
          /\ new.source = IF part = "source" THEN value ELSE own.source
          /\ new.framework = IF part = "framework" THEN value ELSE own.framework
  BY <1>2, <1>3, <1>4, WithIsPackage
<1>6. export'.step = next /\ export'.files = export.files /\ Here' = Here
  BY <1>1, NextFinds
<1>7. ~At("metadata") => packages[Here].writers = {count.exports}
  BY <1>1 DEF PackagesInv, OwnPackage
<1>8. /\ packages'[Here].writers = {count.exports}
      /\ \A u \in Unit : packages'[Here].metadata[u] # None => u \in export.files
  BY <1>1, <1>5 DEF PackagesInv, OwnPackage
<1>9. \A u \in export.files : packages'[Here].metadata[u] # None
  BY <1>1, <1>5 DEF PackagesInv, OwnPackage, Missing
<1>10. OwnPackage'
  <2>1. CASE export.step = "metadata"
    BY <1>1, <1>5, <1>6, <1>8, <1>9, <2>1 DEF Between, PackagesInv, OwnPackage, At
  <2>2. CASE export.step = "imports"
    BY <1>1, <1>5, <1>6, <1>8, <1>9, <2>2 DEF Between, PackagesInv, OwnPackage, At
  <2>3. CASE export.step = "snapshot"
    BY <1>1, <1>5, <1>6, <1>8, <1>9, <2>3 DEF Between, PackagesInv, OwnPackage, At
  <2>4. CASE export.step = "copy_framework"
    BY <1>1, <1>5, <1>6, <1>8, <1>9, <2>4 DEF Between, PackagesInv, OwnPackage, At
  <2>5. QED
    BY <2>1, <2>2, <2>3, <2>4 DEF Between
<1>11. QED
  BY <1>4, <1>10 DEF PackagesInv

LEMMA PartsKeep ==
    ASSUME RepositoryInv, ClosureInv, ExporterInv, PackagesInv,
           BuildSupport \/ BuildImports \/ CopySources \/ CopyFramework
    PROVE  PackagesInv'
<1>1. count' = count
  BY DEF BuildSupport, BuildImports, CopySources, CopyFramework, OnlyWrites
<1>2. sources \in Version /\ framework \in Version /\ None \notin Version
  BY VersionsOK
<1>3. CASE BuildSupport
  <2>1. At("metadata") /\ export.files \subseteq Unit
    BY <1>3 DEF BuildSupport, ExporterInv, At
  <2>2. [u \in export.files |-> units[u].rlib] \in [export.files -> Version \cup {None}]
    BY <2>1 DEF ClosureInv, ClosureTypeOK, UnitState
  <2>3. [u \in export.files |-> units[u].rlib] # None
    BY <2>1, <2>2, ExportAssumption
  <2>4. QED
    BY <1>1, <1>3, <2>1, <2>3, PartKeeps DEF BuildSupport, Between, At
<1>4. CASE BuildImports
  <2>1. At("imports") /\ export.symbols # None
    BY <1>2, <1>4 DEF BuildImports, ExporterInv, At
  <2>2. QED
    BY <1>1, <1>4, <2>1, PartKeeps DEF BuildImports, Between, At
<1>5. CASE CopySources
  <2>1. At("snapshot") /\ export.sourceHash \in Version
    BY <1>5 DEF CopySources, ExporterInv, At
  <2>2. [claimed |-> export.sourceHash, content |-> sources] # None
    BY <1>2, <2>1, ExportAssumption
  <2>3. QED
    BY <1>1, <1>5, <2>1, <2>2, PartKeeps DEF CopySources, Between, At
<1>6. CASE CopyFramework
  BY <1>1, <1>2, <1>6, PartKeeps DEF CopyFramework, Between, At
<1>7. QED
  BY <1>3, <1>4, <1>5, <1>6

\* The manifest is written last, into a directory that has everything else.
LEMMA ManifestKeeps ==
    ASSUME ExporterInv, PackagesInv, WriteManifest
    PROVE  PackagesInv'
<1>1. At("manifest") /\ Here \in Directory /\ count' = count
  BY HereIsBeside DEF WriteManifest, At, OnlyWrites
<1>2. /\ IsPackage(packages[Here]) /\ ~packages[Here].removing
      /\ packages[Here].writers = {count.exports}
      /\ \A u \in Unit : packages[Here].metadata[u] # None <=> u \in export.files
      /\ None \notin {packages[Here].support, packages[Here].imports, packages[Here].source,
                      packages[Here].framework}
      /\ export.api \subseteq export.files /\ export.files \subseteq Unit
  BY <1>1 DEF PackagesInv, OwnPackage, ExporterInv, At, Writing
<1> DEFINE p == With(packages[Here], "manifest", Manifest)
<1>3. packages' = [packages EXCEPT ![Here] = p]
  BY DEF WriteManifest, Put
<1>4. /\ IsPackage(p) /\ ~p.removing /\ p.writers = {count.exports} /\ p.manifest = Manifest
      /\ p.metadata = packages[Here].metadata
      /\ p.support = packages[Here].support /\ p.imports = packages[Here].imports
      /\ p.source = packages[Here].source /\ p.framework = packages[Here].framework
  <2> HIDE DEF p
  <2>1. QED
    BY <1>2, WithIsPackage DEF p
<1> HIDE DEF p
<1>5. Manifest.by = count.exports /\ Manifest.files = export.files /\ Manifest.api = export.api
  BY DEF Manifest
<1>6. Whole(p)
  BY <1>2, <1>4, <1>5 DEF Whole
<1>7. PackagesOK' /\ PackageWhole' /\ packages'[Here] = p
  BY <1>1, <1>3, <1>4, <1>6, OneChanges DEF PackagesInv
<1>8. export'.step = "replace" /\ export'.files = export.files /\ Here' = Here
  BY <1>1, NextFinds DEF WriteManifest, At
<1>9. OwnPackage'
  BY <1>1, <1>2, <1>4, <1>7, <1>8 DEF OwnPackage, At
<1>10. QED
  BY <1>7, <1>9 DEF PackagesInv

LEMMA RenameKeeps ==
    ASSUME ExporterInv, PackagesInv, Rename
    PROVE  PackagesInv'
<1>1. /\ At("replace") /\ Here \in Directory /\ Output \in Directory /\ Here # Output
      /\ packages' = [packages EXCEPT ![Output] = packages[Here], ![Here] = None]
  BY HereIsBeside DEF Rename, At
<1>2. /\ packages' = [e \in Directory |-> packages'[e]]
      /\ packages'[Here] = None /\ packages'[Output] = packages[Here]
      /\ \A e \in Directory \ {Here, Output} : packages'[e] = packages[e]
  BY <1>1 DEF PackagesInv, PackagesOK
<1>3. PackagesOK'
  BY <1>1, <1>2 DEF PackagesInv, PackagesOK, IsPackage
<1>4. Whole(None) /\ \A e \in Directory : Whole(packages[e])
  BY WholeOfEach DEF PackagesInv, Whole
<1>5. PackageWhole'
  BY <1>1, <1>2, <1>4, WholeOfEach
<1>6. OwnPackage'
  BY GivesUp DEF Rename, OwnPackage, Writing
<1>7. QED
  BY <1>3, <1>5, <1>6 DEF PackagesInv

LEMMA RemovingKeeps ==
    ASSUME ExporterInv, PackagesInv, CleanTemporary \/ RemoveOutput
    PROVE  PackagesInv'
<1>1. ~At("idle") /\ UNCHANGED <<export, count>>
  BY DEF CleanTemporary, RemoveOutput, OnlyWrites, At
<1>2. Here \in Directory /\ Output \in Directory /\ Here # Output
  BY <1>1, HereIsBeside
<1>3. CASE CleanTemporary
  <2>1. PackagesOK' /\ PackageWhole'
    BY <1>2, <1>3, RemovalKeeps DEF CleanTemporary, PackagesInv
  <2>2. OwnPackage'
    BY <1>1, <1>3 DEF CleanTemporary, OwnPackage, At, Writing
  <2>3. QED
    BY <2>1, <2>2 DEF PackagesInv
<1>4. CASE RemoveOutput
  <2>1. PackagesOK' /\ PackageWhole' /\ packages'[Here] = packages[Here]
    BY <1>2, <1>4, RemovalKeeps DEF RemoveOutput, PackagesInv
  <2>2. Here' = Here
    BY <1>1 DEF Here, Temporary
  <2>3. OwnPackage'
    BY <1>1, <2>1, <2>2 DEF PackagesInv, OwnPackage, At
  <2>4. QED
    BY <2>1, <2>3 DEF PackagesInv
<1>5. QED
  BY <1>3, <1>4

\* The steps that read leave the packages alone, and are not yet writing.
LEMMA ReadsKeep ==
    ASSUME ClosureInv, RepositoryInv, ExporterInv, PackagesInv,
           \/ \E pid \in Pid : ReadKernel(pid)
           \/ HashSources \/ HashFramework \/ ScanExports \/ FindKernel \/ FindApi
           \/ FindKernelAgain \/ Walk \/ ScanAbis \/ ScanSites
    PROVE  PackagesInv'
<1>1. UNCHANGED packages
  BY DEF ReadKernel, HashSources, HashFramework, ScanExports, FindKernel, FindApi, FindKernelAgain,
         Walk, ScanAbis, ScanSites, OnlyReads
<1>2. export'.step \notin Writing
  <2>1. CASE \E pid \in Pid : ReadKernel(pid)
    BY <2>1, StartsExporter DEF Writing
  <2>2. CASE export' = Idle
    BY <2>2, GivesUp DEF Writing
  <2>3. CASE UNCHANGED export /\ At("walk")
    BY <2>3 DEF At, Writing
  <2>4. CASE /\ export.step # "idle" /\ export' # Idle
             /\ \/ HashSources \/ HashFramework \/ ScanExports \/ FindKernel \/ FindApi
                \/ FindKernelAgain \/ Walk \/ ScanAbis \/ ScanSites
             /\ ~(UNCHANGED export)
    <3>1. IsExport(export)
      BY <2>4 DEF ExporterInv, At
    <3>2. CASE HashSources \/ HashFramework \/ ScanExports
      BY <3>1, <3>2 DEF HashSources, HashFramework, ScanExports, IsExport, Writing
    <3>3. CASE FindKernel
      BY <2>4, <3>1, <3>3 DEF FindKernel, Fail, IsExport, Writing
    <3>4. CASE FindApi
      <4>1. \E api : export' = [export EXCEPT !.api = api]
        BY <2>4, <3>4 DEF FindApi, Fail
      <4>2. export'.step = "api"
        BY <3>1, <3>4, <4>1 DEF FindApi, IsExport, At
      <4>3. QED
        BY <4>2 DEF Writing
    <3>5. CASE FindKernelAgain \/ ScanAbis \/ ScanSites
      BY <2>4, <3>1, <3>5 DEF FindKernelAgain, ScanAbis, ScanSites, Go, Fail, IsExport, Writing
    <3>6. CASE Walk
      BY <2>4, <3>1, <3>6 DEF Walk, Fail, IsExport, Writing
    <3>7. QED
      BY <2>4, <3>2, <3>3, <3>4, <3>5, <3>6
  <2>5. export.step # "idle" \/ \E pid \in Pid : ReadKernel(pid)
    BY DEF HashSources, HashFramework, ScanExports, FindKernel, FindApi, FindKernelAgain, Walk,
           ScanAbis, ScanSites, At
  <2>6. UNCHANGED export => At("walk") \/ export.step \notin Writing
    BY DEF ReadKernel, HashSources, HashFramework, ScanExports, FindKernel, FindApi,
           FindKernelAgain, Walk, ScanAbis, ScanSites, At, Writing
  <2>7. QED
    BY <2>1, <2>2, <2>3, <2>4, <2>5, <2>6
<1>3. QED
  BY <1>1, <1>2 DEF PackagesInv, PackagesOK, PackageWhole, Written, OwnPackage, IsPackage

\* A process that stops leaves what it has written, and perhaps half a manifest.
LEMMA StopKeeps ==
    ASSUME ExporterInv, PackagesInv, Stop
    PROVE  PackagesInv'
<1>1. OwnPackage'
  BY GivesUp DEF Stop, OwnPackage, Writing
<1>2. CASE UNCHANGED packages
  BY <1>1, <1>2 DEF PackagesInv, PackagesOK, PackageWhole, Written, IsPackage
<1>3. CASE At("manifest") /\ packages' = [packages EXCEPT ![Here].manifest = Torn]
  <2> DEFINE p == [packages[Here] EXCEPT !.manifest = Torn]
  <2>1. packages' = [packages EXCEPT ![Here] = p]
    BY <1>3
  <2>2. Here \in Directory /\ IsPackage(packages[Here])
    BY <1>3, HereIsBeside DEF PackagesInv, OwnPackage, At, Writing
  <2>3. \A q : q = p => IsPackage(q) /\ q.manifest = Torn
    BY <2>2 DEF IsPackage
  <2> HIDE DEF p
  <2>4. PackagesOK' /\ PackageWhole'
    BY <2>1, <2>2, <2>3, OneChanges DEF Whole, PackagesInv
  <2>5. QED
    BY <1>1, <2>4 DEF PackagesInv
<1>4. QED
  BY <1>2, <1>3 DEF Stop

LEMMA PackagesKeep ==
    ASSUME RepositoryInv, ClosureInv, ExporterInv, PackagesInv, [Next]_exportVars
    PROVE  PackagesInv'
<1>1. CASE UNCHANGED exportVars \/ Edit \/ CargoStep \/ ReaderStep
  BY <1>1, OthersSame, ExportsStay, OwnSame
  DEF PackagesInv, PackagesOK, PackageWhole, Written, IsPackage
<1>2. CASE ExportStep \/ \E pid \in Pid : ReadKernel(pid)
  BY <1>2, ReadsKeep, CreatesKeeps, CopiesKeeps, PartsKeep, ManifestKeeps, RenameKeeps, RemovingKeeps
  DEF ExportStep
<1>3. QED
  BY <1>1, <1>2, StopKeeps DEF Next

-----------------------------------------------------------------------------
(* The reader. *)

LEMMA ReaderKeeps ==
    ASSUME ReaderInv, [Next]_exportVars
    PROVE  ReaderInv'
<1>1. CASE UNCHANGED reader
  BY <1>1 DEF ReaderInv, FrameworkAsClaimed
<1>2. CASE ReadPackages
  <2>1. CASE UNCHANGED reader
    BY <2>1 DEF ReaderInv, FrameworkAsClaimed
  <2>2. CASE /\ \A d \in Offered : packages[d].framework = packages[d].manifest.frameworkHash
             /\ \E d \in Offered :
                    reader' = [step |-> "checked", directory |-> d, package |-> packages[d]]
    BY <2>2 DEF ReaderInv, FrameworkAsClaimed
  <2>3. QED
    BY <1>2, <2>1, <2>2 DEF ReadPackages
<1>3. CASE TakeFramework
  <2> DEFINE d == reader.directory
  <2>1. reader.package.framework = reader.package.manifest.frameworkHash
    BY <1>3 DEF TakeFramework, ReaderInv
  <2>2. CASE reader' = [step |-> "idle"]
    BY <2>2 DEF ReaderInv, FrameworkAsClaimed
  <2>3. CASE reader' = [step |-> "taken", framework |-> packages[d].framework,
                        claimed |-> reader.package.manifest.frameworkHash,
                        same |-> packages[d] = reader.package]
    BY <2>1, <2>3 DEF ReaderInv, FrameworkAsClaimed
  <2>4. QED
    BY <1>3, <2>2, <2>3 DEF TakeFramework
<1>4. UNCHANGED reader \/ ReadPackages \/ TakeFramework
  BY DEF exportVars, Next, Edit, CargoStep, CargoStarts, CargoEmptiesMarker, CargoCompiles,
         CargoLinks, CargoStops, ReadKernel, ExportStep, HashSources, HashFramework, ScanExports,
         FindKernel, FindApi, FindKernelAgain, Walk, ScanAbis, ScanSites, OnlyReads, CleanTemporary,
         CreateTemporary, CopyRlib, BuildSupport, BuildImports, CopySources, CopyFramework,
         WriteManifest, RemoveOutput, Rename, OnlyWrites, Stop, ReaderStep
<1>5. QED
  BY <1>1, <1>2, <1>3, <1>4

-----------------------------------------------------------------------------
(* The theorems. *)

LEMMA ExportStarts ==
    ASSUME Init
    PROVE  ExportInv
<1>1. RepositoryInv
  <2>1. KernelUnit[FirstConfig] \in Kernels /\ FirstConfig \in Config
    BY ExportAssumption DEF Kernels
  <2>2. NamesOf(FirstConfig, KernelNeeds) \in SUBSET Dependency
    BY <2>1, NamesAreDependencies, ExportAssumption
  <2>3. /\ bins = [k \in Kernels |-> bins[k]] /\ linked.config = FirstConfig
        /\ bins[KernelUnit[FirstConfig]].deps = NamesOf(FirstConfig, KernelNeeds)
        /\ \A k \in Kernels : k # KernelUnit[FirstConfig] => bins[k] = None
    BY <2>1 DEF Init
  <2>4. /\ count = [edits |-> count.edits, builds |-> count.builds, exports |-> count.exports,
                    stops |-> count.stops, reads |-> count.reads]
        /\ count.edits = 0 /\ sources = 1 /\ framework = 1 /\ cargo = None
    BY DEF Init
  <2>5. count.edits \in 0 .. MaxEdits /\ sources \in 1 .. (count.edits + 1)
        /\ framework \in 1 .. (count.edits + 1)
    BY <2>4, ExportAssumption
  <2>6. QED
    BY <2>1, <2>2, <2>3, <2>4, <2>5 DEF RepositoryInv
<1>2. units \in [Unit -> UnitState]
  <2>1. SUFFICES ASSUME NEW u \in Unit PROVE units[u] \in UnitState
    BY DEF Init
  <2>2. CASE \E x \in Compiled : UnitOf[FirstConfig][x] = u
    <3>1. PICK x \in Compiled : UnitOf[FirstConfig][x] = u
      BY <2>2
    <3>2. FirstConfig \in Config /\ CrateOf[u] = x
      BY <3>1, ExportAssumption
    <3>3. units[u] = CompiledUnit(FirstConfig, x, sources)
      BY <2>2, <3>2 DEF Init
    <3>4. QED
      BY <1>1, <3>2, <3>3, CompiledIsUnit
  <2>3. CASE ~ \E x \in Compiled : UnitOf[FirstConfig][x] = u
    BY <2>3 DEF Init, UnitState
  <2>4. QED
    BY <2>2, <2>3
<1>3. ClosureInv
  BY <1>2 DEF Init, ClosureInv, ClosureTypeOK
<1>4. ExporterInv /\ OwnPackage
  BY DEF Init, Idle, ExporterInv, OwnPackage, At, Writing
<1>5. packages = [d \in Directory |-> packages[d]] /\ \A d \in Directory : packages[d] = None
  BY DEF Init
<1>6. PackagesOK /\ PackageWhole
  BY <1>5 DEF PackagesOK, PackageWhole, Written
<1>7. ReaderInv
  BY DEF Init, ReaderInv, FrameworkAsClaimed
<1>8. QED
  BY <1>1, <1>3, <1>4, <1>6, <1>7 DEF ExportInv

\* Everything the exporter, Cargo and the reader keep true together.
THEOREM ExportInductive == Spec => []ExportInv
<1>1. ASSUME ExportInv, [Next]_exportVars PROVE ExportInv'
  <2>1. RepositoryInv /\ ClosureInv /\ ExporterInv /\ PackagesInv /\ ReaderInv
    BY <1>1 DEF ExportInv, PackagesInv
  <2>2. RepositoryInv' /\ ClosureInv' /\ ExporterInv' /\ PackagesInv' /\ ReaderInv'
    BY <1>1, <2>1, RepositoryKeeps, ClosureKeeps, ExporterKeeps, PackagesKeep, ReaderKeeps
  <2>3. QED
    BY <2>2 DEF ExportInv, PackagesInv
<1>2. QED
  BY <1>1, ExportStarts, PTL DEF Spec

\* export_kernel_interface: a package with a manifest has all its parts, each
\* written by the export that wrote the manifest, whatever was killed, however
\* often, and whatever process ids came again.
THEOREM PackageWholeHolds == Spec => []PackageWhole
<1>1. ExportInv => PackageWhole
  BY DEF ExportInv
<1>2. QED
  BY <1>1, ExportInductive, PTL

\* packaged_framework_root: a project takes the framework that the package says
\* it has, unless the package is replaced while it is copied.
THEOREM FrameworkAsClaimedHolds == Spec => []FrameworkAsClaimed
<1>1. ExportInv => FrameworkAsClaimed
  BY DEF ExportInv, ReaderInv
<1>2. QED
  BY <1>1, ExportInductive, PTL

\* exact_dependency_rlibs: beside a Cargo that compiles and kernels that are
\* linked again, a walk during which nothing was compiled ends with the crates
\* the kernel reaches and no other.
THEOREM ExportClosureHolds == Spec => []ClosureExact
<1>1. ExportInv => ClosureExact
  BY InvIsExact DEF ExportInv
<1>2. QED
  BY <1>1, ExportInductive, PTL

-----------------------------------------------------------------------------
(* The target directory. *)

\* Different crates have different units in a configuration.
LEMMA UnitsDiffer ==
    ASSUME NEW c \in Config, NEW x \in Compiled, NEW y \in Compiled
    PROVE  /\ UnitOf[c][x] \in Unit /\ CrateOf[UnitOf[c][x]] = x
           /\ x # y => UnitOf[c][x] # UnitOf[c][y]
BY ExportAssumption

\* A finished unit has an rlib and its marker.
LEMMA FinishedHasRlib ==
    ASSUME NEW c \in Config, NEW x \in Compiled, Finished(c, x)
    PROVE  /\ units[UnitOf[c][x]].rlib \in Version /\ units[UnitOf[c][x]].rlib # None
           /\ units[UnitOf[c][x]].marker = FingerprintOf[c][x]
           /\ units[UnitOf[c][x]].deps = NamesOf(c, Depends[x])
BY ClosureAssumption DEF Finished, CompiledUnit

\* Nothing of it changes while units and images stay.
LEMMA IntactStays ==
    ASSUME UNCHANGED <<units, bins, linked>>
    PROVE  /\ Intact <=> Intact'
           /\ \A c, x : Finished(c, x) <=> Finished(c, x)'
BY DEF Intact, Finished, CompiledUnit, ImageOf, NamesOf

LEMMA TargetStays ==
    ASSUME TargetInv, UNCHANGED <<units, bins, linked, cargo, interrupted>>
    PROVE  TargetInv'
<1>1. /\ Intact <=> Intact'
      /\ \A c, x : Finished(c, x) <=> Finished(c, x)'
  BY IntactStays
<1>2. QED
  BY <1>1 DEF TargetInv

\* What a build has to compile is among what is left.
LEMMA StaleIsLeft ==
    ASSUME NEW S, NEW x \in Compiled, x \in S
    PROVE  x \in Affected(S)
BY DEF Affected

\* A build is told from no build.
LEMMA BuildIsNotNone ==
    ASSUME NEW c, IsCargo(c), c.config \in Config, c.left \subseteq Compiled,
           c.crate \in Compiled \cup {None}
    PROVE  c # None
BY ExportAssumption DEF IsCargo

\* What Cargo does to the units.
LEMMA CargoTarget ==
    ASSUME RepositoryInv, ClosureInv, TargetInv, CargoStep
    PROVE  TargetInv'
<1>0. units \in [Unit -> UnitState] /\ sources \in Version
  BY VersionsOK DEF ClosureInv, ClosureTypeOK
<1>1. CASE \E c \in Config : CargoStarts(c)
  <2>1. PICK c \in Config : CargoStarts(c)
    BY <1>1
  <2>2. /\ cargo' = [config |-> c, left |-> Affected(Stale(c)), crate |-> None]
        /\ UNCHANGED <<units, bins, linked, interrupted>> /\ cargo = None
    BY <2>1 DEF CargoStarts
  <2>3. \A x \in Compiled \ Affected(Stale(c)) : Finished(c, x)
    BY <1>0, StaleIsLeft DEF Stale, Finished
  <2>4. cargo'.config = c /\ cargo'.left = Affected(Stale(c))
    BY <2>2
  <2>5. /\ Intact <=> Intact'
        /\ \A d, x : Finished(d, x) <=> Finished(d, x)'
    BY <2>2, IntactStays
  <2>6. QED
    BY <2>2, <2>3, <2>4, <2>5 DEF TargetInv
<1>2. CASE \E x \in Compiled : CargoEmptiesMarker(x)
  <2>1. PICK x \in Compiled : CargoEmptiesMarker(x)
    BY <1>2
  <2>2. /\ cargo # None /\ x \in cargo.left
        /\ units' = [units EXCEPT ![UnitOf[cargo.config][x]].marker = None]
        /\ cargo' = [cargo EXCEPT !.crate = x]
        /\ UNCHANGED <<bins, linked, interrupted>>
    BY <2>1 DEF CargoEmptiesMarker
  <2>3. PICK c \in Config : c = cargo.config
    BY <2>2 DEF RepositoryInv
  <2>4. /\ IsCargo(cargo') /\ cargo'.config = c /\ cargo'.left = cargo.left
        /\ cargo'.crate = x /\ cargo.left \subseteq Compiled
    BY <2>2, <2>3 DEF RepositoryInv, IsCargo
  <2>5. cargo' # None
    BY <2>4, BuildIsNotNone
  <2>6. \A w \in Unit : /\ units'[w].rlib = units[w].rlib
                        /\ w # UnitOf[c][x] => units'[w] = units[w]
    BY <1>0, <2>2, <2>3, UnitsDiffer DEF UnitState
  <2>7. \A y \in Compiled \ cargo.left : Finished(c, y)'
    BY <2>2, <2>3, <2>6, UnitsDiffer DEF TargetInv, Finished, CompiledUnit, NamesOf
  <2>8. QED
    BY <2>2, <2>4, <2>5, <2>6, <2>7 DEF TargetInv
<1>3. CASE CargoCompiles
  <2>1. PICK c, x : c = cargo.config /\ x = cargo.crate
    OBVIOUS
  <2>2. /\ cargo # None /\ x # None
        /\ units' = [units EXCEPT ![UnitOf[c][x]] = CompiledUnit(c, x, sources)]
        /\ cargo' = [cargo EXCEPT !.crate = None, !.left = cargo.left \ {x}]
        /\ UNCHANGED <<bins, linked, interrupted>>
    BY <1>3, <2>1 DEF CargoCompiles
  <2>3. c \in Config /\ x \in Compiled
    BY <2>1, <2>2 DEF RepositoryInv
  <2>4. /\ IsCargo(cargo') /\ cargo'.config = c /\ cargo'.left = cargo.left \ {x}
        /\ cargo'.crate = None /\ cargo.left \subseteq Compiled
    BY <2>1, <2>2 DEF RepositoryInv, IsCargo
  <2>5. cargo' # None
    BY <2>3, <2>4, BuildIsNotNone
  <2>6. /\ units'[UnitOf[c][x]] = CompiledUnit(c, x, sources)
        /\ \A w \in Unit : w # UnitOf[c][x] => units'[w] = units[w]
    BY <1>0, <2>2, <2>3, UnitsDiffer
  <2>7. \A y \in Compiled \ cargo'.left : Finished(c, y)'
    <3>1. SUFFICES ASSUME NEW y \in Compiled, y \notin cargo'.left PROVE Finished(c, y)'
      OBVIOUS
    <3>2. CASE y = x
      BY <1>0, <2>6, <3>2 DEF Finished, CompiledUnit, NamesOf
    <3>3. CASE y # x
      <4>1. Finished(c, y) /\ UnitOf[c][y] \in Unit /\ UnitOf[c][y] # UnitOf[c][x]
        BY <2>1, <2>2, <2>3, <2>4, <3>1, <3>3, UnitsDiffer DEF TargetInv
      <4>2. units'[UnitOf[c][y]] = units[UnitOf[c][y]]
        BY <2>6, <4>1
      <4>3. QED
        BY <4>1, <4>2 DEF Finished, CompiledUnit, NamesOf
    <3>4. QED
      BY <3>2, <3>3
  <2>8. \A w \in Unit : units'[w].rlib # None => CrateOf[w] \in Compiled
    BY <2>3, <2>6, UnitsDiffer DEF TargetInv
  <2>9. QED
    BY <2>2, <2>4, <2>5, <2>7, <2>8 DEF TargetInv
<1>4. CASE CargoLinks
  <2>1. PICK c : c = cargo.config
    OBVIOUS
  <2>2. /\ cargo # None /\ cargo.left = {} /\ cargo' = None /\ UNCHANGED units
        /\ bins' = [bins EXCEPT ![KernelUnit[c]] = [image |-> ImageOf(c), deps |-> NamesOf(c, KernelNeeds)]]
        /\ linked' = [config |-> c, image |-> ImageOf(c)]
    BY <1>4, <2>1 DEF CargoLinks
  <2>3. c \in Config /\ KernelUnit[c] \in Kernels /\ bins = [k \in Kernels |-> bins[k]]
    BY <2>1, <2>2 DEF RepositoryInv, Kernels
  <2>4. \A x \in Compiled : Finished(c, x)
    BY <2>1, <2>2 DEF TargetInv
  <2>5. \A x \in Compiled : Finished(c, x)'
    BY <2>2, <2>4 DEF Finished, CompiledUnit, NamesOf
  <2>6. linked'.config = c /\ linked'.image = ImageOf(c)
    BY <2>2
  <2>7. bins'[KernelUnit[c]] = [image |-> ImageOf(c), deps |-> NamesOf(c, KernelNeeds)]
    BY <2>2, <2>3
  <2>8. Intact'
    BY <2>2, <2>5, <2>6, <2>7 DEF Intact, ImageOf, NamesOf
  <2>9. QED
    BY <2>2, <2>6, <2>8 DEF TargetInv
<1>5. CASE CargoStops
  <2>1. UNCHANGED <<units, bins, linked>> /\ cargo' = None /\ interrupted' = TRUE
    BY <1>5 DEF CargoStops
  <2>2. QED
    BY <2>1 DEF TargetInv
<1>6. QED
  BY <1>1, <1>2, <1>3, <1>4, <1>5 DEF CargoStep

LEMMA TargetKeeps ==
    ASSUME RepositoryInv, ClosureInv, TargetInv, [Next]_exportVars
    PROVE  TargetInv'
<1>1. CASE UNCHANGED exportVars \/ Edit
  BY <1>1, TargetStays DEF exportVars, closureVars, Edit, cargoVars
<1>2. CASE (\E pid \in Pid : ReadKernel(pid)) \/ ExportStep \/ Stop \/ ReaderStep
  BY <1>2, OthersRepository, TargetStays
<1>3. QED
  BY <1>1, <1>2, CargoTarget DEF Next

\* The only element of a set.
LEMMA SingletonOf ==
    ASSUME NEW S, Cardinality(S) = 1, IsFiniteSet(S), NEW x \in S, NEW y \in S
    PROVE  x = y
<1>1. PICK z : S = {z}
  BY FS_Singleton
<1>2. QED
  BY <1>1

-----------------------------------------------------------------------------
(* The walk over a target directory in which the kernel is intact. *)

\* What the JSON files call a crate in a configuration.
Named(c, x) == [crate |-> x, fingerprint |-> FingerprintOf[c][x]]

\* A set of crates with what the kernel needs, and with what its crates need.
Holds(T) == KernelNeeds \subseteq T /\ \A y \in T \cap Compiled : Depends[y] \subseteq T

LEMMA PartsAreLeast ==
    /\ Parts \subseteq Compiled
    /\ \A T \in SUBSET Crate : Holds(T) => Parts \subseteq T
    /\ KernelNeeds \cap Compiled \subseteq Parts
BY DEF Parts, Holds

\* The one unit that is found under the name of a crate is the kernel's.
LEMMA NamedLeadsToUnit ==
    ASSUME TargetInv, Intact, linked.config \in Config, NEW x \in Crate, NEW u \in Unit,
           \A v, w \in Candidates(Named(linked.config, x)) : v = w,
           u \in Candidates(Named(linked.config, x))
    PROVE  x \in Compiled /\ u = UnitOf[linked.config][x]
<1>1. CrateOf[u] = x /\ units[u].rlib # None
  BY DEF Candidates, Named
<1>2. x \in Compiled
  BY <1>1 DEF TargetInv
<1>3. Finished(linked.config, x)
  BY <1>2 DEF Intact
<1>4. UnitOf[linked.config][x] \in Candidates(Named(linked.config, x))
  BY <1>2, <1>3, UnitsDiffer, FinishedHasRlib DEF Candidates, Named
<1>5. QED
  BY <1>2, <1>4

LEMMA UnitHasName ==
    ASSUME Intact, linked.config \in Config, NEW x \in Compiled
    PROVE  /\ UnitOf[linked.config][x] \in Candidates(Named(linked.config, x))
           /\ units[UnitOf[linked.config][x]].deps = NamesOf(linked.config, Depends[x])
<1>1. Finished(linked.config, x)
  BY DEF Intact
<1>2. QED
  BY <1>1, UnitsDiffer, FinishedHasRlib DEF Candidates, Named

\* A walk that has come to its end has found the crates the kernel consists of.
LEMMA WalkFindsParts ==
    ASSUME ClosureInv, TargetInv, Intact, linked.config \in Config,
           walk = "walking", pending = {}, ~moved,
           rootDeps = NamesOf(linked.config, KernelNeeds)
    PROVE  Found(visited) = UnitsOf(Parts)
<1>1. PICK c \in Config : c = linked.config
  OBVIOUS
<1>2. Covered /\ Needed /\ visited \in SUBSET Dependency
  BY DEF ClosureInv, ClosureTypeOK
<1>3. \A S : NamesOf(c, S) = {Named(c, x) : x \in S}
  BY DEF NamesOf, Named
<1> DEFINE reach == {x \in Crate : \A T \in SUBSET Crate : Holds(T) => x \in T}
           mine == {d \in visited : \E x \in reach : d = Named(c, x)}
<1>4. /\ KernelNeeds \subseteq reach
      /\ \A y \in reach \cap Compiled : Depends[y] \subseteq reach
      /\ Parts = reach \cap Compiled
  <2>1. KernelNeeds \subseteq reach
    BY ExportAssumption DEF Holds
  <2>2. \A y \in reach \cap Compiled : Depends[y] \subseteq reach
    BY ExportAssumption DEF Holds
  <2>3. Parts = reach \cap Compiled
    BY ExportAssumption DEF Parts, Holds
  <2>4. QED
    BY <2>1, <2>2, <2>3
<1> HIDE DEF reach
<1>5. \A d \in mine : \A u \in Candidates(d) :
          \E x \in reach \cap Compiled :
             d = Named(c, x) /\ u = UnitOf[c][x] /\ units[u].deps = {Named(c, y) : y \in Depends[x]}
  <2>1. SUFFICES ASSUME NEW d \in mine, NEW u \in Candidates(d)
                 PROVE  \E x \in reach \cap Compiled :
                           d = Named(c, x) /\ u = UnitOf[c][x] /\ units[u].deps = {Named(c, y) : y \in Depends[x]}
    OBVIOUS
  <2>2. PICK x \in reach : d = Named(c, x)
    OBVIOUS
  <2>3. x \in Crate /\ u \in Unit /\ d \in visited
    BY DEF reach, Candidates
  <2>4. \A v, w \in Candidates(Named(c, x)) : v = w
    BY <1>2, <2>2, <2>3 DEF Covered
  <2>5. x \in Compiled /\ u = UnitOf[c][x]
    BY <1>1, <2>2, <2>3, <2>4, NamedLeadsToUnit
  <2>6. units[u].deps = {Named(c, y) : y \in Depends[x]}
    BY <1>1, <1>3, <2>5, UnitHasName
  <2>7. QED
    BY <2>2, <2>5, <2>6
<1>6. visited \subseteq mine
  <2>1. mine \in SUBSET Dependency
    BY <1>2
  <2>2. rootDeps \subseteq mine
    <3>1. rootDeps \subseteq visited
      BY <1>2 DEF Covered
    <3>2. QED
      BY <1>1, <1>3, <1>4, <3>1
  <2>3. Closed(mine)
    <3>1. SUFFICES ASSUME NEW d \in mine, NEW u \in Candidates(d) PROVE units[u].deps \subseteq mine
      BY DEF Closed, Found
    <3>2. PICK x \in reach \cap Compiled :
             u = UnitOf[c][x] /\ units[u].deps = {Named(c, y) : y \in Depends[x]}
      BY <1>5
    <3>3. u \in Found(visited)
      BY DEF Found
    <3>4. units[u].deps \subseteq visited
      BY <1>2, <3>3 DEF Covered
    <3>5. QED
      BY <1>4, <3>2, <3>4
  <2>4. QED
    BY <1>2, <2>1, <2>2, <2>3 DEF Needed
<1>7. \A x \in Parts : Named(c, x) \in visited
  <2> DEFINE S == {x \in Crate : Named(c, x) \in visited}
  <2>1. KernelNeeds \subseteq S
    BY <1>1, <1>2, <1>3, ExportAssumption DEF Covered
  <2>2. \A y \in S \cap Compiled : Depends[y] \subseteq S
    <3>1. SUFFICES ASSUME NEW y \in S \cap Compiled, NEW z \in Depends[y] PROVE z \in S
      OBVIOUS
    <3>2. UnitOf[c][y] \in Found(visited)
      BY <1>1, UnitHasName DEF Found
    <3>3. units[UnitOf[c][y]].deps = NamesOf(c, Depends[y])
      BY <1>1, UnitHasName
    <3>4. Named(c, z) \in visited
      BY <1>2, <1>3, <3>2, <3>3 DEF Covered
    <3>5. QED
      BY <3>4, ExportAssumption
  <2>3. Holds(S) /\ S \in SUBSET Crate
    BY <2>1, <2>2 DEF Holds
  <2>4. QED
    BY <2>3, PartsAreLeast
<1>8. Found(visited) \subseteq {UnitOf[c][x] : x \in Parts}
  BY <1>4, <1>5, <1>6 DEF Found
<1>9. {UnitOf[c][x] : x \in Parts} \subseteq Found(visited)
  <2>1. \A x \in Parts : UnitOf[c][x] \in Candidates(Named(c, x))
    BY <1>1, PartsAreLeast, UnitHasName
  <2>2. QED
    BY <1>7, <2>1 DEF Found
<1>10. QED
  BY <1>1, <1>8, <1>9 DEF UnitsOf

-----------------------------------------------------------------------------
(* An export that nothing disturbs. *)

\* What the exporter knows of the kernel, from one step to the next.
Kept == /\ export'.calm = export.calm /\ export'.last = export.last
        /\ export'.image = export.image

LEMMA StepKept ==
    ASSUME ExporterInv, ~At("idle"), NEW step, export' = [export EXCEPT !.step = step]
    PROVE  /\ Kept /\ export'.step = step /\ export'.pid = export.pid
           /\ export'.unit = export.unit /\ export'.api = export.api /\ export'.files = export.files
BY DEF ExporterInv, IsExport, Kept

\* A step of the exporter, when what was read and written is as it should be.
LEMMA CalmGoesOn ==
    ASSUME CalmInv, ~At("idle"), Kept, UNCHANGED <<units, bins, linked>>,
           At("walk")' /\ Intact /\ export.calm => ~moved' /\ walk' = "walking",
           Intact /\ export.calm /\ export.last = linked /\ export.image = linked.image
               /\ CalmRead /\ CalmWritten => CalmRead' /\ CalmWritten'
    PROVE  CalmInv'
<1>1. Intact => Intact'
  BY IntactStays
<1>2. QED
  BY <1>1 DEF CalmInv, Kept

\* A process that has ended is not calm, nor one that was disturbed.
LEMMA CalmEnds ==
    ASSUME export' = Idle
    PROVE  CalmInv'
BY DEF Idle, CalmInv, At

LEMMA CalmDisturbed ==
    ASSUME ExporterInv, export' = Disturbed
    PROVE  CalmInv'
<1>1. CASE At("idle")
  BY <1>1 DEF Disturbed, CalmInv, At
<1>2. CASE ~At("idle")
  <2>1. export' = [export EXCEPT !.calm = FALSE] /\ IsExport(export)
    BY <1>2 DEF Disturbed, At, ExporterInv
  <2>2. ~export'.calm
    BY <2>1 DEF IsExport
  <2>3. QED
    BY <2>2 DEF CalmInv
<1>3. QED
  BY <1>1, <1>2

\* Nothing that the exporter or its directory depends on has changed.
LEMMA CalmStays ==
    ASSUME CalmInv, UNCHANGED <<units, bins, linked, walkVars, moved, export, packages>>
    PROVE  CalmInv'
<1>1. Intact <=> Intact'
  BY IntactStays
<1>2. CalmRead <=> CalmRead'
  BY DEF CalmRead, walkVars, At, NamesOf, UnitsOf
<1>3. CalmWritten <=> CalmWritten'
  BY DEF CalmWritten, At, Here, Temporary
<1>4. QED
  BY <1>1, <1>2, <1>3 DEF CalmInv, walkVars, At

LEMMA OthersCalm ==
    ASSUME ExporterInv, CalmInv, UNCHANGED exportVars \/ Edit \/ CargoStep \/ ReaderStep
    PROVE  CalmInv'
<1>1. CASE UNCHANGED exportVars \/ ReaderStep
  BY <1>1, CalmStays DEF exportVars, closureVars, ReaderStep, ReadPackages, TakeFramework
<1>2. CASE Edit
  BY <1>2, CalmDisturbed DEF Edit
<1>3. CASE CargoStep
  BY <1>3, CalmStays, CalmDisturbed
  DEF CargoStep, CargoStarts, CargoStops, CargoEmptiesMarker, CargoCompiles, CargoLinks, Disturb
<1>4. QED
  BY <1>1, <1>2, <1>3

\* The export begins when no build runs and none was interrupted, or it is not calm.
LEMMA StartsCalm ==
    ASSUME TargetInv, NEW pid \in Pid, ReadKernel(pid)
    PROVE  CalmInv'
<1>1. PICK copy \in BOOLEAN, image \in images :
          export' = [step |-> "sources", pid |-> pid, copy |-> copy, image |-> image,
                     calm |-> cargo = None /\ ~interrupted, last |-> linked, sourceHash |-> None,
                     frameworkHash |-> None, symbols |-> None, unit |-> None, api |-> {}, files |-> {}]
  BY DEF ReadKernel
<1>2. /\ export'.step = "sources" /\ export'.calm = (cargo = None /\ ~interrupted)
      /\ export'.last = linked
  BY <1>1
<1>3. UNCHANGED <<units, bins, linked>>
  BY DEF ReadKernel, OnlyReads
<1>4. cargo = None /\ ~interrupted => Intact'
  BY <1>3, IntactStays DEF TargetInv
<1>5. CalmRead' /\ CalmWritten'
  BY <1>1, <1>2 DEF CalmRead, CalmWritten, At, Writing
<1>6. QED
  BY <1>2, <1>3, <1>4, <1>5 DEF CalmInv, At

\* The kernel with the bytes of the image that was linked last is that kernel.
LEMMA ActiveIsLinked ==
    ASSUME ClosureInv, Intact, linked.config \in Config, export.image = linked.image,
           NEW k \in ActiveKernel
    PROVE  k = KernelUnit[linked.config]
<1>1. CASE SameFile # {}
  BY <1>1 DEF ActiveKernel, SameFile
<1>2. CASE SameFile = {}
  <2> DEFINE mine == KernelUnit[linked.config]
  <2>1. Cardinality(SameBytes) = 1 /\ k \in SameBytes
    BY <1>2 DEF ActiveKernel
  <2>2. linked.image \in [Compiled -> Version \cup {None}]
    <3>1. \A x \in Compiled : UnitOf[linked.config][x] \in Unit
      BY UnitsDiffer
    <3>2. QED
      BY <3>1 DEF Intact, ImageOf, ClosureInv, ClosureTypeOK, UnitState
  <2>3. NamesOf(linked.config, KernelNeeds) \in SUBSET Dependency
    BY NamesAreDependencies, ExportAssumption
  <2>4. bins[mine] # None /\ bins[mine].image = export.image
    BY <2>2, <2>3, ExportAssumption DEF Intact
  <2>5. mine \in SameBytes
    BY <2>4 DEF SameBytes, Kernels
  <2>6. IsFiniteSet(SameBytes)
    <3>1. IsFiniteSet(Kernels)
      BY ExportAssumption DEF Kernels
    <3>2. QED
      BY <3>1, FS_Subset DEF SameBytes
  <2>7. QED
    BY <2>1, <2>5, <2>6, SingletonOf
<1>3. QED
  BY <1>1, <1>2

LEMMA ReadingCalm ==
    ASSUME RepositoryInv, ClosureInv, TargetInv, ExporterInv, CalmInv,
           HashSources \/ HashFramework \/ ScanExports \/ FindKernel \/ FindApi
    PROVE  CalmInv'
<1>0. /\ UNCHANGED <<units, bins, linked>> /\ linked.config \in Config
      /\ ~At("idle") /\ IsExport(export)
  BY DEF HashSources, HashFramework, ScanExports, FindKernel, FindApi, OnlyReads, RepositoryInv, At,
         ExporterInv
<1>1. CASE HashSources \/ HashFramework \/ ScanExports
  <2>1. /\ Kept /\ export'.step \in {"framework", "symbols", "unit"} /\ export'.api = export.api
        /\ export.step \in {"sources", "framework", "symbols", "unit"}
    BY <1>0, <1>1 DEF HashSources, HashFramework, ScanExports, IsExport, Kept, At
  <2>2. (CalmRead => CalmRead') /\ CalmWritten' /\ ~At("walk")'
    BY <2>1 DEF CalmRead, CalmWritten, At, Writing
  <2>3. QED
    BY <1>0, <2>1, <2>2, CalmGoesOn
<1>2. CASE FindKernel
  <2>1. CASE \E k \in ActiveKernel : export' = [export EXCEPT !.step = "api", !.unit = bins[k].deps]
    <3>1. PICK k \in ActiveKernel : export' = [export EXCEPT !.step = "api", !.unit = bins[k].deps]
      BY <2>1
    <3>2. At("unit")
      BY <1>2 DEF FindKernel
    <3>3. Kept /\ export'.step = "api" /\ export'.unit = bins[k].deps /\ export'.api = export.api
      BY <1>0, <3>1, <3>2 DEF IsExport, Kept
    <3>4. CalmWritten' /\ ~At("walk")'
      BY <3>3 DEF CalmWritten, At, Writing
    <3>5. Intact /\ export.image = linked.image /\ CalmRead => CalmRead'
      <4>1. SUFFICES ASSUME Intact, export.image = linked.image, CalmRead PROVE CalmRead'
        OBVIOUS
      <4>2. export'.unit = NamesOf(linked.config, KernelNeeds)
        BY <1>0, <3>3, <4>1, ActiveIsLinked DEF Intact
      <4>3. QED
        BY <1>0, <3>2, <3>3, <4>1, <4>2 DEF CalmRead, At, NamesOf, Writing
    <3>6. QED
      BY <1>0, <3>3, <3>4, <3>5, CalmGoesOn
  <2>2. QED
    BY <1>2, <2>1, CalmEnds DEF FindKernel, Fail
<1>3. CASE FindApi
  <2>1. PICK x \in Api \ {CrateOf[u] : u \in export.api} :
            LET found == UNION {Candidates(d) : d \in {e \in export.unit : e.crate = x}}
            IN  IF Cardinality(found) = 1 THEN export' = [export EXCEPT !.api = @ \cup found]
                                          ELSE Fail
    BY <1>3 DEF FindApi
  <2> DEFINE found == UNION {Candidates(d) : d \in {e \in export.unit : e.crate = x}}
  <2>2. CASE Cardinality(found) = 1 /\ export' = [export EXCEPT !.api = @ \cup found]
    <3>1. IsFiniteSet(found)
      <4>1. found \in SUBSET Unit
        BY DEF Candidates
      <4>2. QED
        BY <4>1, FS_Subset, ClosureAssumption
    <3>2. At("api")
      BY <1>3 DEF FindApi
    <3> HIDE DEF found
    <3>3. /\ Kept /\ export'.step = "api" /\ export'.unit = export.unit
          /\ export'.api = export.api \cup found
      BY <1>0, <2>2, <3>2 DEF IsExport, Kept, At
    <3>4. CalmWritten' /\ ~At("walk")'
      BY <3>3 DEF CalmWritten, At, Writing
    <3>5. Intact /\ CalmRead => CalmRead'
      <4>1. SUFFICES ASSUME Intact, CalmRead PROVE CalmRead'
        OBVIOUS
      <4>2. export.unit = NamesOf(linked.config, KernelNeeds)
        BY <3>2, <4>1 DEF CalmRead
      <4>3. found \subseteq UnitsOf(Api \cap KernelNeeds)
        <5>1. SUFFICES ASSUME NEW u \in found PROVE u \in UnitsOf(Api \cap KernelNeeds)
          OBVIOUS
        <5>2. PICK d \in export.unit : d.crate = x /\ u \in Candidates(d)
          BY DEF found
        <5>3. PICK y \in KernelNeeds : d = Named(linked.config, y)
          BY <4>2 DEF NamesOf, Named
        <5>4. y = x
          BY <5>2, <5>3 DEF Named
        <5>5. x \in Compiled /\ x \in Api
          BY ExportAssumption
        <5>6. UnitOf[linked.config][x] \in Candidates(d)
          BY <1>0, <4>1, <5>3, <5>4, <5>5, UnitHasName
        <5>7. UnitOf[linked.config][x] \in found
          BY <5>2, <5>6 DEF found
        <5>8. u = UnitOf[linked.config][x]
          BY <2>2, <3>1, <5>7, SingletonOf
        <5>9. QED
          BY <5>3, <5>4, <5>5, <5>8 DEF UnitsOf
      <4>4. QED
        BY <1>0, <3>2, <3>3, <4>1, <4>3 DEF CalmRead, At, NamesOf, UnitsOf, Writing
    <3>6. QED
      BY <1>0, <3>3, <3>4, <3>5, CalmGoesOn
  <2>3. QED
    BY <2>1, <2>2, CalmEnds DEF Fail
<1>4. QED
  BY <1>1, <1>2, <1>3

LEMMA WalkingCalm ==
    ASSUME RepositoryInv, ClosureInv, TargetInv, ExporterInv, CalmInv,
           FindKernelAgain \/ Walk \/ ScanAbis \/ ScanSites
    PROVE  CalmInv'
<1>0. /\ UNCHANGED <<units, bins, linked>> /\ linked.config \in Config
      /\ ~At("idle") /\ IsExport(export)
  BY DEF FindKernelAgain, Walk, ScanAbis, ScanSites, OnlyReads, RepositoryInv, At, ExporterInv
<1>1. CASE FindKernelAgain
  <2>1. CASE /\ Go("walk") /\ moved' = FALSE
             /\ \E k \in ActiveKernel : StartWalk(export.api, bins[k].deps)
    <3>1. PICK k \in ActiveKernel : StartWalk(export.api, bins[k].deps)
      BY <2>1
    <3>2. Kept /\ export'.step = "walk" /\ ~moved' /\ At("api")
      BY <1>0, <1>1, <2>1, StepKept DEF Go, FindKernelAgain
    <3>3. walk' = "walking" /\ roots' = export.api /\ rootDeps' = bins[k].deps
      BY <3>1 DEF StartWalk
    <3>4. CalmWritten'
      BY <3>2 DEF CalmWritten, At, Writing
    <3>5. Intact /\ export.image = linked.image /\ CalmRead => CalmRead'
      <4>1. SUFFICES ASSUME Intact, export.image = linked.image, CalmRead PROVE CalmRead'
        OBVIOUS
      <4>2. rootDeps' = NamesOf(linked.config, KernelNeeds)
        BY <1>0, <3>3, <4>1, ActiveIsLinked DEF Intact
      <4>3. roots' \subseteq UnitsOf(Api \cap KernelNeeds)
        BY <3>2, <3>3, <4>1 DEF CalmRead
      <4>4. QED
        BY <1>0, <3>2, <4>2, <4>3 DEF CalmRead, At, NamesOf, UnitsOf, Writing
    <3>6. QED
      BY <1>0, <3>2, <3>3, <3>4, <3>5, CalmGoesOn
  <2>2. QED
    BY <1>1, <2>1, CalmEnds DEF FindKernelAgain, Fail
<1>2. CASE Walk
  <2>1. At("walk") /\ WalkStep /\ UNCHANGED moved
    BY <1>2 DEF Walk, OnlyReads
  <2>2. UNCHANGED <<roots, rootDeps>>
    BY <2>1 DEF WalkStep, EndWalk, Visit, VisitAgain, VisitFails, VisitNone, VisitTake
  <2>3. CASE walk' = "walking" /\ UNCHANGED export
    <3>1. Kept /\ At("walk")'
      BY <2>1, <2>3 DEF Kept, At
    <3>2. CalmRead => CalmRead'
      BY <1>0, <2>1, <2>2, <2>3 DEF CalmRead, At, NamesOf, UnitsOf, Writing
    <3>3. CalmWritten'
      BY <3>1 DEF CalmWritten, At, Writing
    <3>4. export.calm => ~moved'
      BY <1>0, <2>1 DEF CalmInv
    <3>5. QED
      BY <1>0, <2>3, <3>1, <3>2, <3>3, <3>4, CalmGoesOn
  <2>4. CASE walk' = "done" /\ export' = [export EXCEPT !.step = "abis", !.files = files]
    <3>1. Kept /\ export'.step = "abis" /\ export'.files = files
      BY <1>0, <2>4 DEF IsExport, Kept
    <3>2. walk = "walking" /\ pending = {}
      BY <2>1, <2>4 DEF WalkStep, EndWalk, Visit, VisitAgain, VisitFails, VisitNone, VisitTake
    <3>3. CalmWritten' /\ ~At("walk")'
      BY <3>1 DEF CalmWritten, At, Writing
    <3>4. Intact /\ export.calm /\ CalmRead => CalmRead'
      <4>1. SUFFICES ASSUME Intact, export.calm, CalmRead PROVE CalmRead'
        OBVIOUS
      <4>2. ~moved
        BY <1>0, <2>1, <4>1 DEF CalmInv
      <4>3. /\ rootDeps = NamesOf(linked.config, KernelNeeds)
            /\ roots \subseteq UnitsOf(Api \cap KernelNeeds)
        BY <2>1, <4>1 DEF CalmRead
      <4>4. Found(visited) = UnitsOf(Parts)
        BY <1>0, <3>2, <4>1, <4>2, <4>3, WalkFindsParts
      <4>5. UnitsOf(Api \cap KernelNeeds) \subseteq UnitsOf(Parts)
        BY PartsAreLeast, ExportAssumption DEF UnitsOf
      <4>6. files = UnitsOf(Parts)
        BY <3>2, <4>2, <4>3, <4>4, <4>5 DEF ClosureInv, Covered
      <4>7. QED
        BY <1>0, <3>1, <4>6 DEF CalmRead, At, UnitsOf, Writing
    <3>5. QED
      BY <1>0, <3>1, <3>3, <3>4, CalmGoesOn
  <2>5. walk' \in {"walking", "done", "failed"}
    BY <2>1, <1>2 DEF WalkStep, EndWalk, Visit, VisitAgain, VisitFails, VisitNone, VisitTake
  <2>6. QED
    BY <1>2, <2>3, <2>4, <2>5, CalmEnds DEF Walk, Fail
<1>3. CASE ScanAbis \/ ScanSites
  <2>1. CASE \E step \in {"sites", "clean"} : Go(step)
    <3>1. PICK step \in {"sites", "clean"} : export' = [export EXCEPT !.step = step]
      BY <2>1 DEF Go
    <3>2. Kept /\ export'.step = step /\ export'.files = export.files
      BY <1>0, <3>1, StepKept
    <3>3. export.step \in {"abis", "sites"}
      BY <1>3 DEF ScanAbis, ScanSites, At
    <3>4. CalmWritten' /\ ~At("walk")'
      BY <3>2 DEF CalmWritten, At, Writing
    <3>5. CalmRead => CalmRead'
      BY <1>0, <3>2, <3>3 DEF CalmRead, At, UnitsOf, Writing
    <3>6. QED
      BY <1>0, <3>2, <3>4, <3>5, CalmGoesOn
  <2>2. QED
    BY <1>3, <2>1, CalmEnds DEF ScanAbis, ScanSites, Fail, Go
<1>4. QED
  BY <1>1, <1>2, <1>3

-----------------------------------------------------------------------------
(* What the export writes. *)

\* What is in the units is what the kernel was linked from.
LEMMA ImageHasRlibs ==
    ASSUME Intact, linked.config \in Config, NEW u \in UnitsOf(Parts)
    PROVE  units[u].rlib = linked.image[CrateOf[u]]
<1>1. PICK x \in Parts : u = UnitOf[linked.config][x]
  BY DEF UnitsOf
<1>2. x \in Compiled /\ CrateOf[u] = x
  BY <1>1, PartsAreLeast, UnitsDiffer
<1>3. QED
  BY <1>1, <1>2 DEF Intact, ImageOf

\* A step that leaves the rlibs in the directory, and the support library, alone.
LEMMA WritesElsewhere ==
    ASSUME ExporterInv, CalmInv, export.step \in {"clean"} \cup Writing, NEW step,
           Go(step) \/ (UNCHANGED export /\ At(step)),
           step \in {"clean"} \cup Writing,
           step \in Writing => export.step \in Writing /\ (At("metadata") => step = "metadata"),
           step \in Writing => /\ packages'[Here].metadata = packages[Here].metadata
                               /\ packages'[Here].support = packages[Here].support,
           UNCHANGED <<units, bins, linked>>
    PROVE  CalmInv'
<1>0. ~At("idle")
  BY DEF At, Writing
<1>1. Kept /\ export'.step = step /\ export'.files = export.files /\ Here' = Here
  <2>1. CASE Go(step)
    BY <1>0, <2>1, StepKept DEF Go, Here, Temporary
  <2>2. CASE UNCHANGED export /\ At(step)
    BY <2>2 DEF Kept, At, Here, Temporary
  <2>3. QED
    BY <2>1, <2>2
<1>2. ~At("walk")' /\ (CalmRead => CalmRead')
  BY <1>1 DEF CalmRead, At, UnitsOf, Writing
<1>3. CalmWritten => CalmWritten'
  BY <1>1 DEF CalmWritten, At, Kept, Writing
<1>4. QED
  BY <1>0, <1>1, <1>2, <1>3, CalmGoesOn

LEMMA CreatesCalm ==
    ASSUME ExporterInv, PackagesInv, CalmInv, CreateTemporary
    PROVE  CalmInv'
<1>1. /\ At("clean") /\ ~At("idle") /\ Here \in Directory /\ Go("metadata")
      /\ UNCHANGED <<units, bins, linked>>
  BY HereIsBeside DEF CreateTemporary, At, OnlyWrites, closureVars
<1>2. /\ Kept /\ export'.step = "metadata" /\ export'.files = export.files /\ Here' = Here
  BY <1>1, StepKept DEF Go, Here, Temporary
<1>3. packages'[Here] = Empty
  BY <1>1 DEF CreateTemporary, PackagesInv, PackagesOK
<1>4. ExporterInv => export.files \subseteq Unit
  BY <1>1 DEF ExporterInv
<1>5. CalmWritten'
  BY <1>2, <1>3, <1>4 DEF CalmWritten, At, Empty
<1>6. ~At("walk")' /\ (CalmRead => CalmRead')
  BY <1>1, <1>2 DEF CalmRead, At, UnitsOf, Writing
<1>7. QED
  BY <1>1, <1>2, <1>5, <1>6, CalmGoesOn

LEMMA CopiesCalm ==
    ASSUME RepositoryInv, ExporterInv, PackagesInv, CalmInv, CopyRlib
    PROVE  CalmInv'
<1>1. /\ At("metadata") /\ ~At("idle") /\ Here \in Directory /\ linked.config \in Config
      /\ UNCHANGED <<units, bins, linked>>
  BY HereIsBeside DEF CopyRlib, At, OnlyWrites, closureVars, RepositoryInv
<1>2. CASE \E u \in Missing :
              /\ units[u].rlib # None /\ UNCHANGED export
              /\ Put("metadata", [packages[Here].metadata EXCEPT ![u] = units[u].rlib])
  <2>1. PICK u \in Missing :
              /\ units[u].rlib # None /\ UNCHANGED export
              /\ Put("metadata", [packages[Here].metadata EXCEPT ![u] = units[u].rlib])
    BY <1>2
  <2> DEFINE value == [packages[Here].metadata EXCEPT ![u] = units[u].rlib]
  <2>2. IsPackage(packages[Here])
    BY <1>1 DEF PackagesInv, OwnPackage, At, Writing
  <2>3. /\ value = [w \in Unit |-> value[w]] /\ u \in export.files /\ export.files \subseteq Unit
        /\ \A w \in Unit : value[w] = IF w = u THEN units[u].rlib ELSE packages[Here].metadata[w]
    BY <1>1, <2>1, <2>2 DEF IsPackage, Missing, ExporterInv
  <2>4. packages'[Here] = With(packages[Here], "metadata", value)
    BY <1>1, <2>1 DEF Put, PackagesInv, PackagesOK
  <2> HIDE DEF value
  <2>5. packages'[Here].metadata = value
    BY <2>2, <2>3, <2>4, WithIsPackage
  <2>6. Kept /\ Here' = Here /\ At("metadata")'
    BY <1>1, <2>1 DEF Kept, Here, Temporary, At
  <2>7. CalmRead => CalmRead'
    BY <1>1, <2>1 DEF CalmRead, At, NamesOf, UnitsOf, Writing
  <2>8. Intact /\ export.image = linked.image /\ CalmRead /\ CalmWritten => CalmWritten'
    <3>1. SUFFICES ASSUME Intact, export.image = linked.image, CalmRead, CalmWritten PROVE CalmWritten'
      OBVIOUS
    <3>2. u \in UnitsOf(Parts)
      BY <1>1, <2>3, <3>1 DEF CalmRead, At, Writing
    <3>3. units[u].rlib = export.image[CrateOf[u]]
      BY <1>1, <3>1, <3>2, ImageHasRlibs
    <3>4. \A w \in export.files : value[w] \in {None, export.image[CrateOf[w]]}
      BY <1>1, <2>3, <3>1, <3>3 DEF CalmWritten, At, Writing
    <3>5. QED
      BY <2>1, <2>5, <2>6, <3>4 DEF CalmWritten, At
  <2>9. QED
    BY <1>1, <2>6, <2>7, <2>8, CalmGoesOn DEF At
<1>3. QED
  BY <1>2, CalmEnds DEF CopyRlib, Fail

LEMMA SupportsCalm ==
    ASSUME RepositoryInv, ExporterInv, PackagesInv, CalmInv, BuildSupport
    PROVE  CalmInv'
<1>1. /\ At("metadata") /\ ~At("idle") /\ Here \in Directory /\ linked.config \in Config
      /\ UNCHANGED <<units, bins, linked>> /\ Go("imports")
  BY HereIsBeside DEF BuildSupport, At, OnlyWrites, closureVars, RepositoryInv
<1> DEFINE value == [u \in export.files |-> units[u].rlib]
<1>2. IsPackage(packages[Here])
  BY <1>1 DEF PackagesInv, OwnPackage, At, Writing
<1>3. packages'[Here] = With(packages[Here], "support", value)
  BY <1>1 DEF BuildSupport, Put, PackagesInv, PackagesOK
<1>4. packages'[Here].support = value /\ packages'[Here].metadata = packages[Here].metadata
  BY <1>2, <1>3, WithIsPackage
<1>5. Kept /\ export'.step = "imports" /\ export'.files = export.files /\ Here' = Here
  BY <1>1, StepKept DEF Go, Here, Temporary
<1>6. ~At("walk")' /\ (CalmRead => CalmRead')
  BY <1>1, <1>5 DEF CalmRead, At, UnitsOf, Writing
<1>7. Intact /\ export.image = linked.image /\ CalmRead /\ CalmWritten => CalmWritten'
  <2>1. SUFFICES ASSUME Intact, export.image = linked.image, CalmRead, CalmWritten PROVE CalmWritten'
    OBVIOUS
  <2>2. export.files = UnitsOf(Parts)
    BY <1>1, <2>1 DEF CalmRead, At, Writing
  <2>3. \A u \in export.files : units[u].rlib = export.image[CrateOf[u]]
    BY <1>1, <2>1, <2>2, ImageHasRlibs
  <2>4. value = [u \in export.files |-> export.image[CrateOf[u]]]
    BY <2>3
  <2> HIDE DEF value
  <2>5. \A u \in export.files : packages[Here].metadata[u] \in {None, export.image[CrateOf[u]]}
    BY <1>1, <2>1 DEF CalmWritten, At, Writing
  <2>6. QED
    BY <1>4, <1>5, <2>4, <2>5 DEF CalmWritten, Kept
<1> HIDE DEF value
<1>8. QED
  BY <1>1, <1>5, <1>6, <1>7, CalmGoesOn

\* One of the other parts is written.
LEMMA PartCalm ==
    ASSUME ExporterInv, PackagesInv, CalmInv, export.step \in Writing, ~At("metadata"),
           NEW part \in {"imports", "source", "framework", "manifest"}, NEW value, Put(part, value),
           NEW step \in Writing, Go(step), OnlyWrites
    PROVE  CalmInv'
<1>1. ~At("idle") /\ Here \in Directory /\ UNCHANGED <<units, bins, linked>>
  BY HereIsBeside DEF Writing, At, OnlyWrites, closureVars
<1>2. IsPackage(packages[Here])
  BY DEF PackagesInv, OwnPackage
<1>3. packages'[Here] = With(packages[Here], part, value)
  BY <1>1 DEF Put, PackagesInv, PackagesOK
<1>4. /\ packages'[Here].metadata = packages[Here].metadata
      /\ packages'[Here].support = packages[Here].support
  BY <1>2, <1>3, WithIsPackage
<1>5. QED
  BY <1>1, <1>4, WritesElsewhere

LEMMA PartsCalm ==
    ASSUME ExporterInv, PackagesInv, CalmInv,
           BuildImports \/ CopySources \/ CopyFramework \/ WriteManifest
    PROVE  CalmInv'
<1>1. CASE BuildImports
  BY <1>1, PartCalm DEF BuildImports, At, Writing
<1>2. CASE CopySources
  BY <1>2, PartCalm DEF CopySources, At, Writing
<1>3. CASE CopyFramework
  BY <1>3, PartCalm DEF CopyFramework, At, Writing
<1>4. CASE WriteManifest
  BY <1>4, PartCalm DEF WriteManifest, At, Writing
<1>5. QED
  BY <1>1, <1>2, <1>3, <1>4

LEMMA WritingCalm ==
    ASSUME RepositoryInv, ExporterInv, PackagesInv, CalmInv, Writes
    PROVE  CalmInv'
<1>1. CASE CleanTemporary
  <2>1. At("clean") /\ UNCHANGED <<export, units, bins, linked>>
    BY <1>1 DEF CleanTemporary, OnlyWrites, closureVars
  <2>2. QED
    BY <2>1, WritesElsewhere DEF Writing, At
<1>2. CASE RemoveOutput
  <2>1. At("replace") /\ UNCHANGED <<export, units, bins, linked>>
    BY <1>2 DEF RemoveOutput, OnlyWrites, closureVars
  <2>2. Here \in Directory /\ Output \in Directory /\ Here # Output
    BY <2>1, HereIsBeside DEF At
  <2>3. packages'[Here] = packages[Here]
    BY <1>2, <2>2, RemovalKeeps DEF RemoveOutput, PackagesInv
  <2>4. QED
    BY <2>1, <2>3, WritesElsewhere DEF Writing, At
<1>3. CASE Rename
  BY <1>3, CalmEnds DEF Rename
<1>4. QED
  BY <1>1, <1>2, <1>3, CreatesCalm, CopiesCalm, SupportsCalm, PartsCalm DEF Writes

LEMMA CalmKeeps ==
    ASSUME RepositoryInv, ClosureInv, TargetInv, ExporterInv, PackagesInv, CalmInv, [Next]_exportVars
    PROVE  CalmInv'
<1>1. CASE UNCHANGED exportVars \/ Edit \/ CargoStep \/ ReaderStep
  BY <1>1, OthersCalm
<1>2. CASE \E pid \in Pid : ReadKernel(pid)
  BY <1>2, StartsCalm
<1>3. CASE ExportStep
  BY <1>3, ReadingCalm, WalkingCalm, WritingCalm DEF ExportStep, Writes
<1>4. CASE Stop
  BY <1>4, CalmEnds DEF Stop
<1>5. QED
  BY <1>1, <1>2, <1>3, <1>4 DEF Next

-----------------------------------------------------------------------------
(* The packages. *)

\* What PackageIsKernels says of one package.
IsKernels(p) ==
    p # None /\ p.manifest \notin {None, Torn} /\ p.manifest.calm /\ p.manifest.image = p.manifest.last.image =>
        /\ p.manifest.files = {UnitOf[p.manifest.last.config][x] : x \in Parts}
        /\ \A u \in p.manifest.files : p.metadata[u] = p.manifest.image[CrateOf[u]]
        /\ p.support = [u \in p.manifest.files |-> p.manifest.image[CrateOf[u]]]

LEMMA KernelsOfEach ==
    /\ PackageIsKernels <=> \A d \in Directory : IsKernels(packages[d])
    /\ PackageIsKernels' <=> \A d \in Directory : IsKernels(packages'[d])
BY DEF PackageIsKernels, Written, IsKernels

\* One directory changes.
LEMMA OneStillKernels ==
    ASSUME PackagesOK, PackageIsKernels, NEW d \in Directory, NEW p,
           packages' = [packages EXCEPT ![d] = p], IsKernels(p)
    PROVE  PackageIsKernels'
<1>1. packages'[d] = p /\ \A e \in Directory \ {d} : packages'[e] = packages[e]
  BY DEF PackagesOK
<1>2. QED
  BY <1>1, KernelsOfEach

LEMMA RemovalKeepsKernels ==
    ASSUME PackagesOK, PackageIsKernels, NEW d \in Directory, BeginRemove(d) \/ EndRemove(d)
    PROVE  PackageIsKernels'
<1>1. CASE BeginRemove(d)
  <2>1. PICK gone : packages' = [packages EXCEPT ![d] = Without(packages[d], gone)]
    BY <1>1 DEF BeginRemove
  <2>2. IsPackage(packages[d]) /\ packages[d] # None
    BY <1>1 DEF PackagesOK, BeginRemove
  <2>3. PICK p : p = Without(packages[d], gone)
    OBVIOUS
  <2>4. /\ p.metadata = packages[d].metadata /\ p.support = packages[d].support
        /\ p.manifest \in {None, packages[d].manifest}
    BY <2>2, <2>3 DEF Without, IsPackage
  <2>5. IsKernels(packages[d])
    BY KernelsOfEach
  <2>6. IsKernels(p)
    BY <2>2, <2>4, <2>5 DEF IsKernels
  <2>7. QED
    BY <2>1, <2>3, <2>6, OneStillKernels
<1>2. CASE EndRemove(d)
  BY <1>2, OneStillKernels DEF EndRemove, IsKernels
<1>3. QED
  BY <1>1, <1>2

\* A part is written into a directory that has no manifest yet.
LEMMA PutKeepsKernels ==
    ASSUME ExporterInv, PackagesInv, PackageIsKernels,
           NEW part \in {"metadata", "support", "imports", "source", "framework"}, NEW value,
           part = "metadata" => value = [u \in Unit |-> value[u]],
           export.step \in Writing, ~At("replace"), Put(part, value)
    PROVE  PackageIsKernels'
<1>1. Here \in Directory
  BY HereIsBeside DEF At, Writing
<1>2. IsPackage(packages[Here]) /\ packages[Here].manifest = None
  BY DEF PackagesInv, OwnPackage
<1>3. PICK p : p = With(packages[Here], part, value)
  OBVIOUS
<1>4. p.manifest = None
  BY <1>2, <1>3, WithIsPackage
<1>5. QED
  BY <1>1, <1>3, <1>4, OneStillKernels DEF Put, PackagesInv, IsKernels

\* The manifest of a calm export: everything is there, and from the kernel.
LEMMA ManifestKernels ==
    ASSUME RepositoryInv, ExporterInv, PackagesInv, CalmInv, PackageIsKernels, WriteManifest
    PROVE  PackageIsKernels'
<1>1. At("manifest") /\ ~At("idle") /\ Here \in Directory
  BY HereIsBeside DEF WriteManifest, At
<1>2. /\ IsPackage(packages[Here])
      /\ \A u \in export.files : packages[Here].metadata[u] # None
  BY <1>1 DEF PackagesInv, OwnPackage, At, Writing
<1>3. PICK p : p = With(packages[Here], "manifest", Manifest)
  OBVIOUS
<1>4. /\ p.manifest = Manifest /\ p.metadata = packages[Here].metadata
      /\ p.support = packages[Here].support
  BY <1>2, <1>3, WithIsPackage
<1>5. /\ Manifest.calm = export.calm /\ Manifest.image = export.image /\ Manifest.last = export.last
      /\ Manifest.files = export.files
  BY DEF Manifest
<1>6. ASSUME export.calm, export.image = export.last.image
      PROVE  /\ export.files = {UnitOf[export.last.config][x] : x \in Parts}
             /\ \A u \in export.files : packages[Here].metadata[u] = export.image[CrateOf[u]]
             /\ packages[Here].support = [u \in export.files |-> export.image[CrateOf[u]]]
  <2>1. CalmRead /\ CalmWritten /\ export.last = linked
    BY <1>1, <1>6 DEF CalmInv
  <2>2. export.files = {UnitOf[export.last.config][x] : x \in Parts}
    BY <1>1, <2>1 DEF CalmRead, At, Writing, UnitsOf
  <2>3. QED
    BY <1>1, <1>2, <2>1, <2>2 DEF CalmWritten, At, Writing
<1>7. IsKernels(p)
  BY <1>4, <1>5, <1>6 DEF IsKernels
<1>8. QED
  BY <1>1, <1>3, <1>7, OneStillKernels DEF WriteManifest, Put, PackagesInv

LEMMA WritingKernels ==
    ASSUME RepositoryInv, ClosureInv, ExporterInv, PackagesInv, CalmInv, PackageIsKernels, Writes
    PROVE  PackageIsKernels'
<1>0. Here \in Directory /\ Output \in Directory /\ Here # Output
  BY HereIsBeside DEF Writes, CleanTemporary, CreateTemporary, CopyRlib, BuildSupport, BuildImports,
                      CopySources, CopyFramework, WriteManifest, RemoveOutput, Rename, At
<1>1. CASE CleanTemporary \/ RemoveOutput
  BY <1>0, <1>1, RemovalKeepsKernels DEF CleanTemporary, RemoveOutput, PackagesInv
<1>2. CASE CreateTemporary
  BY <1>0, <1>2, OneStillKernels DEF CreateTemporary, PackagesInv, IsKernels, Empty
<1>3. CASE CopyRlib
  <2>1. At("metadata")
    BY <1>3 DEF CopyRlib
  <2>2. CASE UNCHANGED packages
    BY <2>2 DEF PackageIsKernels, Written
  <2>3. CASE \E u \in Missing : Put("metadata", [packages[Here].metadata EXCEPT ![u] = units[u].rlib])
    <3>1. PICK u \in Missing : Put("metadata", [packages[Here].metadata EXCEPT ![u] = units[u].rlib])
      BY <2>3
    <3>2. IsPackage(packages[Here])
      BY <2>1 DEF PackagesInv, OwnPackage, At, Writing
    <3>3. PICK value : value = [packages[Here].metadata EXCEPT ![u] = units[u].rlib]
      OBVIOUS
    <3>4. value = [w \in Unit |-> value[w]]
      BY <3>2, <3>3 DEF IsPackage
    <3>5. QED
      BY <2>1, <3>1, <3>3, <3>4, PutKeepsKernels DEF At, Writing
  <2>4. QED
    BY <1>3, <2>2, <2>3 DEF CopyRlib
<1>4. CASE BuildSupport
  BY <1>4, PutKeepsKernels DEF BuildSupport, At, Writing
<1>5. CASE BuildImports
  BY <1>5, PutKeepsKernels DEF BuildImports, At, Writing
<1>6. CASE CopySources
  BY <1>6, PutKeepsKernels DEF CopySources, At, Writing
<1>7. CASE CopyFramework
  BY <1>7, PutKeepsKernels DEF CopyFramework, At, Writing
<1>8. CASE Rename
  <2>1. /\ packages'[Here] = None /\ packages'[Output] = packages[Here]
        /\ \A e \in Directory \ {Here, Output} : packages'[e] = packages[e]
    BY <1>0, <1>8 DEF Rename, PackagesInv, PackagesOK
  <2>2. IsKernels(None)
    BY DEF IsKernels
  <2>3. QED
    BY <1>0, <2>1, <2>2, KernelsOfEach
<1>9. QED
  BY <1>1, <1>2, <1>3, <1>4, <1>5, <1>6, <1>7, <1>8, ManifestKernels DEF Writes

LEMMA PackagesStayKernels ==
    ASSUME RepositoryInv, ClosureInv, ExporterInv, PackagesInv, CalmInv, PackageIsKernels,
           [Next]_exportVars
    PROVE  PackageIsKernels'
<1>1. CASE UNCHANGED packages
  BY <1>1 DEF PackageIsKernels, Written
<1>2. CASE UNCHANGED exportVars \/ Edit \/ CargoStep \/ ReaderStep
  BY <1>1, <1>2, OthersSame
<1>3. CASE (\E pid \in Pid : ReadKernel(pid)) \/ (ExportStep /\ ~Writes)
  BY <1>1, <1>3 DEF ReadKernel, ExportStep, Writes, HashSources, HashFramework, ScanExports, FindKernel,
                    FindApi, FindKernelAgain, Walk, ScanAbis, ScanSites, OnlyReads
<1>4. CASE Stop
  <2>1. CASE At("manifest") /\ packages' = [packages EXCEPT ![Here].manifest = Torn]
    <3>1. Here \in Directory /\ IsPackage(packages[Here])
      BY <2>1, HereIsBeside DEF PackagesInv, OwnPackage, At, Writing
    <3>2. PICK p : p = [packages[Here] EXCEPT !.manifest = Torn]
      OBVIOUS
    <3>3. p.manifest = Torn
      BY <3>1, <3>2 DEF IsPackage
    <3>4. QED
      BY <2>1, <3>1, <3>2, <3>3, OneStillKernels DEF PackagesInv, IsKernels
  <2>2. QED
    BY <1>1, <1>4, <2>1 DEF Stop
<1>5. QED
  BY <1>2, <1>3, <1>4, WritingKernels DEF Next

-----------------------------------------------------------------------------
(* The theorem. *)

LEMMA KernelsStart ==
    ASSUME Init
    PROVE  KernelsInv
<1>1. FirstConfig \in Config /\ KernelUnit[FirstConfig] \in Kernels /\ 1 \in Version
  BY ExportAssumption DEF Kernels
<1>2. \A x \in Compiled : units[UnitOf[FirstConfig][x]] = CompiledUnit(FirstConfig, x, 1)
  BY <1>1, UnitsDiffer DEF Init
<1>3. \A x \in Compiled : Finished(FirstConfig, x)
  BY <1>1, <1>2 DEF Finished
<1>4. linked.config = FirstConfig /\ linked.image = ImageOf(FirstConfig)
  BY DEF Init
<1>5. bins[KernelUnit[FirstConfig]] = [image |-> linked.image, deps |-> NamesOf(FirstConfig, KernelNeeds)]
  BY <1>1 DEF Init
<1>6. Intact
  BY <1>3, <1>4, <1>5 DEF Intact
<1>7. \A u \in Unit : units[u].rlib # None => CrateOf[u] \in Compiled
  BY <1>1, UnitsDiffer DEF Init
<1>8. TargetInv
  BY <1>4, <1>6, <1>7 DEF TargetInv, Init
<1>9. CalmInv
  BY DEF Init, Idle, CalmInv, At
<1>10. PackageIsKernels
  BY DEF Init, PackageIsKernels, Written
<1>11. QED
  BY <1>8, <1>9, <1>10 DEF KernelsInv

\* exact_kernel_api_rlibs, exact_dependency_rlibs and copy_metadata_rlibs: a
\* package that was exported while Cargo was quiet, of the kernel that was
\* linked last, has the rlibs that kernel was linked from and no other, whatever
\* lies in the target directory.
THEOREM PackageIsKernelsHolds == Spec => []PackageIsKernels
<1>1. ASSUME ExportInv, KernelsInv, [Next]_exportVars PROVE KernelsInv'
  <2>1. RepositoryInv /\ ClosureInv /\ ExporterInv /\ PackagesInv
    BY <1>1 DEF ExportInv, PackagesInv
  <2>2. TargetInv' /\ CalmInv' /\ PackageIsKernels'
    BY <1>1, <2>1, TargetKeeps, CalmKeeps, PackagesStayKernels DEF KernelsInv
  <2>3. QED
    BY <2>2 DEF KernelsInv
<1>2. Spec => []KernelsInv
  BY <1>1, KernelsStart, ExportInductive, PTL DEF Spec
<1>3. KernelsInv => PackageIsKernels
  BY DEF KernelsInv
<1>4. QED
  BY <1>2, <1>3, PTL

=============================================================================
