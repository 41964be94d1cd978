---------------------------- MODULE BuildSetProofs ----------------------------
(***************************************************************************)
(* Proofs about BuildSet, for any module sets and configurations, any      *)
(* number of runs, and runs that stop anywhere.  They rest on what is      *)
(* proved of the two parts, ModuleOrder and ArchiveDedup, at every state   *)
(* and not only of their results.                                          *)
(***************************************************************************)
EXTENDS BuildSet, WellFoundedInduction, TLAPS

Facts == INSTANCE BuildPartsProofs WITH
            Name <- Nat, Body <- Module \X {"module", "api"}, MayFail <- MayStop

-----------------------------------------------------------------------------
(* The loop of active_modules. *)

\* One turn of the loop, on what the turns before it have kept.
Turn(s, A, before, i) == IF s[i] \in A THEN Append(before, s[i]) ELSE before

\* f[i] is what i turns of the loop keep.
IsLoop(f, s, A, n) == f = [i \in 0 .. n |-> IF i = 0 THEN <<>> ELSE Turn(s, A, f[i - 1], i)]

\* There is such a function for any number of turns.
LEMMA LoopExists ==
    ASSUME NEW s, NEW A, NEW n \in Nat
    PROVE  \E f : IsLoop(f, s, A, n)
<1> DEFINE Without == {k \in Nat : ~\E f : IsLoop(f, s, A, k)}
<1>1. SUFFICES ASSUME Without # {} PROVE FALSE
  OBVIOUS
<1>2. PICK k \in Without : \A j \in Without : ~(<<j, k>> \in OpToRel(<, Nat))
  BY <1>1, NatLessThanWellFounded, WFMin
<1>3. CASE k = 0
  <2> DEFINE f == [i \in 0 .. 0 |-> <<>>]
  <2>1. IsLoop(f, s, A, 0)
    <3>1. \A i \in 0 .. 0 : i = 0
      OBVIOUS
    <3>2. QED
      BY <3>1 DEF IsLoop
  <2>2. QED
    BY <1>2, <1>3, <2>1
<1>4. CASE k # 0
  <2>1. k - 1 \in Nat /\ k \in Nat /\ k - 1 < k
    BY <1>4
  <2>2. k - 1 \notin Without
    BY <1>2, <2>1 DEF OpToRel
  <2>3. PICK g : IsLoop(g, s, A, k - 1)
    BY <2>1, <2>2
  <2> DEFINE f == [i \in 0 .. k |-> IF i = k THEN Turn(s, A, g[k - 1], k) ELSE g[i]]
  <2>4. IsLoop(f, s, A, k)
    <3>1. f = [i \in 0 .. k |-> f[i]]
      OBVIOUS
    <3>2. ASSUME NEW i \in 0 .. k PROVE f[i] = IF i = 0 THEN <<>> ELSE Turn(s, A, f[i - 1], i)
      <4>1. CASE i = k
        <5>1. k - 1 \in 0 .. k /\ k - 1 # k
          BY <2>1
        <5>2. f[k] = Turn(s, A, g[k - 1], k) /\ f[k - 1] = g[k - 1]
          BY <5>1, <2>1
        <5>3. QED
          BY <1>4, <4>1, <5>2
      <4>2. CASE i # k
        <5>1. i \in 0 .. (k - 1) /\ f[i] = g[i]
          BY <2>1, <4>2
        <5>2. i # 0 => i - 1 \in 0 .. k /\ i - 1 # k
          BY <2>1, <5>1
        <5>3. i # 0 => f[i - 1] = g[i - 1]
          BY <5>2
        <5>4. QED
          BY <2>3, <5>1, <5>3 DEF IsLoop
      <4>3. QED
        BY <4>1, <4>2
    <3>3. QED
      BY <3>1, <3>2 DEF IsLoop
  <2>5. QED
    BY <1>2, <2>1, <2>4
<1>5. QED
  BY <1>3, <1>4

\* What is kept are modules of the list, each once.
LEMMA LoopKeeps ==
    ASSUME NEW s \in Seq(Module), \A i, j \in DOMAIN s : s[i] = s[j] => i = j,
           NEW A, NEW f, IsLoop(f, s, A, Len(s)), NEW n \in 0 .. Len(s)
    PROVE  /\ f[n] \in Seq(Module)
           /\ \A i, j \in DOMAIN f[n] : f[n][i] = f[n][j] => i = j
           /\ \A i \in DOMAIN f[n] : \E j \in 1 .. n : f[n][i] = s[j]
<1> DEFINE Good(k) == /\ f[k] \in Seq(Module)
                      /\ \A i, j \in DOMAIN f[k] : f[k][i] = f[k][j] => i = j
                      /\ \A i \in DOMAIN f[k] : \E j \in 1 .. k : f[k][i] = s[j]
           Bad == {k \in 0 .. Len(s) : ~Good(k)}
<1>0. Len(s) \in Nat /\ DOMAIN s = 1 .. Len(s)
  OBVIOUS
<1>1. SUFFICES ASSUME Bad # {} PROVE FALSE
  OBVIOUS
<1>2. Bad \subseteq Nat
  BY <1>0
<1>3. PICK k \in Bad : \A j \in Bad : ~(<<j, k>> \in OpToRel(<, Nat))
  BY <1>1, <1>2, NatLessThanWellFounded, WFMin
<1>4. CASE k = 0
  <2>1. f[0] = <<>>
    BY <1>0 DEF IsLoop
  <2>2. <<>> \in Seq(Module) /\ DOMAIN <<>> = {}
    OBVIOUS
  <2>3. QED
    BY <1>3, <1>4, <2>1, <2>2
<1>5. CASE k # 0
  <2>1. k - 1 \in 0 .. Len(s) /\ k \in 1 .. Len(s) /\ k - 1 < k
    BY <1>0, <1>5
  <2>2. Good(k - 1)
    BY <1>2, <1>3, <2>1 DEF OpToRel
  <2>3. f[k] = Turn(s, A, f[k - 1], k)
    BY <2>1, <1>5 DEF IsLoop
  <2>4. CASE s[k] \notin A
    <3>1. f[k] = f[k - 1]
      BY <2>3, <2>4 DEF Turn
    <3>2. \A j \in 1 .. (k - 1) : j \in 1 .. k
      BY <2>1
    <3>3. Good(k)
      BY <2>2, <3>1, <3>2
    <3>4. QED
      BY <1>3, <3>3
  <2>5. CASE s[k] \in A
    <3> DEFINE t == f[k - 1]
    <3>1. f[k] = Append(t, s[k]) /\ s[k] \in Module /\ t \in Seq(Module)
      BY <1>0, <2>1, <2>2, <2>3, <2>5 DEF Turn
    <3>2. /\ f[k] \in Seq(Module) /\ Len(t) \in Nat /\ DOMAIN t = 1 .. Len(t)
          /\ DOMAIN f[k] = 1 .. (Len(t) + 1)
          /\ \A i \in 1 .. Len(t) : f[k][i] = t[i]
          /\ f[k][Len(t) + 1] = s[k]
      BY <3>1
    <3>3. ASSUME NEW i \in 1 .. Len(t) PROVE \E j \in 1 .. k : f[k][i] = s[j] /\ j # k
      <4>1. PICK j \in 1 .. (k - 1) : t[i] = s[j]
        BY <2>2, <3>2
      <4>2. j \in 1 .. k /\ j # k
        BY <2>1
      <4>3. QED
        BY <3>2, <4>1, <4>2
    <3>4. ASSUME NEW i \in 1 .. Len(t) PROVE f[k][i] # f[k][Len(t) + 1]
      <4>1. PICK j \in 1 .. k : f[k][i] = s[j] /\ j # k
        BY <3>3
      <4>2. j \in DOMAIN s /\ k \in DOMAIN s
        BY <1>0, <2>1
      <4>3. QED
        BY <3>2, <4>1, <4>2
    <3>5. ASSUME NEW i \in DOMAIN f[k], NEW j \in DOMAIN f[k], f[k][i] = f[k][j] PROVE i = j
      <4>1. i \in 1 .. Len(t) /\ j \in 1 .. Len(t) => i = j
        BY <2>2, <3>2, <3>5
      <4>2. i \in 1 .. Len(t) \/ i = Len(t) + 1
        BY <3>2
      <4>3. j \in 1 .. Len(t) \/ j = Len(t) + 1
        BY <3>2
      <4>4. QED
        BY <3>4, <3>5, <4>1, <4>2, <4>3
    <3>6. ASSUME NEW i \in DOMAIN f[k] PROVE \E j \in 1 .. k : f[k][i] = s[j]
      <4>1. i \in 1 .. Len(t) \/ i = Len(t) + 1
        BY <3>2
      <4>2. k \in 1 .. k
        BY <2>1
      <4>3. QED
        BY <3>2, <3>3, <4>1, <4>2
    <3>7. Good(k)
      BY <3>2, <3>5, <3>6
    <3>8. QED
      BY <1>3, <3>7
  <2>6. QED
    BY <2>4, <2>5
<1>6. QED
  BY <1>4, <1>5

\* active_modules returns modules of the list, each once.
LEMMA ActiveIsList ==
    ASSUME set \in Sets
    PROVE  /\ Active \in Seq(Module)
           /\ \A i, j \in DOMAIN Active : Active[i] = Active[j] => i = j
           /\ Elements(Active) \subseteq Elements(set.listing)
<1> DEFINE s == set.listing
           A == set.active
           F(f) == [i \in 0 .. Len(s) |-> IF i = 0 THEN <<>>
                                          ELSE IF s[i] \in A THEN Append(f[i - 1], s[i])
                                          ELSE f[i - 1]]
           g == CHOOSE f : f = F(f)
<1>1. s \in Seq(Module) /\ (\A i, j \in DOMAIN s : s[i] = s[j] => i = j)
  BY SetsAssumption DEF SetType
<1>2. Len(s) \in Nat /\ DOMAIN s = 1 .. Len(s)
  BY <1>1
<1>3. PICK f : IsLoop(f, s, A, Len(s))
  BY <1>2, LoopExists
<1>4. f = F(f)
  BY <1>3 DEF IsLoop, Turn
<1>5. g = F(g)
  BY <1>4
<1>6. IsLoop(g, s, A, Len(s))
  <2> HIDE DEF g
  <2>1. QED
    BY <1>5 DEF IsLoop, Turn
<1>7. Active = g[Len(s)]
  BY DEF Active
<1>8. Len(s) \in 0 .. Len(s)
  BY <1>2
<1> HIDE DEF g
<1>9. /\ g[Len(s)] \in Seq(Module)
      /\ \A i, j \in DOMAIN g[Len(s)] : g[Len(s)][i] = g[Len(s)][j] => i = j
      /\ \A i \in DOMAIN g[Len(s)] : \E j \in 1 .. Len(s) : g[Len(s)][i] = s[j]
  BY <1>1, <1>6, <1>8, LoopKeeps
<1>10. QED
  BY <1>2, <1>7, <1>9 DEF Elements

-----------------------------------------------------------------------------
(* The two parts. *)

\* The order of the run is an instance of the one BuildPartsProofs is about.
LEMMA SameOrder ==
    /\ Order!OrderInv <=> Facts!OrderInv
    /\ Order!OrderInv' <=> Facts!OrderInv'
    /\ Order!OrderNext => Facts!OrderNext
    /\ Order!EachModuleOnce <=> Facts!EachModuleOnce
<1> USE DEF Order!Elements, Facts!Elements, Order!Ready, Facts!Ready,
            Order!Members, Facts!Members, Order!Distinct, Facts!Distinct,
            Order!Pending, Facts!Pending
<1>1. Order!OrderNext => Facts!OrderNext
  BY DEF Order!OrderNext, Facts!OrderNext, Order!Emit, Facts!Emit, Order!Skip,
         Facts!Skip, Order!SweepAgain, Facts!SweepAgain, Order!FindCycle,
         Facts!FindCycle, Order!Finish, Facts!Finish
<1>2. /\ Order!OrderInv <=> Facts!OrderInv
      /\ Order!OrderInv' <=> Facts!OrderInv'
  BY DEF Order!OrderInv, Facts!OrderInv, Order!TypeOK, Facts!TypeOK, Order!Partition,
         Facts!Partition, Order!DependenciesFirst, Facts!DependenciesFirst,
         Order!KeptWait, Facts!KeptWait, Order!Known, Facts!Known,
         Order!VerdictInv, Facts!VerdictInv
<1>3. Order!EachModuleOnce <=> Facts!EachModuleOnce
  BY DEF Order!EachModuleOnce, Facts!EachModuleOnce
<1>4. QED
  BY <1>1, <1>2, <1>3

\* And so is the deduplication.
LEMMA SameDedup ==
    /\ Dedup!DedupInv <=> Facts!DedupInv
    /\ Dedup!DedupInv' <=> Facts!DedupInv'
    /\ Dedup!DedupNext => Facts!DedupNext
    /\ Dedup!NoObjectLost <=> Facts!NoObjectLost
    /\ Dedup!LinkedOnce <=> Facts!LinkedOnce
<1> USE DEF Dedup!Bodies, Facts!Bodies, Dedup!Member, Facts!Member,
            Dedup!IsArchive, Facts!IsArchive, Dedup!Before, Facts!Before,
            Dedup!IsShare, Facts!IsShare, Dedup!Held, Facts!Held
<1>1. Dedup!DedupNext => Facts!DedupNext
  BY DEF Dedup!DedupNext, Facts!DedupNext, Dedup!DedupSteps, Facts!DedupSteps,
         Dedup!NothingToDo, Facts!NothingToDo, Dedup!MakeTemporary, Facts!MakeTemporary,
         Dedup!Scan, Facts!Scan, Dedup!Rebuild, Facts!Rebuild, Dedup!Refuse,
         Facts!Refuse, Dedup!Install, Facts!Install, Dedup!StepFails,
         Facts!StepFails, Dedup!ScanEnds, Facts!ScanEnds, Dedup!Cleanup,
         Facts!Cleanup, Dedup!DedupKilled, Facts!DedupKilled, Dedup!Retained,
         Facts!Retained
<1>2. /\ Dedup!DedupInv <=> Facts!DedupInv
      /\ Dedup!DedupInv' <=> Facts!DedupInv'
  BY DEF Dedup!DedupInv, Facts!DedupInv, Dedup!DedupTypeOK, Facts!DedupTypeOK,
         Dedup!BuiltOK, Facts!BuiltOK, Dedup!Walked, Facts!Walked,
         Dedup!DedupProgress, Facts!DedupProgress
<1>3. /\ Dedup!NoObjectLost <=> Facts!NoObjectLost
      /\ Dedup!LinkedOnce <=> Facts!LinkedOnce
  BY DEF Dedup!NoObjectLost, Facts!NoObjectLost, Dedup!LinkedOnce, Facts!LinkedOnce
<1>4. QED
  BY <1>1, <1>2, <1>3

LEMMA PartsAssumption == Facts!DedupAssumption
BY SetsAssumption DEF Facts!DedupAssumption

\* The order keeps its invariant in its own steps and in all others.
LEMMA OrderKept ==
    ASSUME Order!OrderInv, Order!OrderNext \/ UNCHANGED orderVars
    PROVE  Order!OrderInv'
<1>1. Facts!OrderInv /\ (Facts!OrderNext \/ UNCHANGED Facts!orderVars)
  BY SameOrder DEF orderVars, Facts!orderVars
<1>2. Facts!OrderInv'
  BY <1>1, PartsAssumption, Facts!OrderStepKeeps
<1>3. QED
  BY <1>2, SameOrder

LEMMA DedupKept ==
    ASSUME Dedup!DedupInv, Dedup!DedupNext \/ UNCHANGED dedupVars
    PROVE  Dedup!DedupInv'
<1>1. Facts!DedupInv /\ (Facts!DedupNext \/ UNCHANGED Facts!dedupVars)
  BY SameDedup DEF dedupVars, Facts!dedupVars
<1>2. Facts!DedupAssumption
  BY SetsAssumption DEF Facts!DedupAssumption
<1>3. Facts!DedupInv'
  BY <1>1, <1>2, Facts!DedupStepKeeps
<1>4. QED
  BY <1>3, SameDedup

\* The order of the active modules starts with its invariant.
LEMMA OrderStarts ==
    ASSUME set \in Sets, Order!OrderStart(Active, Needs)
    PROVE  Order!OrderInv'
<1>1. Facts!OrderStart(Active, Needs)
  BY DEF Order!OrderStart, Facts!OrderStart, Order!FirstVerdict, Facts!FirstVerdict,
         Order!Elements, Facts!Elements
<1>2. Active \in Seq(Module) /\ Facts!Distinct(Active)
  BY ActiveIsList DEF Facts!Distinct
<1>3. Elements(Active) = Facts!Elements(Active) /\ Elements(Active) \subseteq Module
  BY <1>2 DEF Elements, Facts!Elements
<1>4. Needs \in [Facts!Elements(Active) -> SUBSET Module]
  BY <1>3, SetsAssumption DEF Needs, SetType
<1>5. Facts!OrderInv'
  BY <1>1, <1>2, <1>4, PartsAssumption, Facts!OrderBegins
<1>6. QED
  BY <1>5, SameOrder

-----------------------------------------------------------------------------
(* What the invariant says of the order and of the archives. *)

\* The output is made of active modules, after what they need; at the end of all of them.
LEMMA OutputFacts ==
    ASSUME BuildTypeOK, InOrder, step \in Emptied
    PROVE  /\ output \in Seq(Module) /\ Len(output) \in Nat /\ DOMAIN output = 1 .. Len(output)
           /\ Elements(output) = Elements(Active)
           /\ Elements(output) \subseteq Elements(set.listing)
           /\ \A i \in DOMAIN output : Needs[output[i]] \subseteq {output[j] : j \in 1 .. (i - 1)}
<1>1. /\ requires = Needs /\ verdict = "ordered" /\ Order!OrderInv
  BY DEF InOrder, Emptied
<1>2. DOMAIN requires = Elements(Active)
  BY <1>1 DEF Needs
<1>3. output \in Seq(Elements(Active))
  BY <1>1, <1>2 DEF Order!OrderInv, Order!TypeOK, Order!Members
<1>4. Elements(Active) \subseteq Elements(set.listing) /\ Elements(Active) \subseteq Module
  <2>1. set \in Sets
    BY DEF BuildTypeOK
  <2>2. Active \in Seq(Module) /\ Elements(Active) \subseteq Elements(set.listing)
    BY <2>1, ActiveIsList
  <2>3. Elements(Active) \subseteq Module
    BY <2>2 DEF Elements
  <2>4. QED
    BY <2>2, <2>3
<1>5. Elements(output) = Elements(Active)
  <2>1. rest = <<>> /\ kept = <<>> /\ Order!Elements(<<>>) = {}
    BY <1>1 DEF Order!OrderInv, Order!VerdictInv, Order!Elements
  <2>2. Order!Elements(output) = DOMAIN requires
    BY <1>1, <2>1 DEF Order!OrderInv, Order!Partition, Order!Pending, Order!Members
  <2>3. QED
    BY <1>2, <2>2 DEF Order!Elements, Elements
<1>6. \A i \in DOMAIN output : Needs[output[i]] \subseteq {output[j] : j \in 1 .. (i - 1)}
  BY <1>1 DEF Order!OrderInv, Order!DependenciesFirst
<1>7. QED
  BY <1>3, <1>4, <1>5, <1>6

\* The number of a listed module is its place in the list.
LEMMA NumberIsPlace ==
    ASSUME BuildTypeOK, NEW d \in Elements(set.listing)
    PROVE  Number(d) \in Nat \ {0} /\ set.listing[Number(d)] = d
<1>1. set.listing \in Seq(Module)
  BY SetsAssumption DEF BuildTypeOK, SetType
<1>2. \E i \in DOMAIN set.listing : set.listing[i] = d
  BY DEF Elements
<1>3. Number(d) \in DOMAIN set.listing /\ set.listing[Number(d)] = d
  BY <1>2 DEF Number
<1>4. DOMAIN set.listing \subseteq Nat \ {0}
  BY <1>1
<1>5. QED
  BY <1>3, <1>4

\* An archive of listed modules has no member name twice.
LEMMA ContentsIsArchive ==
    ASSUME BuildTypeOK, NEW m \in Elements(set.listing),
           set.uses[m] \subseteq Elements(set.listing)
    PROVE  Contents(m) \in Facts!Archive
<1> DEFINE S == set.uses[m] \cup ({m} \cap set.api)
<1>1. S \subseteq Elements(set.listing) /\ Elements(set.listing) \subseteq Module
  BY SetsAssumption DEF BuildTypeOK, SetType, Elements
<1>2. \A d \in S : Number(d) \in Nat \ {0} /\ set.listing[Number(d)] = d
  BY <1>1, NumberIsPlace
<1>3. m \in Module
  BY <1>1
<1>4. Contents(m) = {[name |-> 0, body |-> <<m, "module">>]} \cup
                    {[name |-> Number(d), body |-> <<d, "api">>] : d \in S}
  BY DEF Contents
<1> HIDE DEF S
<1>5. Contents(m) \subseteq Facts!Member
  BY <1>1, <1>2, <1>3, <1>4 DEF Facts!Member
<1>6. ASSUME NEW x \in Contents(m), NEW y \in Contents(m), x.name = y.name PROVE x = y
  <2>1. \/ x = [name |-> 0, body |-> <<m, "module">>]
        \/ \E d \in S : x = [name |-> Number(d), body |-> <<d, "api">>]
    BY <1>4
  <2>2. \/ y = [name |-> 0, body |-> <<m, "module">>]
        \/ \E d \in S : y = [name |-> Number(d), body |-> <<d, "api">>]
    BY <1>4
  <2>3. QED
    BY <1>2, <1>6, <2>1, <2>2
<1>7. QED
  BY <1>5, <1>6 DEF Facts!Archive, Facts!IsArchive

\* The deduplication starts with the archives of the integrated modules.
LEMMA DedupStarts ==
    ASSUME BuildInv, step = "modules",
           Dedup!DedupStart([i \in DOMAIN integrated |-> Contents(integrated[i])])
    PROVE  Dedup!DedupInv'
<1> DEFINE archs == [i \in DOMAIN integrated |-> Contents(integrated[i])]
<1>1. /\ BuildTypeOK /\ InOrder /\ BuiltSoFar /\ step \in Emptied
  BY DEF BuildInv, Emptied, Loop
<1>2. ASSUME NEW i \in DOMAIN integrated PROVE Contents(integrated[i]) \in Facts!Archive
  <2>1. integrated[i] \in Elements(integrated)
    BY DEF Elements
  <2>2. PICK j \in 1 .. (place - 1) : integrated[i] = output[j] /\ mode[output[j]] = "y"
    BY <1>1, <2>1 DEF BuiltSoFar
  <2>3. set.uses[integrated[i]] \subseteq Elements(output)
    BY <1>1, <2>2 DEF BuiltSoFar, Enabled
  <2>4. j \in DOMAIN output
    <3>1. place <= Len(output) + 1 /\ place \in Nat
      BY <1>1 DEF BuiltSoFar, Loop, BuildTypeOK
    <3>2. QED
      BY <1>1, <3>1, OutputFacts
  <2>5. integrated[i] \in Elements(output)
    BY <2>2, <2>4 DEF Elements
  <2>6. QED
    BY <1>1, <2>3, <2>5, OutputFacts, ContentsIsArchive
<1>3. archs \in Seq(Facts!Archive)
  <2>1. integrated \in Seq(Module)
    BY <1>1 DEF BuildTypeOK
  <2>2. Len(integrated) \in Nat /\ DOMAIN integrated = 1 .. Len(integrated)
    BY <2>1
  <2>3. archs \in [1 .. Len(integrated) -> Facts!Archive]
    BY <1>2, <2>2
  <2>4. QED
    BY <2>2, <2>3
<1>4. Facts!DedupStart(archs)
  BY DEF Dedup!DedupStart, Facts!DedupStart
<1>5. Facts!DedupAssumption
  BY SetsAssumption DEF Facts!DedupAssumption
<1>6. Facts!DedupInv'
  <2> HIDE DEF archs
  <2>1. QED
    BY <1>3, <1>4, <1>5, Facts!DedupBegins
<1>7. QED
  BY <1>6, SameDedup

-----------------------------------------------------------------------------
(* The steps. *)

\* A run that stops leaves no list of its own, and files that fit one another.
LEMMA StopKeeps ==
    ASSUME BuildInv, step' = "stopped",
           UNCHANGED <<set, mode, orderVars, dedupVars, place, managed, integrated>>,
           dist' \in [Module -> Age], image' \in [Module -> Age], apis' \in [Module -> Age],
           manifest' \in List, list' \in List, OutputNotMixed', list'.age # "new"
    PROVE  BuildInv'
<1>1. BuildTypeOK'
  BY DEF BuildInv, BuildTypeOK
<1>2. Order!OrderInv' /\ Dedup!DedupInv'
  BY OrderKept, DedupKept DEF BuildInv, InOrder, Deduplicating
<1> USE DEF Ordering, Emptied, Loop, Ending
<1>3. InOrder' /\ Deduplicating'
  BY <1>2 DEF InOrder, Deduplicating
<1>4. BuiltSoFar' /\ AtPlace'
  BY DEF BuiltSoFar, AtPlace
<1>5. ListsLast'
  BY DEF ListsLast
<1>6. QED
  BY <1>1, <1>3, <1>4, <1>5 DEF BuildInv

\* The order and the modes are settled, and stay as they are.
LEMMA InOrderStays ==
    ASSUME BuildInv, UNCHANGED <<set, mode, orderVars>>,
           step \in Ordering \cup Emptied,
           step' \in {"validate", "clean"} \cup Emptied => verdict = "ordered",
           step' \in {"clean"} \cup Emptied => ModesAgree
    PROVE  InOrder'
<1>1. Order!OrderInv'
  BY OrderKept DEF BuildInv, InOrder
<1>2. Active' = Active /\ Needs' = Needs /\ (ModesAgree' <=> ModesAgree)
  BY DEF Active, Needs, ModesAgree, Enabled, orderVars
<1>3. QED
  BY <1>1, <1>2 DEF BuildInv, InOrder, orderVars

\* The archives are not touched.
LEMMA DedupStays ==
    ASSUME BuildInv, UNCHANGED <<set, integrated, dedupVars>>,
           step' \in Ending => step \in Ending,
           step' \in {"manifest", "list", "done"} => dedup = "ok"
    PROVE  Deduplicating'
<1>1. Dedup!DedupInv'
  BY DedupKept DEF BuildInv, Deduplicating
<1>2. \A m : Contents(m)' = Contents(m)
  BY DEF Contents, Number
<1>3. QED
  BY <1>1, <1>2 DEF BuildInv, Deduplicating, dedupVars

\* A run starts: what is there is that of an earlier one.
LEMMA StartKeeps ==
    ASSUME BuildInv, Start
    PROVE  BuildInv'
<1>1. /\ set' \in Sets /\ mode' \in [Module -> Mode] /\ step' = "parse"
      /\ place' = 1 /\ managed' = <<>> /\ integrated' = <<>>
      /\ dist' = [m \in Module |-> Aged(dist[m])] /\ image' = [m \in Module |-> Aged(image[m])]
      /\ apis' = [m \in Module |-> Aged(apis[m])]
      /\ manifest' = [manifest EXCEPT !.age = Aged(manifest.age)]
      /\ list' = [list EXCEPT !.age = Aged(list.age)]
      /\ UNCHANGED <<orderVars, dedupVars>>
  BY DEF Start
<1>2. BuildTypeOK /\ OutputNotMixed
  BY DEF BuildInv, ListsLast
<1>3. \A a \in Age : Aged(a) \in Age \ {"new"}
  BY DEF Age, Aged
<1>4. BuildTypeOK'
  <2>1. manifest' \in List /\ list' \in List
    BY <1>1, <1>2, <1>3 DEF BuildTypeOK, List
  <2>2. dist' \in [Module -> Age] /\ image' \in [Module -> Age] /\ apis' \in [Module -> Age]
    BY <1>1, <1>2, <1>3 DEF BuildTypeOK
  <2>3. place' \in Nat \ {0} /\ managed' \in Seq(Module) /\ integrated' \in Seq(Module)
    BY <1>1
  <2>4. QED
    BY <1>1, <2>1, <2>2, <2>3 DEF BuildTypeOK
<1>5. Order!OrderInv' /\ Dedup!DedupInv'
  BY <1>1, OrderKept, DedupKept DEF BuildInv, InOrder, Deduplicating
<1>6. OutputNotMixed'
  <2>1. ASSUME NEW l \in List, \A m \in Elements(l.lists) : image[m] \in {l.age, "none"},
               NEW m \in Elements(l.lists)
        PROVE  image'[m] \in {Aged(l.age), "none"}
    <3>1. m \in Module
      BY DEF List, Elements
    <3>2. QED
      BY <1>1, <2>1, <3>1 DEF Aged
  <2>2. manifest \in List /\ list \in List
    BY <1>2 DEF BuildTypeOK
  <2>3. /\ manifest'.lists = manifest.lists /\ manifest'.age = Aged(manifest.age)
        /\ list'.lists = list.lists /\ list'.age = Aged(list.age)
    BY <1>1, <2>2 DEF List
  <2>4. QED
    BY <1>2, <2>1, <2>2, <2>3 DEF OutputNotMixed
<1>7. list'.age # "new"
  BY <1>1, <1>2, <1>3 DEF BuildTypeOK, List
<1> USE DEF Ordering, Emptied, Loop, Ending
<1>8. InOrder' /\ Deduplicating'
  BY <1>1, <1>5 DEF InOrder, Deduplicating
<1>9. BuiltSoFar' /\ AtPlace' /\ ListsLast'
  BY <1>1, <1>6, <1>7 DEF BuiltSoFar, AtPlace, ListsLast
<1>10. QED
  BY <1>4, <1>8, <1>9 DEF BuildInv

\* Up to the first module: the order is found, checked, and the directory emptied.
LEMMA OrderingKeeps ==
    ASSUME BuildInv, SelectActive \/ Sort \/ Sorted \/ Validate \/ Clean \/ SelectInterface
    PROVE  BuildInv'
<1> USE DEF Ordering, Emptied, Loop, Ending
<1>0. /\ BuildTypeOK /\ InOrder /\ BuiltSoFar /\ AtPlace /\ ListsLast /\ Deduplicating
      /\ OutputNotMixed
  BY DEF BuildInv, ListsLast
<1>1. CASE SelectActive
  <2>1. /\ step = "parse"
        /\ UNCHANGED <<set, mode, dedupVars, place, managed, integrated, files, runs>>
    BY <1>1 DEF SelectActive
  <2>2. CASE step' = "stopped" /\ UNCHANGED orderVars
    <3>1. list.age # "new"
      BY <1>0, <2>1 DEF ListsLast
    <3>2. QED
      BY <1>0, <2>1, <2>2, <3>1, StopKeeps DEF files, BuildTypeOK, OutputNotMixed
  <2>3. CASE /\ \A m \in Elements(Active) : set.depends[m] \subseteq Elements(Active)
             /\ Order!OrderStart(Active, Needs) /\ step' = "order"
    <3>1. Order!OrderInv'
      BY <1>0, <2>3, OrderStarts DEF BuildTypeOK
    <3>2. requires' = Needs /\ Active' = Active /\ Needs' = Needs
      <4>1. requires' = Needs
        BY <2>3 DEF Order!OrderStart
      <4>2. Active' = Active /\ Needs' = Needs
        BY <2>1 DEF Active, Needs
      <4>3. QED
        BY <4>1, <4>2
    <3>3. InOrder'
      BY <2>1, <2>3, <3>1, <3>2 DEF InOrder
    <3>4. Deduplicating'
      BY <2>1, <2>3, DedupStays
    <3>5. BuildTypeOK' /\ BuiltSoFar' /\ AtPlace' /\ ListsLast'
      BY <1>0, <2>1, <2>3 DEF BuildTypeOK, BuiltSoFar, AtPlace, ListsLast, OutputNotMixed, files
    <3>6. QED
      BY <3>3, <3>4, <3>5 DEF BuildInv
  <2>4. QED
    BY <1>1, <2>2, <2>3 DEF SelectActive, Stop
<1>2. CASE Sort
  <2>1. /\ step = "order" /\ step' = step /\ Order!OrderNext
        /\ UNCHANGED <<set, mode, dedupVars, place, managed, integrated, files, runs>>
    BY <1>2 DEF Sort
  <2>2. Order!OrderInv'
    BY <1>0, <2>1, OrderKept DEF InOrder
  <2>3. requires' = requires
    BY <2>1 DEF Order!OrderNext, Order!Emit, Order!Skip, Order!SweepAgain, Order!FindCycle,
                Order!Finish
  <2>4. Active' = Active /\ Needs' = Needs
    BY <2>1 DEF Active, Needs
  <2>5. InOrder'
    BY <1>0, <2>1, <2>2, <2>3, <2>4 DEF InOrder
  <2>6. Deduplicating'
    BY <2>1, DedupStays
  <2>7. BuildTypeOK' /\ BuiltSoFar' /\ AtPlace' /\ ListsLast'
    BY <1>0, <2>1 DEF BuildTypeOK, BuiltSoFar, AtPlace, ListsLast, OutputNotMixed, files
  <2>8. QED
    BY <2>5, <2>6, <2>7 DEF BuildInv
<1>3. CASE Sorted \/ Validate
  <2>1. /\ UNCHANGED <<set, mode, orderVars, dedupVars, place, managed, integrated, files, runs>>
        /\ step \in {"order", "validate"}
    BY <1>3 DEF Sorted, Validate
  <2>2. CASE step' = "stopped"
    <3>1. list.age # "new"
      BY <1>0, <2>1 DEF ListsLast
    <3>2. QED
      BY <1>0, <2>1, <2>2, <3>1, StopKeeps DEF files, BuildTypeOK, OutputNotMixed
  <2>3. CASE /\ step' \in {"validate", "clean"} /\ verdict = "ordered"
             /\ step' = "clean" => ModesAgree
    <3>1. InOrder' /\ Deduplicating'
      BY <2>1, <2>3, InOrderStays, DedupStays
    <3>2. BuildTypeOK' /\ BuiltSoFar' /\ AtPlace' /\ ListsLast'
      BY <1>0, <2>1, <2>3 DEF BuildTypeOK, BuiltSoFar, AtPlace, ListsLast, OutputNotMixed, files
    <3>3. QED
      BY <3>1, <3>2 DEF BuildInv
  <2>4. QED
    BY <1>0, <1>3, <2>2, <2>3 DEF Sorted, Validate, InOrder
<1>4. CASE Clean
  <2>1. /\ step = "clean" /\ step' = "interface" /\ manifest' = NoList /\ list' = NoList
        /\ image' = [m \in Module |-> "none"] /\ apis' = [m \in Module |-> "none"]
        /\ UNCHANGED <<set, mode, orderVars, dedupVars, place, managed, integrated, dist, runs>>
    BY <1>4 DEF Clean
  <2>2. InOrder' /\ Deduplicating'
    BY <1>0, <2>1, InOrderStays, DedupStays DEF InOrder
  <2>3. NoList \in List /\ NoList.age = "none" /\ Elements(NoList.lists) = {}
    BY DEF NoList, List, Age, Elements
  <2>4. BuildTypeOK'
    BY <1>0, <2>1, <2>3 DEF BuildTypeOK, Age
  <2>5. place' = 1 /\ managed' = <<>> /\ integrated' = <<>>
    BY <1>0, <2>1 DEF BuiltSoFar
  <2>6. 1 .. (place' - 1) = {} /\ Elements(<<>>) = {}
    BY <2>5 DEF Elements
  <2>7. BuiltSoFar'
    BY <2>1, <2>5, <2>6 DEF BuiltSoFar
  <2>8. ListsLast' /\ AtPlace'
    BY <2>1, <2>3 DEF ListsLast, OutputNotMixed, AtPlace
  <2>9. QED
    BY <2>2, <2>4, <2>7, <2>8 DEF BuildInv
<1>5. CASE SelectInterface
  <2>1. /\ step = "interface" /\ step' = "modules"
        /\ UNCHANGED <<set, mode, orderVars, dedupVars, place, managed, integrated, files, runs>>
    BY <1>5 DEF SelectInterface
  <2>2. InOrder' /\ Deduplicating'
    BY <1>0, <2>1, InOrderStays, DedupStays DEF InOrder
  <2>3. BuildTypeOK' /\ AtPlace' /\ ListsLast'
    BY <1>0, <2>1 DEF BuildTypeOK, AtPlace, ListsLast, OutputNotMixed, files
  <2>4. place <= Len(output) + 1
    BY <1>0, <2>1, OutputFacts DEF BuiltSoFar
  <2>5. BuiltSoFar'
    BY <1>0, <2>1, <2>4 DEF BuiltSoFar, Enabled, orderVars, files
  <2>6. QED
    BY <2>2, <2>3, <2>5 DEF BuildInv
<1>6. QED
  BY <1>1, <1>2, <1>3, <1>4, <1>5

\* The loop over the modules.
LEMMA BuildingKeeps ==
    ASSUME BuildInv,
           Skip \/ StartChild \/ ChildSucceeds \/ Publish \/ Install
    PROVE  BuildInv'
<1> USE DEF Ordering, Emptied, Loop, Ending
<1>0. /\ BuildTypeOK /\ InOrder /\ BuiltSoFar /\ AtPlace /\ ListsLast /\ Deduplicating
      /\ OutputNotMixed
  BY DEF BuildInv, ListsLast
<1>1. /\ step \in Loop /\ step' \in Loop
      /\ UNCHANGED <<set, mode, orderVars, dedupVars, manifest, list, runs>>
  BY DEF Skip, StartChild, ChildSucceeds, Publish, Install, files
<1>2. /\ output \in Seq(Module) /\ Len(output) \in Nat /\ DOMAIN output = 1 .. Len(output)
      /\ output' = output
  BY <1>0, <1>1, OutputFacts DEF orderVars
<1>3. InOrder'
  BY <1>0, <1>1, InOrderStays DEF InOrder
<1>4. Deduplicating'
  <2>1. Dedup!DedupInv'
    BY <1>0, <1>1, DedupKept DEF Deduplicating
  <2>2. QED
    BY <1>1, <2>1 DEF Deduplicating
<1>5. ASSUME BuildTypeOK', manifest = NoList, list = NoList PROVE ListsLast'
  <2>1. Elements(NoList.lists) = {} /\ NoList.age # "new"
    BY DEF NoList, Elements
  <2>2. QED
    BY <1>1, <1>5, <2>1 DEF ListsLast, OutputNotMixed
<1>6. manifest = NoList /\ list = NoList
  BY <1>0, <1>1 DEF ListsLast
<1>7. place \in Nat \ {0}
  BY <1>0 DEF BuildTypeOK
<1>8. CASE Skip
  <2>1. /\ step = "modules" /\ step' = step /\ place <= Len(output) /\ ~Enabled(Here)
        /\ place' = place + 1 /\ UNCHANGED <<managed, integrated, dist, image, apis>>
    BY <1>8 DEF Skip, files
  <2>2. mode[Here] = "n" /\ 1 .. (place' - 1) = (1 .. (place - 1)) \cup {place}
    BY <1>7, <2>1 DEF Enabled
  <2>3. BuildTypeOK' /\ AtPlace'
    BY <1>0, <1>1, <1>7, <2>1 DEF BuildTypeOK, AtPlace
  <2>4. BuiltSoFar'
    <3>1. place' <= Len(output') + 1
      BY <1>2, <1>7, <2>1
    <3>2. /\ {j \in 1 .. (place' - 1) : mode[output[j]] = "m"} = {j \in 1 .. (place - 1) : mode[output[j]] = "m"}
          /\ {j \in 1 .. (place' - 1) : mode[output[j]] = "y"} = {j \in 1 .. (place - 1) : mode[output[j]] = "y"}
      BY <2>2 DEF Here
    <3>3. \A j \in 1 .. (place' - 1) : Enabled(output[j]) => j \in 1 .. (place - 1)
      BY <2>1, <2>2 DEF Here
    <3>4. QED
      BY <1>0, <1>1, <1>2, <2>1, <3>1, <3>2, <3>3 DEF BuiltSoFar, Enabled
  <2>5. QED
    BY <1>3, <1>4, <1>5, <1>6, <2>3, <2>4 DEF BuildInv
<1>9. CASE StartChild
  <2>1. /\ step = "modules" /\ step' = "child" /\ place <= Len(output) /\ Enabled(Here)
        /\ dist' = [dist EXCEPT ![Here] = "none"]
        /\ UNCHANGED <<place, managed, integrated, image, apis>>
    BY <1>9 DEF StartChild
  <2>2. Here \in Module /\ Here' = Here
    BY <1>2, <1>7, <2>1 DEF Here
  <2>3. BuildTypeOK'
    BY <1>0, <1>1, <2>1, <2>2 DEF BuildTypeOK, Age
  <2>4. AtPlace'
    BY <1>0, <1>1, <1>2, <2>1, <2>2 DEF BuildTypeOK, AtPlace, Enabled
  <2>5. BuiltSoFar'
    BY <1>0, <1>1, <1>2, <2>1 DEF BuiltSoFar, Enabled
  <2>6. QED
    BY <1>3, <1>4, <1>5, <1>6, <2>3, <2>4, <2>5 DEF BuildInv
<1>10. CASE ChildSucceeds
  <2>1. /\ step = "child" /\ step' = "publish" /\ \A d \in set.uses[Here] : apis[d] # "none"
        /\ dist' = [dist EXCEPT ![Here] = "new"] \/ dist' = dist
        /\ UNCHANGED <<place, managed, integrated, image, apis>>
    BY <1>10 DEF ChildSucceeds
  <2>2. place <= Len(output) /\ Enabled(Here) /\ dist[Here] \in {"none", "new"}
    BY <1>0, <2>1 DEF AtPlace
  <2>3. Here \in Module /\ Here' = Here
    BY <1>2, <1>7, <2>1, <2>2 DEF Here
  <2>4. set.uses[Here] \subseteq Elements(output)
    <3>1. set.uses[Here] \subseteq Module
      BY <1>0, <2>3, SetsAssumption DEF BuildTypeOK, SetType
    <3>2. QED
      BY <1>0, <2>1, <3>1 DEF BuiltSoFar
  <2>5. BuildTypeOK'
    BY <1>0, <1>1, <2>1, <2>3 DEF BuildTypeOK, Age
  <2>6. dist'[Here] \in {"none", "new"}
    BY <1>0, <2>1, <2>2, <2>3 DEF BuildTypeOK
  <2>7. AtPlace'
    BY <1>1, <1>2, <2>1, <2>2, <2>3, <2>4, <2>6 DEF AtPlace, Enabled
  <2>8. BuiltSoFar'
    BY <1>0, <1>1, <1>2, <2>1 DEF BuiltSoFar, Enabled
  <2>9. QED
    BY <1>3, <1>4, <1>5, <1>6, <2>5, <2>7, <2>8 DEF BuildInv
<1>11. CASE Publish
  <2>1. /\ step = "publish" /\ step' = "install"
        /\ apis' = IF Here \in set.api THEN [apis EXCEPT ![Here] = "new"] ELSE apis
        /\ UNCHANGED <<place, managed, integrated, dist, image>>
    BY <1>11 DEF Publish
  <2>2. /\ place <= Len(output) /\ Enabled(Here) /\ dist[Here] \in {"none", "new"}
        /\ set.uses[Here] \subseteq Elements(output)
    BY <1>0, <2>1 DEF AtPlace
  <2>3. Here \in Module /\ Here' = Here /\ Here \in Elements(output)
    BY <1>2, <1>7, <2>1, <2>2 DEF Here, Elements
  <2>4. /\ \A m \in Module : m # Here => apis'[m] = apis[m]
        /\ \A m \in Module : apis[m] = "new" => apis'[m] = "new"
        /\ Here \in set.api => apis'[Here] = "new"
    BY <1>0, <2>1, <2>3 DEF BuildTypeOK
  <2>5. BuildTypeOK'
    BY <1>0, <1>1, <2>1, <2>3 DEF BuildTypeOK, Age
  <2>6. AtPlace'
    BY <1>1, <1>2, <2>1, <2>2, <2>3, <2>4 DEF AtPlace, Enabled
  <2>7. \A j \in 1 .. (place - 1) : output[j] \in Module
    BY <1>2, <1>7, <2>2
  <2>8. \A d \in Module : apis'[d] # "none" => d \in Elements(output)
    BY <1>0, <2>1, <2>3, <2>4 DEF BuiltSoFar
  <2>9. BuiltSoFar'
    BY <1>0, <1>1, <1>2, <2>1, <2>4, <2>7, <2>8 DEF BuiltSoFar, Enabled
  <2>10. QED
    BY <1>3, <1>4, <1>5, <1>6, <2>5, <2>6, <2>9 DEF BuildInv
<1>12. CASE Install
  <2>1. /\ step = "install" /\ step' = "modules" /\ dist[Here] # "none"
        /\ image' = [image EXCEPT ![Here] = dist[Here]] /\ place' = place + 1
        /\ managed' = IF mode[Here] = "m" THEN Append(managed, Here) ELSE managed
        /\ integrated' = IF mode[Here] = "y" THEN Append(integrated, Here) ELSE integrated
        /\ UNCHANGED <<dist, apis>>
    BY <1>12 DEF Install
  <2>2. /\ place <= Len(output) /\ Enabled(Here) /\ dist[Here] = "new"
        /\ set.uses[Here] \subseteq Elements(output)
        /\ Here \in set.api => apis[Here] = "new"
    BY <1>0, <2>1 DEF AtPlace
  <2>3. Here \in Module /\ 1 .. (place' - 1) = (1 .. (place - 1)) \cup {place}
    BY <1>2, <1>7, <2>1, <2>2 DEF Here
  <2>4. managed \in Seq(Module) /\ integrated \in Seq(Module)
    BY <1>0 DEF BuildTypeOK
  <2>5. BuildTypeOK' /\ AtPlace'
    BY <1>0, <1>1, <1>7, <2>1, <2>2, <2>3, <2>4 DEF BuildTypeOK, AtPlace, Age
  <2>6. ASSUME NEW s \in Seq(Module), NEW x PROVE Elements(Append(s, x)) = Elements(s) \cup {x}
    <3>1. /\ Len(s) \in Nat /\ DOMAIN s = 1 .. Len(s) /\ DOMAIN Append(s, x) = 1 .. (Len(s) + 1)
          /\ \A i \in 1 .. Len(s) : Append(s, x)[i] = s[i]
          /\ Append(s, x)[Len(s) + 1] = x
      OBVIOUS
    <3>2. 1 .. (Len(s) + 1) = (1 .. Len(s)) \cup {Len(s) + 1}
      BY <3>1
    <3>3. QED
      BY <3>1, <3>2 DEF Elements
  <2>7. ASSUME NEW x, NEW s \in Seq(Module),
               Elements(s) = {output[j] : j \in {j \in 1 .. (place - 1) : mode[output[j]] = x}}
        PROVE  Elements(IF mode[Here] = x THEN Append(s, Here) ELSE s)
                  = {output[j] : j \in {j \in 1 .. (place' - 1) : mode[output[j]] = x}}
    <3>1. CASE mode[Here] = x
      <4>1. {j \in 1 .. (place' - 1) : mode[output[j]] = x}
                = {j \in 1 .. (place - 1) : mode[output[j]] = x} \cup {place}
        BY <2>3, <3>1 DEF Here
      <4>2. Elements(Append(s, Here)) = Elements(s) \cup {Here}
        BY <2>6
      <4>3. QED
        BY <2>7, <3>1, <4>1, <4>2 DEF Here
    <3>2. CASE mode[Here] # x
      <4>1. {j \in 1 .. (place' - 1) : mode[output[j]] = x}
                = {j \in 1 .. (place - 1) : mode[output[j]] = x}
        BY <2>3, <3>2 DEF Here
      <4>2. QED
        BY <2>7, <3>2, <4>1
    <3>3. QED
      BY <3>1, <3>2
  <2>8. /\ Elements(managed') = {output[j] : j \in {j \in 1 .. (place' - 1) : mode[output[j]] = "m"}}
        /\ Elements(integrated') = {output[j] : j \in {j \in 1 .. (place' - 1) : mode[output[j]] = "y"}}
    <3>1. /\ Elements(managed) = {output[j] : j \in {j \in 1 .. (place - 1) : mode[output[j]] = "m"}}
          /\ Elements(integrated) = {output[j] : j \in {j \in 1 .. (place - 1) : mode[output[j]] = "y"}}
      BY <1>0, <1>1 DEF BuiltSoFar
    <3>2. Elements(managed') = {output[j] : j \in {j \in 1 .. (place' - 1) : mode[output[j]] = "m"}}
      BY <2>1, <2>4, <2>7, <3>1
    <3>3. Elements(integrated') = {output[j] : j \in {j \in 1 .. (place' - 1) : mode[output[j]] = "y"}}
      BY <2>1, <2>4, <2>7, <3>1
    <3>4. QED
      BY <3>2, <3>3
  <2>9. image'[Here] = "new" /\ \A m \in Module : image[m] = "new" => image'[m] = "new"
    BY <1>0, <2>1, <2>2, <2>3 DEF BuildTypeOK
  <2>10. \A j \in 1 .. (place - 1) : output[j] \in Module
    BY <1>2, <1>7, <2>2
  <2>11. ASSUME NEW j \in 1 .. (place' - 1), Enabled(output[j])
         PROVE  /\ image'[output[j]] = "new"
                /\ output[j] \in set.api => apis[output[j]] = "new"
                /\ set.uses[output[j]] \subseteq Elements(output)
    <3>1. CASE j = place
      BY <2>2, <2>9, <3>1 DEF Here
    <3>2. CASE j \in 1 .. (place - 1)
      BY <1>0, <1>1, <2>9, <2>10, <2>11, <3>2 DEF BuiltSoFar
    <3>3. QED
      BY <2>3, <3>1, <3>2
  <2>12. place' <= Len(output) + 1
    BY <1>2, <1>7, <2>1, <2>2
  <2>13. \A d \in Module : apis[d] # "none" => d \in Elements(output)
    BY <1>0, <1>1 DEF BuiltSoFar
  <2>14. BuiltSoFar'
    BY <1>1, <1>2, <2>1, <2>8, <2>11, <2>12, <2>13 DEF BuiltSoFar, Enabled
  <2>15. QED
    BY <1>3, <1>4, <1>5, <1>6, <2>5, <2>14 DEF BuildInv
<1>13. QED
  BY <1>8, <1>9, <1>10, <1>11, <1>12

\* The end of a run: the archives, then the manifest, then the list of the archives.
LEMMA EndingKeeps ==
    ASSUME BuildInv, StartDedup \/ Deduplicate \/ Deduplicated \/ WriteManifest \/ WriteList
    PROVE  BuildInv'
<1> USE DEF Ordering, Emptied, Loop, Ending
<1>0. /\ BuildTypeOK /\ InOrder /\ BuiltSoFar /\ AtPlace /\ ListsLast /\ Deduplicating
      /\ OutputNotMixed
  BY DEF BuildInv, ListsLast
<1>1. CASE step' \in {"dedup", "manifest"}
  <2>1. /\ step \in {"modules", "dedup"}
        /\ UNCHANGED <<set, mode, orderVars, place, managed, integrated, files, runs>>
    BY <1>1 DEF StartDedup, Deduplicate, Deduplicated, WriteManifest, WriteList
  <2>2. InOrder'
    BY <1>0, <1>1, <2>1, InOrderStays DEF InOrder
  <2>3. BuildTypeOK' /\ AtPlace' /\ ListsLast'
    BY <1>0, <1>1, <2>1 DEF BuildTypeOK, AtPlace, ListsLast, OutputNotMixed, files
  <2>4. place = Len(output) + 1
    <3>1. step = "modules" => place > Len(output)
      BY <1>1 DEF StartDedup, Deduplicate, Deduplicated, WriteManifest, WriteList
    <3>2. QED
      BY <1>0, <2>1, <3>1, OutputFacts DEF BuiltSoFar, BuildTypeOK
  <2>5. BuiltSoFar'
    BY <1>0, <1>1, <2>1, <2>4 DEF BuiltSoFar, Enabled, orderVars, files
  <2>6. Deduplicating'
    <3>1. CASE StartDedup
      <4>1. /\ step = "modules" /\ step' = "dedup"
            /\ Dedup!DedupStart([i \in DOMAIN integrated |-> Contents(integrated[i])])
        BY <3>1 DEF StartDedup
      <4>2. Dedup!DedupInv'
        BY <4>1, DedupStarts
      <4>3. built' = [i \in DOMAIN integrated |-> Contents(integrated[i])]
        BY <4>1 DEF Dedup!DedupStart
      <4>4. integrated' = integrated /\ \A m : Contents(m)' = Contents(m)
        BY <2>1 DEF Contents, Number
      <4>5. QED
        BY <4>1, <4>2, <4>3, <4>4 DEF Deduplicating
    <3>2. CASE Deduplicate
      <4>1. step = "dedup" /\ step' = "dedup" /\ Dedup!DedupNext
        BY <2>1, <3>2 DEF Deduplicate
      <4>2. Dedup!DedupInv'
        BY <1>0, <4>1, DedupKept DEF Deduplicating
      <4>3. built' = built
        BY <4>1 DEF Dedup!DedupNext, Dedup!DedupSteps, Dedup!NothingToDo, Dedup!MakeTemporary,
                    Dedup!Scan, Dedup!Rebuild, Dedup!Refuse, Dedup!Install, Dedup!StepFails,
                    Dedup!ScanEnds, Dedup!Cleanup, Dedup!DedupKilled
      <4>4. integrated' = integrated /\ \A m : Contents(m)' = Contents(m)
        BY <2>1 DEF Contents, Number
      <4>5. QED
        BY <1>0, <4>1, <4>2, <4>3, <4>4 DEF Deduplicating
    <3>3. CASE Deduplicated
      <4>1. step = "dedup" /\ step' = "manifest" /\ dedup = "ok" /\ UNCHANGED dedupVars
        BY <1>1, <3>3 DEF Deduplicated
      <4>2. QED
        BY <2>1, <4>1, DedupStays
    <3>4. QED
      BY <1>1, <3>1, <3>2, <3>3 DEF WriteManifest, WriteList
  <2>7. QED
    BY <2>2, <2>3, <2>5, <2>6 DEF BuildInv
<1>2. CASE Deduplicated /\ step' = "stopped"
  <2>1. UNCHANGED <<set, mode, orderVars, dedupVars, place, managed, integrated, files, runs>> /\ step = "dedup"
    BY <1>2 DEF Deduplicated
  <2>2. list.age # "new"
    BY <1>0, <2>1 DEF ListsLast
  <2>3. QED
    BY <1>0, <1>2, <2>1, <2>2, StopKeeps DEF files, BuildTypeOK, OutputNotMixed
<1>3. CASE WriteManifest \/ WriteList
  <2>1. /\ UNCHANGED <<set, mode, orderVars, dedupVars, place, managed, integrated, dist, image, apis, runs>>
        /\ \/ step = "manifest" /\ step' = "list" /\ list' = list
              /\ manifest' = [age |-> "new", lists |-> managed]
           \/ step = "list" /\ step' = "done" /\ manifest' = manifest
              /\ list' = [age |-> "new", lists |-> integrated]
    BY <1>3 DEF WriteManifest, WriteList
  <2>2. InOrder' /\ Deduplicating'
    BY <1>0, <2>1, InOrderStays, DedupStays DEF InOrder, Deduplicating
  <2>3. BuildTypeOK' /\ AtPlace' /\ BuiltSoFar'
    BY <1>0, <2>1 DEF BuildTypeOK, AtPlace, BuiltSoFar, List, Age, Enabled, orderVars
  <2>4. \A m \in Elements(managed) \cup Elements(integrated) : image[m] = "new"
    BY <1>0, <2>1 DEF BuiltSoFar, Enabled
  <2>5. OutputNotMixed' /\ (list'.age = "new" => step' = "done")
    <3>1. list = NoList /\ NoList.age # "new" /\ Elements(NoList.lists) = {}
      BY <1>0, <2>1 DEF ListsLast, NoList, Elements
    <3>2. step = "list" => manifest = [age |-> "new", lists |-> managed]
      BY <1>0 DEF ListsLast
    <3>3. QED
      BY <2>1, <2>4, <3>1, <3>2 DEF OutputNotMixed
  <2>6. ListsLast'
    BY <1>0, <2>1, <2>5 DEF ListsLast
  <2>7. QED
    BY <2>2, <2>3, <2>6 DEF BuildInv
<1>4. QED
  <2>1. StartDedup => step' = "dedup"
    BY DEF StartDedup
  <2>2. Deduplicate => step' = "dedup"
    BY DEF Deduplicate
  <2>3. Deduplicated => step' \in {"manifest", "stopped"}
    BY DEF Deduplicated
  <2>4. QED
    BY <1>1, <1>2, <1>3, <2>1, <2>2, <2>3

\* An error or a kill, anywhere.
LEMMA StoppingKeeps ==
    ASSUME BuildInv, RefuseName \/ ChildMissesApi \/ NoArtifact \/ StopInClean \/ StopElsewhere
    PROVE  BuildInv'
<1>0. /\ BuildTypeOK /\ ListsLast /\ OutputNotMixed
  BY DEF BuildInv, ListsLast
<1>1. /\ step' = "stopped" /\ step # "done"
      /\ UNCHANGED <<set, mode, orderVars, dedupVars, place, managed, integrated>>
  BY DEF RefuseName, ChildMissesApi, NoArtifact, StopInClean, StopElsewhere, Stop
<1>2. list.age # "new"
  BY <1>0, <1>1 DEF ListsLast
<1>3. /\ NoList \in List /\ TornList \in List /\ NoList.age # "new" /\ TornList.age # "new"
      /\ Elements(NoList.lists) = {} /\ Elements(TornList.lists) = {}
  BY DEF NoList, TornList, List, Age, Elements
<1>4. CASE RefuseName \/ ChildMissesApi \/ NoArtifact
  <2>1. UNCHANGED <<dist, image, apis, manifest, list>>
    BY <1>4 DEF RefuseName, ChildMissesApi, NoArtifact, files
  <2>2. QED
    BY <1>0, <1>1, <1>2, <2>1, StopKeeps DEF BuildTypeOK, OutputNotMixed
<1>5. CASE StopInClean
  <2>1. PICK gone \in SUBSET Module, gone2 \in SUBSET Module :
            /\ image' = [m \in Module |-> IF m \in gone THEN "none" ELSE image[m]]
            /\ apis' = [m \in Module |-> IF m \in gone2 THEN "none" ELSE apis[m]]
    BY <1>5 DEF StopInClean
  <2>2. manifest' \in {manifest, NoList} /\ list' \in {list, NoList} /\ dist' = dist
    BY <1>5 DEF StopInClean
  <2>3. /\ dist' \in [Module -> Age] /\ image' \in [Module -> Age] /\ apis' \in [Module -> Age]
        /\ manifest' \in List /\ list' \in List
    BY <1>0, <1>3, <2>1, <2>2 DEF BuildTypeOK, Age
  <2>4. OutputNotMixed'
    <3>1. ASSUME NEW l \in List, \A m \in Elements(l.lists) : image[m] \in {l.age, "none"},
                 NEW m \in Elements(l.lists)
          PROVE  image'[m] \in {l.age, "none"}
      <4>1. m \in Module
        BY DEF List, Elements
      <4>2. QED
        BY <2>1, <3>1, <4>1
    <3>2. manifest \in List /\ list \in List
      BY <1>0 DEF BuildTypeOK
    <3>3. QED
      BY <1>0, <1>3, <2>2, <3>1, <3>2 DEF OutputNotMixed
  <2>5. QED
    BY <1>1, <1>2, <1>3, <2>2, <2>3, <2>4, StopKeeps
<1>6. CASE StopElsewhere
  <2>1. CASE UNCHANGED <<image, manifest, list>>
    <3>1. OutputNotMixed'
      BY <1>0, <2>1 DEF OutputNotMixed
    <3>2. dist' \in [Module -> Age] /\ apis' \in [Module -> Age]
      BY <1>0, <1>6 DEF StopElsewhere, BuildTypeOK, Age
    <3>3. QED
      BY <1>0, <1>1, <1>2, <2>1, <3>1, <3>2, StopKeeps DEF BuildTypeOK
  <2>2. CASE step = "install" /\ image' = [image EXCEPT ![Here] = "torn"] /\ UNCHANGED <<dist, apis, manifest, list>>
    <3>1. manifest = NoList /\ list = NoList
      BY <1>0, <2>2 DEF ListsLast, Emptied, Loop
    <3>2. OutputNotMixed'
      BY <1>3, <2>2, <3>1 DEF OutputNotMixed
    <3>3. image' \in [Module -> Age]
      BY <1>0, <2>2 DEF BuildTypeOK, Age
    <3>4. QED
      BY <1>0, <1>1, <1>2, <2>2, <3>2, <3>3, StopKeeps DEF BuildTypeOK
  <2>3. CASE manifest' = TornList /\ UNCHANGED <<dist, image, apis, list>>
    <3>1. OutputNotMixed'
      BY <1>0, <1>3, <2>3 DEF OutputNotMixed
    <3>2. QED
      BY <1>0, <1>1, <1>2, <1>3, <2>3, <3>1, StopKeeps DEF BuildTypeOK
  <2>4. CASE list' = TornList /\ UNCHANGED <<dist, image, apis, manifest>>
    <3>1. OutputNotMixed'
      BY <1>0, <1>3, <2>4 DEF OutputNotMixed
    <3>2. QED
      BY <1>0, <1>1, <1>3, <2>4, <3>1, StopKeeps DEF BuildTypeOK
  <2>5. QED
    BY <1>6, <2>1, <2>2, <2>3, <2>4 DEF StopElsewhere
<1>7. QED
  BY <1>4, <1>5, <1>6

-----------------------------------------------------------------------------
(* The theorems. *)

\* Before the first run nothing is there.
LEMMA InitHolds == Init => BuildInv
<1> SUFFICES ASSUME Init PROVE BuildInv
  OBVIOUS
<1> USE DEF Ordering, Emptied, Loop, Ending
<1>1. /\ set \in Sets /\ mode = [m \in Module |-> "n"] /\ step = "idle" /\ place = 1
      /\ managed = <<>> /\ integrated = <<>>
      /\ dist = [m \in Module |-> "none"] /\ image = [m \in Module |-> "none"]
      /\ apis = [m \in Module |-> "none"] /\ manifest = NoList /\ list = NoList
  BY DEF Init
<1>2. NoList \in List /\ NoList.age = "none" /\ Elements(NoList.lists) = {}
  BY DEF NoList, List, Age, Elements
<1>3. BuildTypeOK
  BY <1>1, <1>2 DEF BuildTypeOK, Mode, Age
<1>4. Order!OrderInv
  <2>1. /\ requires = <<>> /\ kept = <<>> /\ rest = <<>> /\ progress = FALSE /\ output = <<>>
        /\ verdict = Order!FirstVerdict(<<>>, <<>>)
    BY DEF Init, Order!OrderInit
  <2>2. verdict \in {"running", "unknown"}
    BY <2>1 DEF Order!FirstVerdict
  <2>3. DOMAIN requires = {} /\ Order!Elements(<<>>) = {} /\ requires \in [{} -> SUBSET Module]
    BY <2>1 DEF Order!Elements
  <2>4. Order!TypeOK
    <3>1. Order!Members = {}
      BY <2>3 DEF Order!Members
    <3>2. requires \in [Order!Members -> SUBSET Module]
      BY <2>3, <3>1
    <3>3. <<>> \in Seq(Order!Members)
      OBVIOUS
    <3>4. QED
      BY <2>1, <2>2, <3>1, <3>2, <3>3 DEF Order!TypeOK
  <2>5. Order!Partition /\ Order!DependenciesFirst
    BY <2>1, <2>3 DEF Order!Partition, Order!Distinct, Order!Pending, Order!Members,
                      Order!DependenciesFirst
  <2>6. Order!KeptWait /\ Order!Known /\ Order!VerdictInv
    BY <2>1, <2>2, <2>3 DEF Order!KeptWait, Order!Known, Order!Members, Order!VerdictInv
  <2>7. QED
    BY <2>4, <2>5, <2>6 DEF Order!OrderInv
<1>5. Dedup!DedupInv
  <2>1. /\ archives = <<>> /\ built = <<>> /\ seen = {} /\ index = 1 /\ rebuilt = {}
        /\ dedup = "begin"
    BY DEF Init, Dedup!DedupInit
  <2>2. Len(built) = 0 /\ DOMAIN built = {} /\ 1 .. (index - 1) = {} /\ index .. Len(built) = {}
    BY <2>1
  <2>3. Dedup!DedupTypeOK
    BY <2>1, <2>2 DEF Dedup!DedupTypeOK
  <2>4. Dedup!Before(index) = {}
    BY <2>2 DEF Dedup!Before
  <2>5. Dedup!Walked /\ Dedup!BuiltOK /\ Dedup!DedupProgress
    BY <2>1, <2>2, <2>4 DEF Dedup!Walked, Dedup!BuiltOK, Dedup!DedupProgress
  <2>6. QED
    BY <2>3, <2>5 DEF Dedup!DedupInv
<1>6. InOrder /\ BuiltSoFar /\ AtPlace /\ Deduplicating
  BY <1>1, <1>4, <1>5 DEF InOrder, BuiltSoFar, AtPlace, Deduplicating
<1>7. ListsLast
  BY <1>1, <1>2 DEF ListsLast, OutputNotMixed
<1>8. QED
  BY <1>3, <1>6, <1>7 DEF BuildInv

\* build_set keeps the invariant in every step of every run, failed runs included.
THEOREM BuildInductive == Spec => []BuildInv
<1>1. BuildInv /\ [Next]_vars => BuildInv'
  <2> SUFFICES ASSUME BuildInv, [Next]_vars PROVE BuildInv'
    OBVIOUS
  <2>1. CASE Next
    BY <2>1, StartKeeps, OrderingKeeps, BuildingKeeps, EndingKeeps, StoppingKeeps DEF Next, Steps
  <2>2. CASE UNCHANGED vars
    <3>1. UNCHANGED <<set, mode, orderVars, dedupVars, step, place, managed, integrated, files, runs>>
      BY <2>2 DEF vars
    <3>2. Order!OrderInv' /\ Dedup!DedupInv'
      BY <3>1, OrderKept, DedupKept DEF BuildInv, InOrder, Deduplicating
    <3>3. /\ Active' = Active /\ Needs' = Needs /\ (ModesAgree' <=> ModesAgree)
          /\ \A m : Contents(m)' = Contents(m)
      BY <3>1 DEF Active, Needs, ModesAgree, Enabled, orderVars, Contents, Number
    <3>4. InOrder' /\ Deduplicating'
      BY <3>1, <3>2, <3>3 DEF BuildInv, InOrder, Deduplicating, orderVars, dedupVars
    <3>5. BuildTypeOK' /\ BuiltSoFar' /\ AtPlace' /\ ListsLast'
      BY <3>1 DEF BuildInv, BuildTypeOK, BuiltSoFar, AtPlace, ListsLast, OutputNotMixed, Enabled,
                  Here, files, orderVars
    <3>6. QED
      BY <3>4, <3>5 DEF BuildInv
  <2>3. QED
    BY <2>1, <2>2
<1>2. QED
  BY <1>1, InitHolds, PTL DEF Spec

\* The lists of one run never stand beside the images of another.
THEOREM OutputNotMixedHolds == Spec => []OutputNotMixed
<1>1. BuildInv => OutputNotMixed
  BY DEF BuildInv, ListsLast
<1>2. QED
  BY BuildInductive, <1>1, PTL

\* When a module is built, all it needs has been built by this run: the order of
\* topological_order, with the modes that were checked.
THEOREM DependenciesReadyHolds == Spec => []DependenciesReady
<1>1. BuildInv => DependenciesReady
  <2> SUFFICES ASSUME BuildInv, step = "child"
               PROVE  /\ \A d \in set.depends[Here] :
                            mode[d] = mode[Here] /\ image[d] = "new" /\ (d \in set.api => apis[d] = "new")
                      /\ \A d \in set.after[Here] \cap Elements(Active) : Enabled(d) => image[d] = "new"
    BY DEF DependenciesReady
  <2>1. BuildTypeOK /\ InOrder /\ BuiltSoFar /\ AtPlace /\ step \in Emptied /\ step \in Loop
    BY DEF BuildInv, Emptied, Loop
  <2>2. place <= Len(output) /\ place \in Nat \ {0} /\ Enabled(Here)
    BY <2>1 DEF AtPlace, BuildTypeOK
  <2>3. place \in DOMAIN output
    BY <2>1, <2>2, OutputFacts
  <2>4. Needs[Here] \subseteq {output[j] : j \in 1 .. (place - 1)}
    BY <2>1, <2>3, OutputFacts DEF Here
  <2>5. Here \in Elements(Active) /\ Here \in Elements(output)
    BY <2>1, <2>3, OutputFacts DEF Here, Elements
  <2>6. Needs[Here] = set.depends[Here] \cup (set.after[Here] \cap Elements(Active))
    BY <2>5 DEF Needs
  <2>7. ASSUME NEW d \in Needs[Here], Enabled(d)
        PROVE  image[d] = "new" /\ (d \in set.api => apis[d] = "new")
    BY <2>1, <2>4, <2>7 DEF BuiltSoFar
  <2>8. \A d \in set.depends[Here] : mode[d] = mode[Here]
    BY <2>1, <2>2, <2>5 DEF InOrder, ModesAgree
  <2>9. \A d \in set.depends[Here] : Enabled(d)
    BY <2>2, <2>8 DEF Enabled
  <2>10. QED
    BY <2>6, <2>7, <2>8, <2>9
<1>2. QED
  BY BuildInductive, <1>1, PTL

\* When the list of the archives is there the run is complete: every enabled
\* module has an image of this run and is listed, and the archives hold each
\* object once, of what the integrated modules were built with.
THEOREM DoneIsCompleteHolds == Spec => []DoneIsComplete
<1>1. BuildInv => DoneIsComplete
  <2> SUFFICES ASSUME BuildInv, step = "done" \/ list.age = "new" PROVE DoneIsComplete
    BY DEF DoneIsComplete
  <2>1. /\ BuildTypeOK /\ InOrder /\ BuiltSoFar /\ ListsLast /\ Deduplicating
        /\ step = "done" /\ step \in Emptied /\ step \in Ending
    BY DEF BuildInv, ListsLast, Emptied, Ending
  <2>2. manifest = [age |-> "new", lists |-> managed] /\ list = [age |-> "new", lists |-> integrated]
    BY <2>1 DEF ListsLast
  <2>3. 1 .. (place - 1) = DOMAIN output /\ Elements(output) = Elements(Active)
    BY <2>1, OutputFacts DEF BuiltSoFar
  <2>4. \A x : {output[j] : j \in {j \in 1 .. (place - 1) : mode[output[j]] = x}}
                  = {m \in Elements(Active) : mode[m] = x}
    BY <2>3 DEF Elements
  <2>5. /\ Elements(managed) = {m \in Elements(Active) : mode[m] = "m"}
        /\ Elements(integrated) = {m \in Elements(Active) : mode[m] = "y"}
    BY <2>1, <2>4 DEF BuiltSoFar
  <2>6. ASSUME NEW m \in Elements(Active), mode[m] # "n" PROVE image[m] = "new"
    <3>1. PICK j \in DOMAIN output : m = output[j]
      BY <2>3 DEF Elements
    <3>2. QED
      BY <2>1, <2>3, <2>6, <3>1 DEF BuiltSoFar, Enabled
  <2>7. /\ built = [i \in DOMAIN integrated |-> Contents(integrated[i])]
        /\ Dedup!DedupInv /\ dedup = "ok"
    BY <2>1 DEF Deduplicating
  <2>8. Facts!DedupAssumption
    BY SetsAssumption DEF Facts!DedupAssumption
  <2>9. Dedup!LinkedOnce /\ Dedup!NoObjectLost
    BY <2>7, <2>8, SameDedup, Facts!InvLinksOnce, Facts!InvLosesNothing
  <2>10. Dedup!Held(built) = UNION {Dedup!Bodies(Contents(m)) : m \in Elements(integrated)}
    BY <2>7 DEF Dedup!Held, Elements
  <2>11. Dedup!Held(archives) = UNION {Dedup!Bodies(Contents(m)) : m \in Elements(integrated)}
    BY <2>9, <2>10 DEF Dedup!NoObjectLost
  <2>12. \A m \in Elements(managed) \cup Elements(integrated) : image[m] = "new"
    BY <2>5, <2>6
  <2>13. QED
    BY <2>2, <2>5, <2>9, <2>11, <2>12 DEF DoneIsComplete
<1>2. QED
  BY BuildInductive, <1>1, PTL
=============================================================================
