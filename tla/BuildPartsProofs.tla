-------------------------- MODULE BuildPartsProofs --------------------------
(***************************************************************************)
(* Proofs about the two parts of a run over a module set that BuildSet     *)
(* takes as instances.                                                     *)
(*                                                                         *)
(* ModuleOrder, for any set of modules, any file order and any dependency  *)
(* graph.  OrderInv is inductive: the three sequences share the modules    *)
(* among them, the output respects the dependencies, and what a sweep      *)
(* without progress has passed over is still waiting.  That last part is   *)
(* what makes the cycle error truthful.                                    *)
(*                                                                         *)
(* ArchiveDedup, for any number of archives and any members.  DedupInv is  *)
(* inductive: the archives before index hold exactly what none before them *)
(* was built with, those from index on are as they were built, and         *)
(* together the former hold all that the former were built with.           *)
(***************************************************************************)
EXTENDS ModuleOrder, ArchiveDedup, WellFoundedInduction, TLAPS

-----------------------------------------------------------------------------
(* Sequences: appending a new element and taking the first one. *)

LEMMA AppendNew ==
    ASSUME NEW S, NEW s \in Seq(S), NEW e \in S, e \notin Elements(s)
    PROVE  /\ Append(s, e) \in Seq(S)
           /\ Elements(Append(s, e)) = Elements(s) \cup {e}
           /\ Distinct(s) => Distinct(Append(s, e))
<1>1. /\ Append(s, e) \in Seq(S)
      /\ DOMAIN s = 1 .. Len(s) /\ Len(s) \in Nat
      /\ DOMAIN Append(s, e) = 1 .. (Len(s) + 1)
      /\ \A i \in 1 .. Len(s) : Append(s, e)[i] = s[i]
      /\ Append(s, e)[Len(s) + 1] = e
  OBVIOUS
<1>2. Elements(Append(s, e)) = Elements(s) \cup {e}
  BY <1>1 DEF Elements
<1>3. ASSUME Distinct(s), NEW i \in DOMAIN Append(s, e), NEW j \in DOMAIN Append(s, e),
             Append(s, e)[i] = Append(s, e)[j]
      PROVE  i = j
  BY <1>1, <1>3 DEF Distinct, Elements
<1>4. QED
  BY <1>1, <1>2, <1>3 DEF Distinct

LEMMA HeadOff ==
    ASSUME NEW S, NEW s \in Seq(S), s # <<>>
    PROVE  /\ Head(s) \in S /\ Tail(s) \in Seq(S)
           /\ Elements(s) = {Head(s)} \cup Elements(Tail(s))
           /\ Distinct(s) => Distinct(Tail(s)) /\ Head(s) \notin Elements(Tail(s))
<1>1. /\ Head(s) \in S /\ Tail(s) \in Seq(S)
      /\ DOMAIN s = 1 .. Len(s) /\ Len(s) \in Nat \ {0} /\ Head(s) = s[1]
      /\ DOMAIN Tail(s) = 1 .. (Len(s) - 1)
      /\ \A i \in 1 .. (Len(s) - 1) : Tail(s)[i] = s[i + 1]
  OBVIOUS
<1>2. ASSUME NEW i \in DOMAIN s PROVE s[i] \in {Head(s)} \cup Elements(Tail(s))
  <2>1. CASE i = 1 BY <1>1, <2>1
  <2>2. CASE i # 1
    <3>1. i - 1 \in 1 .. (Len(s) - 1) /\ Tail(s)[i - 1] = s[i] BY <1>1, <2>2
    <3>2. QED BY <1>1, <3>1 DEF Elements
  <2>3. QED BY <2>1, <2>2
<1>3. ASSUME NEW i \in DOMAIN Tail(s)
      PROVE  i + 1 \in DOMAIN s /\ i + 1 # 1 /\ Tail(s)[i] = s[i + 1]
  BY <1>1
<1>4. 1 \in DOMAIN s
  BY <1>1
<1>5. Elements(s) = {Head(s)} \cup Elements(Tail(s))
  <2>1. Elements(s) \subseteq {Head(s)} \cup Elements(Tail(s))
    BY <1>2 DEF Elements
  <2>2. Elements(Tail(s)) \subseteq Elements(s)
    BY <1>3 DEF Elements
  <2>3. Head(s) \in Elements(s)
    BY <1>1, <1>4 DEF Elements
  <2>4. QED
    BY <2>1, <2>2, <2>3
<1>6. ASSUME Distinct(s) PROVE Distinct(Tail(s)) /\ Head(s) \notin Elements(Tail(s))
  <2>1. ASSUME NEW i \in DOMAIN Tail(s), NEW j \in DOMAIN Tail(s), Tail(s)[i] = Tail(s)[j]
        PROVE  i = j
    <3>1. i + 1 = j + 1 BY <1>3, <1>6, <2>1 DEF Distinct
    <3>2. QED BY <1>1, <3>1
  <2>2. ASSUME NEW i \in DOMAIN Tail(s) PROVE Tail(s)[i] # Head(s)
    BY <1>1, <1>3, <1>4, <1>6 DEF Distinct
  <2>3. QED BY <2>1, <2>2 DEF Distinct, Elements
<1>7. QED
  BY <1>1, <1>5, <1>6

-----------------------------------------------------------------------------
(* The invariant. *)

\* A list of distinct modules begins with the invariant, as the first state of
\* the call on its own or as a step of its caller.
LEMMA OrderBegins ==
    ASSUME NEW listing \in Seq(Module), Distinct(listing),
           NEW needs \in [Elements(listing) -> SUBSET Module], OrderStart(listing, needs)
    PROVE  OrderInv'
<1>1. requires' = needs /\ Members' = Elements(listing)
  BY DEF OrderStart, Members
<1>2. /\ kept' = <<>> /\ rest' = listing /\ output' = <<>> /\ progress' = FALSE
      /\ verdict' = FirstVerdict(listing, needs) /\ verdict' \in {"running", "unknown"}
  BY DEF OrderStart, FirstVerdict
<1>3. /\ listing \in Seq(Elements(listing)) /\ <<>> \in Seq(Elements(listing))
      /\ Elements(listing) \subseteq Module
  BY DEF Elements
<1>4. TypeOK'
  <2>1. Members' \subseteq Module /\ requires' \in [Members' -> SUBSET Module]
    BY <1>1, <1>3
  <2>2. kept' \in Seq(Members') /\ rest' \in Seq(Members') /\ output' \in Seq(Members')
    BY <1>1, <1>2, <1>3
  <2>3. QED
    BY <1>2, <2>1, <2>2 DEF TypeOK
<1>5. Elements(<<>>) = {} /\ Distinct(<<>>)
  BY DEF Elements, Distinct
<1>6. Partition'
  BY <1>1, <1>2, <1>5 DEF Partition, Pending
<1>7. DependenciesFirst' /\ KeptWait' /\ VerdictInv'
  BY <1>2, <1>5 DEF DependenciesFirst, KeptWait, VerdictInv
<1>8. Known'
  BY <1>1, <1>2 DEF Known, FirstVerdict
<1>9. QED
  BY <1>4, <1>6, <1>7, <1>8 DEF OrderInv

\* A step of the sweeps keeps the invariant.
LEMMA OrderStepKeeps ==
    ASSUME OrderInv, [OrderNext]_orderVars
    PROVE  OrderInv'
<1> USE DEF OrderInv
<1>1. CASE Emit
  <2>1. /\ verdict = "running" /\ rest # <<>> /\ requires[Head(rest)] \subseteq Elements(output)
        /\ output' = Append(output, Head(rest)) /\ rest' = Tail(rest) /\ progress' = TRUE
        /\ requires' = requires /\ kept' = kept /\ verdict' = verdict
    BY <1>1 DEF Emit, Ready
  <2>2. Members' = Members
    BY <2>1 DEF Members
  <2>3. /\ Head(rest) \in Members /\ Tail(rest) \in Seq(Members)
        /\ Elements(rest) = {Head(rest)} \cup Elements(Tail(rest))
        /\ Distinct(Tail(rest)) /\ Head(rest) \notin Elements(Tail(rest))
    BY <2>1, HeadOff DEF TypeOK, Partition
  <2>4. Head(rest) \notin Elements(output)
    BY <2>3 DEF Partition, Pending
  <2>5. /\ Append(output, Head(rest)) \in Seq(Members)
        /\ Elements(Append(output, Head(rest))) = Elements(output) \cup {Head(rest)}
        /\ Distinct(Append(output, Head(rest)))
    BY <2>3, <2>4, AppendNew DEF TypeOK, Partition
  <2>6. TypeOK'
    BY <2>1, <2>2, <2>3, <2>5 DEF TypeOK
  <2>7. Partition'
    BY <2>1, <2>2, <2>3, <2>4, <2>5 DEF Partition, Pending
  <2>8. DependenciesFirst'
    <3>1. /\ Len(output) \in Nat /\ DOMAIN output = 1 .. Len(output)
          /\ DOMAIN output' = 1 .. (Len(output) + 1)
          /\ \A i \in 1 .. Len(output) : output'[i] = output[i]
          /\ output'[Len(output) + 1] = Head(rest)
      BY <2>1, <2>3 DEF TypeOK
    <3>2. ASSUME NEW i \in DOMAIN output'
          PROVE  requires[output'[i]] \subseteq {output'[j] : j \in 1 .. (i - 1)}
      <4>1. CASE i \in 1 .. Len(output)
        <5>1. \A j \in 1 .. (i - 1) : output'[j] = output[j]
          BY <3>1, <4>1
        <5>2. {output'[j] : j \in 1 .. (i - 1)} = {output[j] : j \in 1 .. (i - 1)}
          BY <5>1
        <5>3. QED
          BY <3>1, <4>1, <5>2 DEF DependenciesFirst
      <4>2. CASE i = Len(output) + 1
        <5>1. Elements(output) = {output'[j] : j \in 1 .. (i - 1)}
          BY <3>1, <4>2 DEF Elements
        <5>2. QED
          BY <2>1, <3>1, <4>2, <5>1
      <4>3. QED
        BY <3>1, <4>1, <4>2
    <3>3. QED
      BY <2>1, <3>2 DEF DependenciesFirst
  <2>9. KeptWait'
    BY <2>1 DEF KeptWait
  <2>10. Known'
    BY <2>1, <2>2 DEF Known
  <2>11. VerdictInv'
    BY <2>1 DEF VerdictInv
  <2>12. QED
    BY <2>6, <2>7, <2>8, <2>9, <2>10, <2>11
<1>2. CASE Skip
  <2>1. /\ verdict = "running" /\ rest # <<>> /\ ~(requires[Head(rest)] \subseteq Elements(output))
        /\ kept' = Append(kept, Head(rest)) /\ rest' = Tail(rest)
        /\ requires' = requires /\ progress' = progress /\ output' = output /\ verdict' = verdict
    BY <1>2 DEF Skip, Ready
  <2>2. Members' = Members
    BY <2>1 DEF Members
  <2>3. /\ Head(rest) \in Members /\ Tail(rest) \in Seq(Members)
        /\ Elements(rest) = {Head(rest)} \cup Elements(Tail(rest))
        /\ Distinct(Tail(rest)) /\ Head(rest) \notin Elements(Tail(rest))
    BY <2>1, HeadOff DEF TypeOK, Partition
  <2>4. Head(rest) \notin Elements(kept)
    BY <2>3 DEF Partition, Pending
  <2>5. /\ Append(kept, Head(rest)) \in Seq(Members)
        /\ Elements(Append(kept, Head(rest))) = Elements(kept) \cup {Head(rest)}
        /\ Distinct(Append(kept, Head(rest)))
    BY <2>3, <2>4, AppendNew DEF TypeOK, Partition
  <2>6. TypeOK'
    BY <2>1, <2>2, <2>3, <2>5 DEF TypeOK
  <2>7. Partition'
    BY <2>1, <2>2, <2>3, <2>4, <2>5 DEF Partition, Pending
  <2>8. DependenciesFirst'
    BY <2>1 DEF DependenciesFirst
  <2>9. KeptWait'
    BY <2>1, <2>5 DEF KeptWait, Ready
  <2>10. Known'
    BY <2>1, <2>2 DEF Known
  <2>11. VerdictInv'
    BY <2>1 DEF VerdictInv
  <2>12. QED
    BY <2>6, <2>7, <2>8, <2>9, <2>10, <2>11
<1>3. CASE SweepAgain
  <2>1. /\ verdict = "running" /\ rest = <<>> /\ rest' = kept /\ kept' = <<>> /\ progress' = FALSE
        /\ requires' = requires /\ output' = output /\ verdict' = verdict
    BY <1>3 DEF SweepAgain
  <2>2. Members' = Members /\ Elements(<<>>) = {} /\ Distinct(<<>>) /\ <<>> \in Seq(Members)
    BY <2>1 DEF Members, Elements, Distinct
  <2>3. TypeOK'
    BY <2>1, <2>2 DEF TypeOK
  <2>4. Partition'
    BY <2>1, <2>2 DEF Partition, Pending
  <2>5. DependenciesFirst'
    BY <2>1 DEF DependenciesFirst
  <2>6. KeptWait'
    BY <2>1, <2>2 DEF KeptWait
  <2>7. Known' /\ VerdictInv'
    BY <2>1, <2>2 DEF Known, VerdictInv
  <2>8. QED
    BY <2>3, <2>4, <2>5, <2>6, <2>7
<1>4. ASSUME verdict' \in {"ordered", "cycle"}, verdict = "running", rest = <<>>,
             verdict' = "ordered" => kept = <<>>, verdict' = "cycle" => kept # <<>> /\ ~progress,
             UNCHANGED <<requires, kept, rest, progress, output>>
      PROVE  OrderInv'
  <2>1. Members' = Members
    BY <1>4 DEF Members
  <2>2. TypeOK'
    BY <1>4, <2>1 DEF TypeOK
  <2>3. Partition'
    BY <1>4, <2>1 DEF Partition, Pending
  <2>4. DependenciesFirst'
    BY <1>4 DEF DependenciesFirst
  <2>5. KeptWait' /\ Known' /\ VerdictInv'
    BY <1>4, <2>1 DEF KeptWait, Ready, Known, VerdictInv
  <2>6. QED
    BY <2>2, <2>3, <2>4, <2>5
<1>5. CASE FindCycle
  BY <1>4, <1>5 DEF FindCycle
<1>6. CASE Finish
  BY <1>4, <1>6 DEF Finish
<1>7. CASE UNCHANGED orderVars
  <2>1. UNCHANGED <<requires, kept, rest, progress, output, verdict>>
    BY <1>7 DEF orderVars
  <2>2. Members' = Members
    BY <2>1 DEF Members
  <2>3. TypeOK' /\ Partition'
    BY <2>1, <2>2 DEF TypeOK, Partition, Pending
  <2>4. DependenciesFirst'
    BY <2>1 DEF DependenciesFirst
  <2>5. KeptWait' /\ Known' /\ VerdictInv'
    BY <2>1, <2>2 DEF KeptWait, Ready, Known, VerdictInv
  <2>6. QED
    BY <2>3, <2>4, <2>5
<1>8. QED
  BY <1>1, <1>2, <1>3, <1>5, <1>6, <1>7 DEF OrderNext

\* The sweeps over the vector of pending modules keep the invariant, whatever
\* the file order and the dependencies.
THEOREM OrderInductive == Spec => []OrderInv
<1>1. Init => OrderInv
  <2>1. ASSUME NEW listing \in Listings, NEW needs \in [Elements(listing) -> SUBSET Module],
               OrderInit(listing, needs)
        PROVE  OrderInv
    <3>1. PICK n \in 0 .. Cardinality(Module) : listing \in [1 .. n -> Module]
      BY DEF Listings
    <3>2. Elements(listing) \subseteq Module
      BY <3>1 DEF Elements
    <3>3. CASE n \in Nat
      <4>1. requires = needs /\ Members = Elements(listing)
        BY <2>1 DEF OrderInit, Members
      <4>2. listing \in [1 .. n -> Members]
        BY <3>1, <4>1 DEF Elements
      <4>3. listing \in Seq(Members) /\ <<>> \in Seq(Members)
        BY <3>3, <4>2
      <4>4. kept = <<>> /\ rest = listing /\ output = <<>> /\ progress = FALSE
        BY <2>1 DEF OrderInit
      <4>5. verdict \in {"running", "unknown"}
        BY <2>1 DEF OrderInit, FirstVerdict
      <4>6. TypeOK
        BY <2>1, <3>2, <4>1, <4>3, <4>4, <4>5 DEF TypeOK
      <4>7. Elements(<<>>) = {} /\ Distinct(<<>>)
        BY DEF Elements, Distinct
      <4>8. Distinct(listing)
        BY DEF Listings
      <4>9. Partition
        BY <4>1, <4>4, <4>7, <4>8 DEF Partition, Pending
      <4>10. DependenciesFirst
        BY <4>4 DEF DependenciesFirst
      <4>11. KeptWait
        BY <4>4, <4>7 DEF KeptWait
      <4>12. Known
        BY <2>1, <4>1 DEF Known, OrderInit, FirstVerdict
      <4>13. VerdictInv
        BY <4>5 DEF VerdictInv
      <4>14. QED
        BY <4>6, <4>9, <4>10, <4>11, <4>12, <4>13 DEF OrderInv
    <3>4. CASE n \notin Nat
      BY <3>1, <3>4
    <3>5. QED
      BY <3>3, <3>4
  <2>2. QED
    BY <2>1 DEF Init
<1>2. OrderInv /\ [OrderNext]_orderVars => OrderInv'
  BY OrderStepKeeps
<1>3. QED
  BY <1>1, <1>2, PTL DEF Spec

-----------------------------------------------------------------------------
(* What the callers of topological_order rely on. *)

\* No module is built before one it depends on or comes after.
THEOREM DependenciesFirstHolds == Spec => []DependenciesFirst
<1>1. OrderInv => DependenciesFirst
  BY DEF OrderInv
<1>2. QED
  BY OrderInductive, <1>1, PTL

\* No module is lost and none is emitted twice.
THEOREM EachModuleOnceHolds == Spec => []EachModuleOnce
<1>1. OrderInv => EachModuleOnce
  BY DEF OrderInv, EachModuleOnce, Partition, VerdictInv, Pending, Elements
<1>2. QED
  BY OrderInductive, <1>1, PTL

\* The modules left over when a cycle is reported are a circular set.
THEOREM CycleIsRealHolds == Spec => []CycleIsReal
<1>1. OrderInv => CycleIsReal
  <2> SUFFICES ASSUME OrderInv, verdict = "cycle" PROVE \E S \in SUBSET Members : Circular(S)
    BY DEF CycleIsReal
  <2>1. rest = <<>> /\ kept # <<>> /\ ~progress
    BY DEF OrderInv, VerdictInv
  <2>2. Elements(rest) = {}
    BY <2>1 DEF Elements
  <2>3. Elements(kept) \subseteq Members /\ Elements(kept) \cup Elements(output) = Members
    BY <2>2 DEF OrderInv, Partition, Pending
  <2>4. Elements(kept) # {}
    <3>1. Head(kept) \in Elements(kept)
      BY <2>1, HeadOff DEF OrderInv, TypeOK
    <3>2. QED
      BY <3>1
  <2>5. ASSUME NEW m \in Elements(kept) PROVE requires[m] \cap Elements(kept) # {}
    <3>1. ~(requires[m] \subseteq Elements(output))
      BY <2>1 DEF OrderInv, KeptWait, Ready
    <3>2. requires[m] \subseteq Members
      BY <2>3 DEF OrderInv, Known
    <3>3. QED
      BY <2>3, <3>1, <3>2
  <2>6. QED
    BY <2>3, <2>4, <2>5 DEF Circular
<1>2. QED
  BY OrderInductive, <1>1, PTL

\* A circular set has no member that is emitted first, so it is never ordered.
THEOREM CycleIsFoundHolds == Spec => []CycleIsFound
<1>1. OrderInv => CycleIsFound
  <2> SUFFICES ASSUME OrderInv, verdict = "ordered", NEW S \in SUBSET Members, Circular(S)
               PROVE  FALSE
    BY DEF CycleIsFound
  <2>1. S # {} /\ \A m \in S : requires[m] \cap S # {}
    BY DEF Circular
  <2>2. Elements(output) = Members
    BY DEF OrderInv, VerdictInv, Partition, Pending, Elements
  <2>3. Len(output) \in Nat /\ DOMAIN output = 1 .. Len(output)
    BY DEF OrderInv, TypeOK
  <2> DEFINE Places == {i \in DOMAIN output : output[i] \in S}
  <2>4. Places # {} /\ Places \subseteq Nat
    BY <2>1, <2>2, <2>3 DEF Elements
  <2>5. PICK i \in Places : \A j \in Places : ~(<<j, i>> \in OpToRel(<, Nat))
    BY <2>4, NatLessThanWellFounded, WFMin
  <2>6. \A j \in Places : ~(j < i)
    <3>1. ASSUME NEW j \in Places, j < i PROVE FALSE
      <4>1. j \in Nat /\ i \in Nat BY <2>4
      <4>2. <<j, i>> \in OpToRel(<, Nat) BY <3>1, <4>1 DEF OpToRel
      <4>3. QED BY <2>5, <4>2
    <3>2. QED BY <3>1
  <2>7. PICK m \in S : m \in requires[output[i]]
    BY <2>1
  <2>8. PICK j \in 1 .. (i - 1) : m = output[j]
    BY <2>7 DEF OrderInv, DependenciesFirst
  <2>9. j \in Places /\ j < i
    BY <2>3, <2>8
  <2>10. QED
    BY <2>6, <2>9
<1>2. QED
  BY OrderInductive, <1>1, PTL

\* topological_order drops and doubles no module, and refuses just the sets that
\* have a cycle.
THEOREM OutcomeIsRightHolds == Spec => []OutcomeIsRight
<1>1. EachModuleOnce /\ CycleIsReal /\ CycleIsFound => OutcomeIsRight
  BY DEF OutcomeIsRight
<1>2. QED
  BY EachModuleOnceHolds, CycleIsRealHolds, CycleIsFoundHolds, <1>1, PTL

-----------------------------------------------------------------------------
(* What an archive is left with. *)

LEMMA LeastOf ==
    ASSUME NEW S, S \subseteq Nat, S # {}
    PROVE  \E x \in S : \A y \in S : x <= y
<1>1. PICK x \in S : \A y \in S : ~(<<y, x>> \in OpToRel(<, Nat))
  BY NatLessThanWellFounded, WFMin
<1>2. ASSUME NEW y \in S, y < x PROVE FALSE
  <2>1. <<y, x>> \in OpToRel(<, Nat) BY <1>2 DEF OpToRel
  <2>2. QED BY <1>1, <2>1
<1>3. \A y \in S : x <= y
  BY <1>2
<1>4. QED
  BY <1>3

\* The members that are kept have every new body once.
LEMMA RetainedShare ==
    ASSUME NEW a \in SUBSET Member, IsArchive(a)
    PROVE  /\ Retained(a) \subseteq a
           /\ Bodies(Retained(a)) = Bodies(a) \ seen
           /\ \A x, y \in Retained(a) : x.body = y.body => x = y
<1>1. Retained(a) \subseteq a /\ \A x \in Retained(a) : x.body \notin seen
  BY DEF Retained
<1>2. ASSUME NEW x \in Retained(a), NEW y \in Retained(a), x.body = y.body PROVE x = y
  <2>1. x \in Member /\ y \in Member /\ x.name \in Nat /\ y.name \in Nat
    BY <1>1, DedupAssumption DEF Member
  <2>2. x.name <= y.name /\ y.name <= x.name
    BY <1>1, <1>2 DEF Retained
  <2>3. x.name = y.name
    BY <2>1, <2>2
  <2>4. QED
    BY <1>1, <2>3 DEF IsArchive
<1>3. ASSUME NEW x \in a, x.body \notin seen PROVE \E y \in Retained(a) : y.body = x.body
  <2> DEFINE Same == {y \in a : y.body = x.body}
             Names == {y.name : y \in Same}
  <2>1. Names \subseteq Nat /\ Names # {}
    BY DedupAssumption DEF Member
  <2>2. PICK n \in Names : \A k \in Names : n <= k
    BY <2>1, LeastOf
  <2>3. PICK y \in Same : y.name = n
    BY <2>2
  <2>4. y \in Retained(a)
    BY <1>3, <2>2, <2>3 DEF Retained
  <2>5. QED
    BY <2>3, <2>4
<1>4. Bodies(Retained(a)) = Bodies(a) \ seen
  BY <1>1, <1>3 DEF Bodies
<1>5. QED
  BY <1>1, <1>2, <1>4

LEMMA BeforeNext ==
    ASSUME NEW i \in Nat \ {0}
    PROVE  Before(i + 1) = Before(i) \cup Bodies(built[i])
<1>1. 1 .. ((i + 1) - 1) = (1 .. (i - 1)) \cup {i}
  OBVIOUS
<1>2. QED
  BY <1>1 DEF Before

LEMMA BeforeFirst == Before(1) = {}
<1>1. 1 .. (1 - 1) = {}
  OBVIOUS
<1>2. QED
  BY <1>1 DEF Before

-----------------------------------------------------------------------------
(* The invariant. *)

\* index moves past an archive that holds its share, as it was built or rewritten.
LEMMA Advance ==
    ASSUME DedupTypeOK, Walked, index <= Len(built),
           built' = built, index' = index + 1,
           DOMAIN archives' = DOMAIN archives,
           \A i \in DOMAIN archives : i # index => archives'[i] = archives[i],
           IsShare(archives'[index], index)
    PROVE  Walked' /\ Before(index)' = Before(index + 1)
<1>1. /\ index \in Nat \ {0} /\ Len(built) \in Nat /\ index \in DOMAIN archives
      /\ DOMAIN built = 1 .. Len(built) /\ DOMAIN archives = 1 .. Len(built)
  BY DEF DedupTypeOK
<1>2. ASSUME NEW i \in 1 .. index PROVE IsShare(archives'[i], i)
  BY <1>1, <1>2 DEF Walked
<1>3. ASSUME NEW i \in 1 .. (index' - 1) PROVE IsShare(archives[i], i)'
  <2>1. i \in 1 .. index
    BY <1>1
  <2>2. IsShare(archives'[i], i)
    BY <1>2, <2>1
  <2>3. Before(i)' = Before(i)
    BY DEF Before, Bodies
  <2>4. QED
    BY <2>2, <2>3 DEF IsShare, Bodies
<1>4. ASSUME NEW i \in index' .. Len(built') PROVE archives'[i] = built'[i]
  <2>1. i \in index .. Len(built) /\ i # index /\ i \in DOMAIN archives
    BY <1>1
  <2>2. QED
    BY <2>1 DEF Walked
<1>5. Before(index)' = Before(index + 1)
  BY DEF Before, Bodies
<1>6. Before(index + 1) = Before(index) \cup Bodies(built[index])
  BY <1>1, BeforeNext
<1>7. Bodies(archives'[index]) = Bodies(built[index]) \ Before(index)
  BY DEF IsShare
<1>8. UNION {Bodies(archives'[j]) : j \in 1 .. (index' - 1)}
        = (UNION {Bodies(archives[j]) : j \in 1 .. (index - 1)}) \cup Bodies(archives'[index])
  <2>1. 1 .. (index' - 1) = (1 .. (index - 1)) \cup {index}
    BY <1>1
  <2>2. \A j \in 1 .. (index - 1) : archives'[j] = archives[j]
    BY <1>1
  <2>3. {Bodies(archives'[j]) : j \in 1 .. (index - 1)} = {Bodies(archives[j]) : j \in 1 .. (index - 1)}
    BY <2>2
  <2>4. {Bodies(archives'[j]) : j \in 1 .. (index' - 1)}
          = {Bodies(archives'[j]) : j \in 1 .. (index - 1)} \cup {Bodies(archives'[index])}
    BY <2>1
  <2>5. QED
    BY <2>3, <2>4
<1>9. Before(index)' = UNION {Bodies(archives[j]) : j \in 1 .. (index - 1)}'
  <2>1. Before(index) = UNION {Bodies(archives[j]) : j \in 1 .. (index - 1)}
    BY DEF Walked
  <2>2. Before(index)' = UNION {Bodies(archives'[j]) : j \in 1 .. (index' - 1)}
    BY <1>5, <1>6, <1>7, <1>8, <2>1
  <2>3. QED
    BY <2>2 DEF Bodies
<1>10. QED
  BY <1>3, <1>4, <1>5, <1>9 DEF Walked

\* The archive at index is as it was built, with unique member names.
LEMMA AtIndex ==
    ASSUME DedupInv, index <= Len(archives)
    PROVE  /\ index \in Nat \ {0} /\ index <= Len(built) /\ index \in DOMAIN archives
           /\ archives[index] = built[index]
           /\ archives[index] \in SUBSET Member /\ IsArchive(archives[index])
<1>1. /\ index \in 1 .. (Len(built) + 1) /\ Len(built) \in Nat
      /\ DOMAIN built = 1 .. Len(built) /\ archives \in [1 .. Len(built) -> SUBSET Member]
  BY DEF DedupInv, DedupTypeOK
<1>2. archives \in Seq(SUBSET Member) /\ Len(archives) = Len(built)
  BY <1>1
<1>3. index \in index .. Len(built) /\ index \in DOMAIN built
  BY <1>1, <1>2
<1>4. archives[index] = built[index]
  BY <1>3 DEF DedupInv, Walked
<1>5. QED
  BY <1>1, <1>2, <1>3, <1>4 DEF DedupInv, BuiltOK

\* Steps that leave the files and the walk where they are.
LEMMA Still ==
    ASSUME DedupInv, UNCHANGED <<archives, built, index>>
    PROVE  BuiltOK' /\ Walked' /\ Before(index)' = Before(index)
<1>1. BuiltOK'
  BY DEF DedupInv, BuiltOK, IsArchive
<1>2. Before(index)' = Before(index)
  BY DEF Before, Bodies
<1>3. ASSUME NEW i \in 1 .. (index' - 1) PROVE IsShare(archives[i], i)'
  <2>1. IsShare(archives[i], i)
    BY DEF DedupInv, Walked
  <2>2. Before(i)' = Before(i)
    BY DEF Before, Bodies
  <2>3. QED
    BY <2>1, <2>2 DEF IsShare, Bodies
<1>4. \A i \in index' .. Len(built') : archives'[i] = built'[i]
  BY DEF DedupInv, Walked
<1>5. Before(index)' = UNION {Bodies(archives[j]) : j \in 1 .. (index - 1)}'
  BY <1>2 DEF DedupInv, Walked, Bodies
<1>6. QED
  BY <1>1, <1>2, <1>3, <1>4, <1>5 DEF Walked

\* Any archives begin with the invariant, when a caller starts the walk.
LEMMA DedupBegins ==
    ASSUME NEW archs \in Seq(Archive), DedupStart(archs)
    PROVE  DedupInv'
<1>1. /\ archives' = archs /\ built' = archs /\ seen' = {} /\ index' = 1 /\ rebuilt' = {}
      /\ dedup' = "begin"
  BY DEF DedupStart
<1>2. /\ Len(archs) \in Nat /\ DOMAIN archs = 1 .. Len(archs)
      /\ \A i \in DOMAIN archs : archs[i] \in SUBSET Member /\ IsArchive(archs[i])
  BY DEF Archive
<1>3. archs \in Seq(SUBSET Member) /\ archs \in [DOMAIN archs -> SUBSET Member]
  BY <1>2 DEF Archive
<1>4. DedupTypeOK'
  BY <1>1, <1>2, <1>3 DEF DedupTypeOK
<1>5. BuiltOK'
  BY <1>1, <1>2 DEF BuiltOK, IsArchive
<1>6. 1 .. (index' - 1) = {}
  BY <1>1
<1>7. Before(index)' = {}
  BY <1>6 DEF Before
<1>8. Walked'
  BY <1>1, <1>6, <1>7 DEF Walked
<1>9. DedupProgress'
  BY <1>1, <1>7 DEF DedupProgress
<1>10. QED
  BY <1>4, <1>5, <1>8, <1>9 DEF DedupInv

\* A step of the walk keeps the invariant.
LEMMA DedupStepKeeps ==
    ASSUME DedupInv, [DedupNext]_dedupVars
    PROVE  DedupInv'
<1>0. /\ Len(built) \in Nat /\ DOMAIN built = 1 .. Len(built) /\ Len(archives) = Len(built)
      /\ index \in 1 .. (Len(built) + 1)
  BY DEF DedupInv, DedupTypeOK
<1>1. ASSUME UNCHANGED <<archives, built, seen, index, rebuilt>>,
             \/ dedup' \in {"cleanup_failed", "error", "killed"}
             \/ dedup' = dedup
             \/ dedup = "begin" /\ dedup' = "archive"
             \/ dedup = "begin" /\ dedup' = "ok" /\ Len(archives) < 2
             \/ dedup = "archive" /\ dedup' = "cleanup" /\ index > Len(archives)
             \/ dedup = "cleanup" /\ dedup' = "ok"
      PROVE  DedupInv'
  <2>1. BuiltOK' /\ Walked' /\ Before(index)' = Before(index)
    BY <1>1, Still
  <2>2. DedupTypeOK'
    BY <1>1 DEF DedupInv, DedupTypeOK
  <2>3. dedup' = "install" => IsShare(rebuilt, index)' /\ Before(index + 1)' = Before(index + 1)
    <3>1. Before(index)' = Before(index) /\ Before(index + 1)' = Before(index + 1)
      BY <1>1 DEF Before, Bodies
    <3>2. QED
      BY <1>1, <3>1 DEF DedupInv, DedupProgress, IsShare, Bodies
  <2>4. DedupProgress'
    BY <1>0, <1>1, <2>1, <2>3 DEF DedupInv, DedupProgress
  <2>5. QED
    BY <2>1, <2>2, <2>4 DEF DedupInv
<1>2. CASE NothingToDo \/ MakeTemporary \/ Refuse \/ StepFails \/ ScanEnds \/ Cleanup \/ DedupKilled
  BY <1>1, <1>2 DEF NothingToDo, MakeTemporary, Refuse, StepFails, ScanEnds, Cleanup, DedupKilled
<1>3. CASE Scan
  <2>1. /\ dedup = "archive" /\ index <= Len(archives) /\ Retained(archives[index]) = archives[index]
        /\ archives[index] # {} /\ seen' = seen \cup Bodies(archives[index]) /\ index' = index + 1
        /\ archives' = archives /\ built' = built /\ rebuilt' = rebuilt /\ dedup' = dedup
    BY <1>3 DEF Scan
  <2>2. /\ index \in Nat \ {0} /\ index <= Len(built) /\ archives[index] = built[index]
        /\ archives[index] \in SUBSET Member /\ IsArchive(archives[index])
    BY <2>1, AtIndex
  <2>3. seen = Before(index)
    BY <2>1 DEF DedupInv, DedupProgress
  <2>4. IsShare(archives[index], index)
    BY <2>1, <2>2, <2>3, RetainedShare DEF IsShare
  <2>5. Walked' /\ Before(index)' = Before(index + 1)
    BY <2>1, <2>2, <2>4, Advance DEF DedupInv
  <2>6. seen' = Before(index)'
    BY <2>1, <2>2, <2>3, <2>5, BeforeNext
  <2>7. DedupTypeOK'
    <3>1. Bodies(archives[index]) \subseteq Body
      BY <2>2 DEF Bodies, Member
    <3>2. QED
      BY <1>0, <2>1, <2>2, <3>1 DEF DedupInv, DedupTypeOK
  <2>8. BuiltOK' /\ DedupProgress'
    BY <2>1, <2>6 DEF DedupInv, BuiltOK, IsArchive, DedupProgress
  <2>9. QED
    BY <2>5, <2>7, <2>8 DEF DedupInv
<1>4. CASE Rebuild
  <2>1. /\ dedup = "archive" /\ index <= Len(archives) /\ Retained(archives[index]) # {}
        /\ seen' = seen \cup Bodies(archives[index]) /\ rebuilt' = Retained(archives[index])
        /\ dedup' = "install" /\ archives' = archives /\ built' = built /\ index' = index
    BY <1>4 DEF Rebuild
  <2>2. /\ index \in Nat \ {0} /\ index <= Len(built) /\ archives[index] = built[index]
        /\ archives[index] \in SUBSET Member /\ IsArchive(archives[index])
    BY <2>1, AtIndex
  <2>3. seen = Before(index)
    BY <2>1 DEF DedupInv, DedupProgress
  <2>4. IsShare(rebuilt', index)
    BY <2>1, <2>2, <2>3, RetainedShare DEF IsShare
  <2>5. IsShare(rebuilt, index)'
    <3>1. Before(index)' = Before(index)
      BY <2>1 DEF Before, Bodies
    <3>2. QED
      BY <2>1, <2>4, <3>1 DEF IsShare, Bodies
  <2>6. seen' = Before(index + 1)'
    <3>1. Before(index + 1)' = Before(index + 1)
      BY <2>1 DEF Before, Bodies
    <3>2. QED
      BY <2>1, <2>2, <2>3, <3>1, BeforeNext
  <2>7. BuiltOK' /\ Walked'
    BY <2>1, Still
  <2>8. DedupTypeOK'
    <3>1. Bodies(archives[index]) \subseteq Body /\ rebuilt' \subseteq Member
      BY <2>1, <2>2, RetainedShare DEF Bodies, Member
    <3>2. QED
      BY <2>1, <3>1 DEF DedupInv, DedupTypeOK
  <2>9. DedupProgress'
    BY <2>1, <2>2, <2>5, <2>6 DEF DedupProgress
  <2>10. QED
    BY <2>7, <2>8, <2>9 DEF DedupInv
<1>5. CASE Install
  <2>1. /\ dedup = "install" /\ archives' = [archives EXCEPT ![index] = rebuilt]
        /\ index' = index + 1 /\ dedup' = "archive"
        /\ built' = built /\ seen' = seen /\ rebuilt' = rebuilt
    BY <1>5 DEF Install
  <2>2. index <= Len(built) /\ seen = Before(index + 1) /\ IsShare(rebuilt, index)
    BY <2>1 DEF DedupInv, DedupProgress
  <2>3. /\ index \in DOMAIN archives /\ DOMAIN archives' = DOMAIN archives
        /\ archives'[index] = rebuilt
        /\ \A i \in DOMAIN archives : i # index => archives'[i] = archives[i]
    BY <1>0, <2>1, <2>2 DEF DedupInv, DedupTypeOK
  <2>4. Walked' /\ Before(index)' = Before(index + 1)
    BY <2>1, <2>2, <2>3, Advance DEF DedupInv
  <2>5. DedupTypeOK'
    BY <1>0, <2>1, <2>2 DEF DedupInv, DedupTypeOK
  <2>6. BuiltOK' /\ DedupProgress'
    BY <2>1, <2>2, <2>4 DEF DedupInv, BuiltOK, IsArchive, DedupProgress
  <2>7. QED
    BY <2>4, <2>5, <2>6 DEF DedupInv
<1>6. CASE UNCHANGED dedupVars
  BY <1>1, <1>6 DEF dedupVars
<1>7. QED
  BY <1>2, <1>3, <1>4, <1>5, <1>6 DEF DedupNext, DedupSteps

\* The walk keeps the invariant, whatever the archives and wherever it fails.
THEOREM DedupInductive == DedupSpec => []DedupInv
<1>1. AnyInit => DedupInv
  <2>1. ASSUME NEW files \in Seq(Archive), DedupInit(files) PROVE DedupInv
    <3>1. /\ archives = files /\ built = files /\ seen = {} /\ index = 1 /\ rebuilt = {}
          /\ dedup = "begin"
      BY <2>1 DEF DedupInit
    <3>2. /\ Len(files) \in Nat /\ DOMAIN files = 1 .. Len(files)
          /\ \A i \in DOMAIN files : files[i] \in SUBSET Member /\ IsArchive(files[i])
      BY DEF Archive
    <3>3. files \in Seq(SUBSET Member) /\ files \in [DOMAIN files -> SUBSET Member]
      BY <3>2 DEF Archive
    <3>4. DedupTypeOK
      BY <3>1, <3>2, <3>3 DEF DedupTypeOK
    <3>5. BuiltOK
      BY <3>1, <3>2 DEF BuiltOK
    <3>6. 1 .. (index - 1) = {}
      BY <3>1
    <3>7. Walked
      BY <3>1, <3>6, BeforeFirst DEF Walked
    <3>8. DedupProgress
      BY <3>1, BeforeFirst DEF DedupProgress
    <3>9. QED
      BY <3>4, <3>5, <3>7, <3>8 DEF DedupInv
  <2>2. QED
    BY <2>1 DEF AnyInit
<1>2. DedupInv /\ [DedupNext]_dedupVars => DedupInv'
  BY DedupStepKeeps
<1>3. QED
  BY <1>1, <1>2, PTL DEF DedupSpec

-----------------------------------------------------------------------------
(* What the linking of the archives relies on. *)

\* What the archives before index were built with is still in one of them.
LEMMA InvLosesNothing == DedupInv => NoObjectLost
<1> SUFFICES ASSUME DedupInv PROVE NoObjectLost
  OBVIOUS
<1>1. /\ DOMAIN built = 1 .. Len(built) /\ DOMAIN archives = DOMAIN built
      /\ Len(built) \in Nat /\ index \in 1 .. (Len(built) + 1)
  BY DEF DedupInv, DedupTypeOK
<1>2. ASSUME NEW i \in DOMAIN built PROVE Bodies(archives[i]) \subseteq Bodies(built[i])
  <2>1. i \in 1 .. (index - 1) \/ i \in index .. Len(built)
    BY <1>1
  <2>2. QED
    BY <2>1 DEF DedupInv, Walked, IsShare
<1>3. ASSUME NEW i \in DOMAIN built PROVE Bodies(built[i]) \subseteq Held(archives)
  <2>1. CASE i \in 1 .. (index - 1)
    <3>1. Bodies(built[i]) \subseteq Before(index)
      BY <2>1 DEF Before
    <3>2. Before(index) = UNION {Bodies(archives[j]) : j \in 1 .. (index - 1)}
      BY DEF DedupInv, Walked
    <3>3. 1 .. (index - 1) \subseteq DOMAIN archives
      BY <1>1
    <3>4. UNION {Bodies(archives[j]) : j \in 1 .. (index - 1)} \subseteq Held(archives)
      BY <3>3 DEF Held
    <3>5. QED
      BY <3>1, <3>2, <3>4
  <2>2. CASE i \in index .. Len(built)
    BY <1>1, <2>2 DEF DedupInv, Walked, Held
  <2>3. QED
    BY <1>1, <2>1, <2>2
<1>4. QED
  BY <1>1, <1>2, <1>3 DEF NoObjectLost, Held

\* No object is lost, at any moment, whatever fails.
THEOREM NoObjectLostHolds == DedupSpec => []NoObjectLost
<1>1. DedupInv => NoObjectLost
  BY InvLosesNothing
<1>2. QED
  BY DedupInductive, <1>1, PTL

\* The first archive that was built with an object still has it, at any moment.
THEOREM FirstOwnerKeepsHolds == DedupSpec => []FirstOwnerKeeps
<1>1. DedupInv => FirstOwnerKeeps
  <2> SUFFICES ASSUME DedupInv, NEW i \in DOMAIN archives, NEW x \in built[i],
                      \A j \in 1 .. (i - 1) : x.body \notin Bodies(built[j])
               PROVE  x.body \in Bodies(archives[i])
    BY DEF FirstOwnerKeeps
  <2>1. x.body \in Bodies(built[i]) /\ x.body \notin Before(i)
    BY DEF Bodies, Before
  <2>2. i \in 1 .. (index - 1) \/ i \in index .. Len(built)
    BY DEF DedupInv, DedupTypeOK
  <2>3. QED
    BY <2>1, <2>2 DEF DedupInv, Walked, IsShare
<1>2. QED
  BY DedupInductive, <1>1, PTL

\* At the end every archive holds its share, and shares have nothing in common.
LEMMA InvLinksOnce == DedupInv => LinkedOnce
<1> SUFFICES ASSUME DedupInv, dedup = "ok", Len(built) >= 2 PROVE LinkedOnce
  BY DEF LinkedOnce
<1>1. /\ Len(built) \in Nat /\ index = Len(built) + 1 /\ DOMAIN archives = 1 .. Len(built)
  BY DEF DedupInv, DedupProgress, DedupTypeOK
<1>2. \A i \in DOMAIN archives : IsShare(archives[i], i)
  BY <1>1 DEF DedupInv, Walked
<1>3. ASSUME NEW i \in DOMAIN archives, NEW j \in DOMAIN archives, i < j,
             NEW x \in archives[i], NEW y \in archives[j]
      PROVE  x.body # y.body
  <2>1. x.body \in Bodies(built[i]) /\ y.body \in Bodies(archives[j])
    BY <1>2 DEF IsShare, Bodies
  <2>2. y.body \notin Before(j)
    BY <1>2, <2>1 DEF IsShare
  <2>3. i \in 1 .. (j - 1)
    BY <1>1, <1>3
  <2>4. QED
    BY <2>1, <2>2, <2>3 DEF Before
<1>4. ASSUME NEW i \in DOMAIN archives, NEW j \in DOMAIN archives,
             NEW x \in archives[i], NEW y \in archives[j], x.body = y.body
      PROVE  i = j /\ x = y
  <2>1. i = j
    BY <1>1, <1>3, <1>4
  <2>2. QED
    BY <1>2, <1>4, <2>1 DEF IsShare
<1>5. QED
  BY <1>2, <1>4 DEF LinkedOnce, IsShare

\* After Ok every object is in one archive, once, and no archive is empty.
THEOREM LinkedOnceHolds == DedupSpec => []LinkedOnce
<1>1. DedupInv => LinkedOnce
  BY InvLinksOnce
<1>2. QED
  BY DedupInductive, <1>1, PTL

\* At every moment each object is with its first owner, and after Ok only there.
THEOREM EachObjectOnceHolds == DedupSpec => []EachObjectOnce
<1>1. DedupSpec => [](LinkedOnce /\ FirstOwnerKeeps)
  BY LinkedOnceHolds, FirstOwnerKeepsHolds, PTL
<1>2. QED
  BY <1>1 DEF EachObjectOnce

=============================================================================
