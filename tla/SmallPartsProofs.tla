------------------------- MODULE SmallPartsProofs --------------------------
(***************************************************************************)
(* The parts of MCSmallParts that have no other component to interact      *)
(* with.  validate_type_graph for any list of types: visit_type accepts no *)
(* types that contain one another and refuses nothing else, by the         *)
(* argument of a depth-first search: a type is finished only after its     *)
(* children are, and the calls in progress form a path of the graph.  The  *)
(* codecs made of accepted types read every byte once.                     *)
(* configure_set for any sets, answers and edits.  The names of the kernel *)
(* interface for any exports and rlibs.  The way from an ELF file to an    *)
(* image and to the listing of objdump: places become segments and         *)
(* offsets, imports numbers, and the laying out of the segments undoes it. *)
(***************************************************************************)
EXTENDS WireCodecs, ModuleConfig, KernelSymbols, NativeImage, TLAPS,
        SequenceTheorems, FiniteSetTheorems, NaturalsInduction, WellFoundedInduction

Kids(n) == Children(TypeOf(n))

\* The types checked so far name types of the file, and the walk starts after
\* all have been checked.
Checked ==
    /\ \A i \in 1 .. (at - 1) : NamesKnown(types[i])
    /\ judgement \in {"walking", "accepted", "cycle"} => at = Len(types) + 1

\* The children of a finished type were finished before it.
VisitedClosed ==
    \A i \in DOMAIN visited :
        \A c \in DOMAIN Kids(visited[i]) : \E j \in 1 .. (i - 1) : visited[j] = Kids(visited[i])[c]

\* Each call in progress is for the child its caller went to last.
StackIsPath ==
    \A i \in 1 .. (Len(stack) - 1) :
        /\ stack[i].next - 1 \in DOMAIN Kids(stack[i].type)
        /\ Kids(stack[i].type)[stack[i].next - 1] = stack[i + 1].type

\* The children a call has gone to are finished, except the one it is in.
ChildrenDone ==
    \A i \in DOMAIN stack : \A c \in DOMAIN Kids(stack[i].type) :
        c < stack[i].next =>
            \/ Kids(stack[i].type)[c] \in TypesIn(visited)
            \/ i < Len(stack) /\ c = stack[i].next - 1

AllVisited == judgement = "accepted" => names \subseteq TypesIn(visited)

GraphInv ==
    /\ GraphTypeOK /\ Checked /\ VisitedClosed /\ StackIsPath /\ ChildrenDone
    /\ AllVisited /\ RecursionIsReal

-----------------------------------------------------------------------------
(* The list of types. *)

\* A name of the file has a type: the first one of that name.
LEMMA TypeOfName ==
    ASSUME types \in Seq(TypeDef), NEW n \in Names
    PROVE  \E i \in DOMAIN types : TypeOf(n) = types[i]
<1> DEFINE Places == {i \in DOMAIN types : types[i].name = n}
<1>1. DOMAIN types = 1 .. Len(types) /\ Len(types) \in Nat
  OBVIOUS
<1>2. Places # {} /\ Places \subseteq Nat
  BY <1>1 DEF Names
<1>3. PICK i \in Places : \A j \in Places : ~(<<j, i>> \in OpToRel(<, Nat))
  BY <1>2, NatLessThanWellFounded, WFMin
<1>4. \A j \in 1 .. (i - 1) : types[j].name # n
  <2>1. ASSUME NEW j \in 1 .. (i - 1), types[j].name = n PROVE FALSE
    <3>1. i \in 1 .. Len(types) /\ j \in Nat /\ i \in Nat /\ j < i
      BY <1>1
    <3>2. j \in Places
      BY <1>1, <2>1, <3>1
    <3>3. <<j, i>> \in OpToRel(<, Nat)
      BY <3>1 DEF OpToRel
    <3>4. QED
      BY <1>3, <3>2, <3>3
  <2>2. QED
    BY <2>1
<1>5. \E k \in DOMAIN types : types[k].name = n /\ \A j \in 1 .. (k - 1) : types[j].name # n
  BY <1>4
<1>6. QED
  BY <1>5 DEF TypeOf

\* The children of a type are a sequence of names.
LEMMA ChildrenAreNames ==
    ASSUME NEW t \in TypeDef
    PROVE  Children(t) \in Seq(Nat)
<1>1. t.ref \in Nat /\ t.fields \in Seq([type : Nat, offset : Nat])
  BY DEF TypeDef
<1>2. <<t.ref>> \in Seq(Nat) /\ <<>> \in Seq(Nat)
  BY <1>1
<1>3. [k \in DOMAIN t.fields |-> t.fields[k].type] \in Seq(Nat)
  <2>1. Len(t.fields) \in Nat /\ DOMAIN t.fields = 1 .. Len(t.fields)
    BY <1>1
  <2>2. \A k \in 1 .. Len(t.fields) : t.fields[k] \in [type : Nat, offset : Nat]
    BY <1>1, ElementOfSeq
  <2>3. \A f \in [type : Nat, offset : Nat] : f.type \in Nat
    OBVIOUS
  <2>4. [k \in 1 .. Len(t.fields) |-> t.fields[k].type] \in [1 .. Len(t.fields) -> Nat]
    BY <2>2, <2>3
  <2>5. QED
    BY <2>1, <2>4, SeqDef
<1>4. QED
  BY <1>2, <1>3 DEF Children

\* Once the whole list is checked, every child is a type of the file.
LEMMA KidsKnown ==
    ASSUME GraphTypeOK, Checked, at = Len(types) + 1, NEW n \in names
    PROVE  /\ names = Names
           /\ Kids(n) \in Seq(Nat)
           /\ TypesIn(Kids(n)) \subseteq names
<1>1. types \in Seq(TypeDef) /\ Len(types) \in Nat /\ DOMAIN types = 1 .. Len(types)
  BY DEF GraphTypeOK
<1>2. names = Names
  BY <1>1 DEF GraphTypeOK, Names
<1>3. PICK i \in DOMAIN types : TypeOf(n) = types[i]
  BY <1>1, <1>2, TypeOfName
<1>4. types[i] \in TypeDef /\ i \in 1 .. (at - 1)
  BY <1>1
<1>5. Kids(n) \in Seq(Nat)
  BY <1>3, <1>4, ChildrenAreNames DEF Kids
<1>6. TypesIn(Kids(n)) \subseteq names
  BY <1>2, <1>3, <1>4 DEF Checked, NamesKnown, Kids
<1>7. QED
  BY <1>2, <1>5, <1>6

-----------------------------------------------------------------------------
(* The initial states and the checks. *)

LEMMA GraphStart ==
    ASSUME TypesAssumption, TypesInit
    PROVE  GraphInv
<1>1. types \in Seq(TypeDef) /\ Len(types) \in Nat
  BY DEF TypesInit, TypesAssumption
<1>2. GraphTypeOK
  BY <1>1 DEF TypesInit, GraphTypeOK
<1>3. Checked
  BY DEF TypesInit, Checked
<1>4. VisitedClosed /\ StackIsPath /\ ChildrenDone /\ AllVisited /\ RecursionIsReal
  BY DEF TypesInit, VisitedClosed, StackIsPath, ChildrenDone, AllVisited, RecursionIsReal
<1>5. QED
  BY <1>2, <1>3, <1>4 DEF GraphInv

\* The parts of the invariant about the walk, when the walk is left alone.
LEMMA WalkFrame ==
    ASSUME VisitedClosed, StackIsPath, ChildrenDone, UNCHANGED <<types, stack, visited>>
    PROVE  VisitedClosed' /\ StackIsPath' /\ ChildrenDone'
<1>1. \A n : Kids(n)' = Kids(n)
  BY DEF Kids, TypeOf
<1>2. QED
  BY <1>1 DEF VisitedClosed, StackIsPath, ChildrenDone, TypesIn

LEMMA CheckKeeps ==
    ASSUME GraphInv, Check
    PROVE  GraphInv'
<1>1. types \in Seq(TypeDef) /\ Len(types) \in Nat /\ DOMAIN types = 1 .. Len(types)
      /\ at \in 1 .. (Len(types) + 1) /\ judgement = "checking"
  BY DEF GraphInv, GraphTypeOK, Check, CheckType, RefuseType, Panic, StartWalk
<1>2. UNCHANGED <<types, stack, visited>>
  BY DEF Check, CheckType, RefuseType, Panic, StartWalk
<1>3. (VisitedClosed /\ StackIsPath /\ ChildrenDone)'
  BY <1>2, WalkFrame DEF GraphInv
<1>4. judgement' \in {"checking", "refused", "panic", "walking"}
  BY <1>1 DEF Check, CheckType, RefuseType, Panic, StartWalk
<1>5. AllVisited' /\ RecursionIsReal'
  BY <1>4 DEF AllVisited, RecursionIsReal
<1>6. CASE CheckType
  <2>1. at <= Len(types) /\ at' = at + 1 /\ names' = names \cup {types[at].name} /\ judgement' = judgement
        /\ NamesKnown(types[at]) /\ types' = types
    BY <1>6 DEF CheckType
  <2>2. at' \in 1 .. (Len(types') + 1)
    BY <1>1, <2>1
  <2>3. names' = {types[i].name : i \in 1 .. (at' - 1)}
    <3>1. 1 .. (at' - 1) = (1 .. (at - 1)) \cup {at}
      BY <1>1, <2>1
    <3>2. names = {types[i].name : i \in 1 .. (at - 1)}
      BY DEF GraphInv, GraphTypeOK
    <3>3. QED
      BY <2>1, <3>1, <3>2
  <2>4. stack' \in Seq([type : names', next : Nat \ {0}]) /\ visited' \in Seq(names')
    <3>1. names \subseteq names'
      BY <2>1
    <3>2. stack \in Seq([type : names, next : Nat \ {0}]) /\ visited \in Seq(names)
      BY DEF GraphInv, GraphTypeOK
    <3>3. [type : names, next : Nat \ {0}] \subseteq [type : names', next : Nat \ {0}]
      BY <3>1
    <3>4. stack \in Seq([type : names', next : Nat \ {0}])
      BY <3>2, <3>3, SeqMonotonic
    <3>5. visited \in Seq(names')
      BY <3>1, <3>2, SeqMonotonic
    <3>6. QED
      BY <1>2, <3>4, <3>5
  <2>5. GraphTypeOK'
    BY <1>1, <1>4, <2>1, <2>2, <2>3, <2>4 DEF GraphTypeOK
  <2>6. Checked'
    <3>1. \A i \in 1 .. (at' - 1) : NamesKnown(types[i])
      BY <1>1, <2>1 DEF GraphInv, Checked
    <3>2. \A t : NamesKnown(t)' = NamesKnown(t)
      BY <2>1 DEF NamesKnown, Names
    <3>3. QED
      BY <1>1, <2>1, <3>1, <3>2 DEF Checked
  <2>7. QED
    BY <1>3, <1>5, <2>5, <2>6 DEF GraphInv
<1>7. CASE RefuseType \/ Panic \/ StartWalk
  <2>1. UNCHANGED <<types, at, names, stack, visited>>
    BY <1>7 DEF RefuseType, Panic, StartWalk
  <2>2. GraphTypeOK'
    BY <1>4, <2>1 DEF GraphInv, GraphTypeOK, Done
  <2>3. judgement' = "walking" => at = Len(types) + 1
    BY <1>1, <1>7 DEF RefuseType, Panic, StartWalk
  <2>4. \A t : NamesKnown(t)' = NamesKnown(t)
    BY <2>1 DEF NamesKnown, Names
  <2>5. Checked'
    BY <1>4, <2>1, <2>3, <2>4 DEF GraphInv, Checked
  <2>6. QED
    BY <1>3, <1>5, <2>2, <2>5 DEF GraphInv
<1>8. QED
  BY <1>6, <1>7 DEF Check

-----------------------------------------------------------------------------
(* The walk. *)

\* The names of the types and their children do not change in the walk.
LEMMA WalkFixed ==
    ASSUME GraphInv, Walk
    PROVE  /\ UNCHANGED <<types, at, names>>
           /\ judgement = "walking" /\ at = Len(types) + 1
           /\ judgement' \in {"walking", "cycle", "accepted"}
           /\ \A n : Kids(n)' = Kids(n)
           /\ \A n \in names : Kids(n) \in Seq(Nat) /\ TypesIn(Kids(n)) \subseteq names
           /\ names = Names
           /\ Checked'
<1>1. UNCHANGED <<types, at, names>> /\ judgement = "walking" /\ judgement' \in {"walking", "cycle", "accepted"}
  BY DEF Walk, VisitRoot, SkipVisited, VisitChild, MeetCycle, Return, Accept, AtChild
<1>2. at = Len(types) + 1
  BY <1>1 DEF GraphInv, Checked
<1>3. \A n : Kids(n)' = Kids(n)
  BY <1>1 DEF Kids, TypeOf
<1>4. \A n \in names : Kids(n) \in Seq(Nat) /\ TypesIn(Kids(n)) \subseteq names
  BY <1>2, KidsKnown DEF GraphInv
<1>5. names = Names
  <2>1. types \in Seq(TypeDef) /\ Len(types) \in Nat /\ DOMAIN types = 1 .. Len(types)
    BY DEF GraphInv, GraphTypeOK
  <2>2. QED
    BY <1>2, <2>1 DEF GraphInv, GraphTypeOK, Names
<1>6. Checked'
  <2>1. \A t : NamesKnown(t)' = NamesKnown(t)
    BY <1>1 DEF NamesKnown, Names
  <2>2. QED
    BY <1>1, <1>2, <2>1 DEF GraphInv, Checked
<1>7. QED
  BY <1>1, <1>2, <1>3, <1>4, <1>5, <1>6

LEMMA RootKeeps ==
    ASSUME GraphInv, VisitRoot
    PROVE  GraphInv'
<1> USE WalkFixed DEF Walk
<1>1. PICK n \in names \ TypesIn(visited) : stack' = <<[type |-> n, next |-> 1]>>
  BY DEF VisitRoot
<1>2. UNCHANGED <<types, at, names, visited, judgement>> /\ judgement = "walking"
  BY DEF VisitRoot
<1>3. GraphTypeOK'
  <2>1. stack' \in Seq([type : names, next : Nat \ {0}])
    BY <1>1
  <2>2. QED
    BY <1>2, <2>1 DEF GraphInv, GraphTypeOK
<1>4. Len(stack') = 1 /\ DOMAIN stack' = {1} /\ stack'[1].next = 1
  BY <1>1
<1>5. StackIsPath'
  BY <1>4 DEF StackIsPath
<1>6. ChildrenDone'
  <2>1. \A c \in DOMAIN Kids(n) : ~(c < 1)
    <3>1. Kids(n) \in Seq(Nat)
      OBVIOUS
    <3>2. QED
      BY <3>1, LenProperties
  <2>2. stack'[1].type = n
    BY <1>1
  <2>3. QED
    BY <1>4, <2>1, <2>2 DEF ChildrenDone
<1>7. VisitedClosed'
  BY <1>2 DEF GraphInv, VisitedClosed
<1>8. AllVisited' /\ RecursionIsReal'
  BY <1>2 DEF AllVisited, RecursionIsReal
<1>9. QED
  BY <1>3, <1>5, <1>6, <1>7, <1>8 DEF GraphInv

\* The call in progress.
LEMMA TopFacts ==
    ASSUME GraphTypeOK, stack # <<>>
    PROVE  /\ Len(stack) \in Nat \ {0} /\ DOMAIN stack = 1 .. Len(stack)
           /\ \A i \in DOMAIN stack : stack[i].type \in names /\ stack[i].next \in Nat \ {0}
           /\ Top = stack[Len(stack)] /\ Top.type \in names /\ Top.next \in Nat \ {0}
<1>1. stack \in Seq([type : names, next : Nat \ {0}])
  BY DEF GraphTypeOK
<1>2. Len(stack) \in Nat \ {0} /\ DOMAIN stack = 1 .. Len(stack)
  BY <1>1, EmptySeq, LenProperties
<1>3. \A i \in DOMAIN stack : stack[i] \in [type : names, next : Nat \ {0}]
  BY <1>1, <1>2, ElementOfSeq
<1>4. \A s \in [type : names, next : Nat \ {0}] : s.type \in names /\ s.next \in Nat \ {0}
  OBVIOUS
<1>5. Len(stack) \in DOMAIN stack
  BY <1>2
<1>6. QED
  BY <1>2, <1>3, <1>4, <1>5 DEF Top

\* The stack after the call in progress goes on to its next child.
Advanced == [stack EXCEPT ![Len(stack)].next = Top.next + 1]

LEMMA AdvancedFacts ==
    ASSUME GraphTypeOK, stack # <<>>
    PROVE  /\ Advanced \in Seq([type : names, next : Nat \ {0}])
           /\ Len(Advanced) = Len(stack) /\ DOMAIN Advanced = DOMAIN stack
           /\ \A i \in DOMAIN stack :
                 /\ Advanced[i].type = stack[i].type
                 /\ Advanced[i].next = IF i = Len(stack) THEN Top.next + 1 ELSE stack[i].next
<1>1. stack \in Seq([type : names, next : Nat \ {0}])
  BY DEF GraphTypeOK
<1>2. Len(stack) \in 1 .. Len(stack) /\ DOMAIN stack = 1 .. Len(stack)
  BY TopFacts
<1> DEFINE new == [stack[Len(stack)] EXCEPT !.next = Top.next + 1]
<1>3. stack[Len(stack)] \in [type : names, next : Nat \ {0}]
  BY <1>1, <1>2, ElementOfSeq
<1>4. new \in [type : names, next : Nat \ {0}] /\ new.type = stack[Len(stack)].type /\ new.next = Top.next + 1
  BY <1>3, TopFacts
<1>5. Advanced = [stack EXCEPT ![Len(stack)] = new]
  BY DEF Advanced
<1> HIDE DEF new
<1>6. /\ Advanced \in Seq([type : names, next : Nat \ {0}])
      /\ Len(Advanced) = Len(stack)
      /\ \A i \in 1 .. Len(stack) : Advanced[i] = IF i = Len(stack) THEN new ELSE stack[i]
  BY <1>1, <1>2, <1>4, <1>5, ExceptSeq
<1>7. DOMAIN Advanced = DOMAIN stack
  BY <1>2, <1>6, LenProperties
<1>8. QED
  BY <1>2, <1>4, <1>6, <1>7

\* What a call has gone to: the children before the next one.
LEMMA AtChildFacts ==
    ASSUME GraphInv, AtChild
    PROVE  /\ Top.next \in DOMAIN Kids(Top.type)
           /\ NextChild = Kids(Top.type)[Top.next]
           /\ NextChild \in names
           /\ \A c \in DOMAIN Kids(Top.type) : c < Top.next => Kids(Top.type)[c] \in TypesIn(visited)
<1>1. stack # <<>> /\ GraphTypeOK /\ Checked /\ judgement = "walking"
  BY DEF AtChild, GraphInv
<1>2. at = Len(types) + 1
  BY <1>1 DEF Checked
<1>3. Kids(Top.type) \in Seq(Nat) /\ TypesIn(Kids(Top.type)) \subseteq names
  BY <1>1, <1>2, TopFacts, KidsKnown
<1>4. DOMAIN Kids(Top.type) = 1 .. Len(Kids(Top.type)) /\ Len(Kids(Top.type)) \in Nat
  BY <1>3, LenProperties
<1>5. Top.next <= Len(Kids(Top.type)) /\ NextChild = Kids(Top.type)[Top.next]
  BY DEF AtChild, NextChild, Kids
<1>6. Top.next \in DOMAIN Kids(Top.type)
  BY <1>1, <1>4, <1>5, TopFacts
<1>7. NextChild \in names
  BY <1>3, <1>5, <1>6 DEF TypesIn
<1>8. \A c \in DOMAIN Kids(Top.type) : c < Top.next => Kids(Top.type)[c] \in TypesIn(visited)
  <2>1. Len(stack) \in DOMAIN stack /\ Top = stack[Len(stack)] /\ ~(Len(stack) < Len(stack))
    BY <1>1, TopFacts
  <2>2. QED
    BY <2>1 DEF GraphInv, ChildrenDone
<1>9. QED
  BY <1>5, <1>6, <1>7, <1>8

LEMMA SkipKeeps ==
    ASSUME GraphInv, SkipVisited
    PROVE  GraphInv'
<1>0. /\ \A n : Kids(n)' = Kids(n)
      /\ \A n \in names : Kids(n) \in Seq(Nat)
      /\ Checked'
  BY WalkFixed DEF Walk
<1>1. AtChild /\ NextChild \in TypesIn(visited) /\ stack' = Advanced
      /\ UNCHANGED <<types, at, names, visited, judgement>>
  BY DEF SkipVisited, Advanced
<1>2. stack # <<>> /\ GraphTypeOK /\ judgement = "walking"
  BY <1>1 DEF AtChild, GraphInv
<1>3. GraphTypeOK'
  BY <1>1, <1>2, AdvancedFacts DEF GraphTypeOK
<1>4. StackIsPath'
  <2>1. ASSUME NEW i \in 1 .. (Len(stack) - 1)
        PROVE  Advanced[i].next = stack[i].next /\ Advanced[i].type = stack[i].type
               /\ Advanced[i + 1].type = stack[i + 1].type
    <3> DEFINE top == Len(stack)
    <3>a. top \in Nat \ {0} /\ DOMAIN stack = 1 .. top
      BY <1>2, TopFacts
    <3> HIDE DEF top
    <3>b. i \in 1 .. (top - 1)
      BY DEF top
    <3>1. i \in DOMAIN stack /\ i + 1 \in DOMAIN stack /\ i # top
      BY <3>a, <3>b
    <3>2. QED
      BY <1>2, <3>1, AdvancedFacts DEF top
  <2>2. Len(Advanced) = Len(stack)
    BY <1>2, AdvancedFacts
  <2>3. QED
    BY <1>0, <1>1, <2>1, <2>2 DEF GraphInv, StackIsPath
<1>5. ChildrenDone'
  <2>1. SUFFICES ASSUME NEW i \in DOMAIN stack, NEW c \in DOMAIN Kids(stack[i].type), c < Advanced[i].next
                 PROVE  Kids(stack[i].type)[c] \in TypesIn(visited) \/ (i < Len(stack) /\ c = Advanced[i].next - 1)
    <3>1. DOMAIN Advanced = DOMAIN stack /\ Len(Advanced) = Len(stack)
          /\ \A i \in DOMAIN stack : Advanced[i].type = stack[i].type
      BY <1>2, AdvancedFacts
    <3>2. TypesIn(visited)' = TypesIn(visited)
      BY <1>1 DEF TypesIn
    <3>3. QED
      BY <1>0, <1>1, <3>1, <3>2 DEF ChildrenDone
  <2>2. CASE i = Len(stack)
    <3>1. Advanced[i].next = Top.next + 1 /\ stack[i].type = Top.type /\ Top.next \in Nat
      BY <1>2, <2>2, AdvancedFacts, TopFacts
    <3>2. CASE c < Top.next
      <4>1. c \in DOMAIN Kids(Top.type)
        BY <3>1
      <4>2. Kids(Top.type)[c] \in TypesIn(visited)
        BY <1>1, <3>2, <4>1, AtChildFacts
      <4>3. QED
        BY <3>1, <4>2
    <3>3. CASE c = Top.next
      <4>1. Kids(Top.type)[c] \in TypesIn(visited)
        BY <1>1, <3>3, AtChildFacts
      <4>2. QED
        BY <3>1, <4>1
    <3>4. c \in Nat
      <4>1. Kids(stack[i].type) \in Seq(Nat)
        BY <1>0, <1>2, TopFacts
      <4>2. QED
        BY <4>1, LenProperties
    <3>5. QED
      BY <2>1, <3>1, <3>2, <3>3, <3>4
  <2>3. CASE i # Len(stack)
    <3>1. Advanced[i].next = stack[i].next
      BY <1>2, <2>3, AdvancedFacts
    <3>2. c < stack[i].next
      BY <2>1, <3>1
    <3>3. \/ Kids(stack[i].type)[c] \in TypesIn(visited)
          \/ i < Len(stack) /\ c = stack[i].next - 1
      BY <3>2 DEF GraphInv, ChildrenDone
    <3>4. QED
      BY <3>1, <3>3
  <2>4. QED
    BY <2>2, <2>3
<1>6. VisitedClosed'
  BY <1>0, <1>1 DEF GraphInv, VisitedClosed
<1>7. AllVisited' /\ RecursionIsReal'
  BY <1>1, <1>2 DEF AllVisited, RecursionIsReal
<1>8. QED
  BY <1>0, <1>3, <1>4, <1>5, <1>6, <1>7 DEF GraphInv

LEMMA CallKeeps ==
    ASSUME GraphInv, VisitChild
    PROVE  GraphInv'
<1>0. /\ \A n : Kids(n)' = Kids(n)
      /\ \A n \in names : Kids(n) \in Seq(Nat)
      /\ Checked'
  BY WalkFixed DEF Walk
<1> DEFINE call == [type |-> NextChild, next |-> 1]
           top == Len(stack)
<1>1. AtChild /\ stack' = Append(Advanced, call) /\ UNCHANGED <<types, at, names, visited, judgement>>
  BY DEF VisitChild, Advanced
<1>2. stack # <<>> /\ GraphTypeOK /\ judgement = "walking"
  BY <1>1 DEF AtChild, GraphInv
<1>3. call \in [type : names, next : Nat \ {0}] /\ call.type = NextChild /\ call.next = 1
  BY <1>1, AtChildFacts
<1>4. top \in Nat \ {0} /\ DOMAIN stack = 1 .. top
  BY <1>2, TopFacts
<1>5. Advanced \in Seq([type : names, next : Nat \ {0}]) /\ Len(Advanced) = top
  BY <1>2, AdvancedFacts
<1> HIDE DEF call, top
<1>6. /\ stack' \in Seq([type : names, next : Nat \ {0}])
      /\ Len(stack') = top + 1
      /\ DOMAIN stack' = 1 .. (top + 1)
      /\ \A i \in 1 .. (top + 1) : stack'[i] = IF i <= top THEN Advanced[i] ELSE call
  BY <1>1, <1>3, <1>4, <1>5, AppendProperties, LenProperties
\* What the new stack holds, by place.
<1>7. \A i \in 1 .. (top - 1) : stack'[i].type = stack[i].type /\ stack'[i].next = stack[i].next
  <2>1. ASSUME NEW i \in 1 .. (top - 1)
        PROVE  stack'[i].type = stack[i].type /\ stack'[i].next = stack[i].next
    <3>1. i \in DOMAIN stack /\ i # top /\ i \in 1 .. (top + 1) /\ i <= top
      BY <1>4
    <3>2. stack'[i] = Advanced[i]
      BY <1>6, <3>1
    <3>3. QED
      BY <1>2, <3>1, <3>2, AdvancedFacts DEF top
  <2>2. QED
    BY <2>1
<1>8. stack'[top].type = Top.type /\ stack'[top].next = Top.next + 1
  <2>1. top \in DOMAIN stack /\ top \in 1 .. (top + 1) /\ top <= top
    BY <1>4
  <2>2. stack'[top] = Advanced[top]
    BY <1>6, <2>1
  <2>3. stack[top].type = Top.type
    BY <1>2, TopFacts DEF top
  <2>4. QED
    BY <1>2, <2>1, <2>2, <2>3, AdvancedFacts DEF top
<1>9. stack'[top + 1].type = NextChild /\ stack'[top + 1].next = 1
  BY <1>3, <1>4, <1>6
<1>10. /\ Top.next \in DOMAIN Kids(Top.type) /\ Top.next \in Nat \ {0}
       /\ NextChild = Kids(Top.type)[Top.next]
       /\ \A c \in DOMAIN Kids(Top.type) : c < Top.next => Kids(Top.type)[c] \in TypesIn(visited)
  BY <1>1, <1>2, AtChildFacts, TopFacts
<1>11. GraphTypeOK'
  BY <1>1, <1>2, <1>6 DEF GraphTypeOK
<1>12. StackIsPath'
  <2>1. ASSUME NEW i \in 1 .. top
        PROVE  /\ stack'[i].next - 1 \in DOMAIN Kids(stack'[i].type)
               /\ Kids(stack'[i].type)[stack'[i].next - 1] = stack'[i + 1].type
    <3>1. CASE i = top
      <4>1. stack'[i].next - 1 = Top.next
        BY <1>8, <1>10, <3>1
      <4>2. QED
        BY <1>8, <1>9, <1>10, <3>1, <4>1
    <3>2. CASE i # top
      <4>1. i \in 1 .. (top - 1)
        BY <1>4, <3>2
      <4>2. /\ stack[i].next - 1 \in DOMAIN Kids(stack[i].type)
            /\ Kids(stack[i].type)[stack[i].next - 1] = stack[i + 1].type
        BY <4>1 DEF GraphInv, StackIsPath, top
      <4>3. stack'[i + 1].type = stack[i + 1].type
        <5>1. CASE i + 1 = top
          BY <1>2, <1>8, <5>1, TopFacts DEF top
        <5>2. CASE i + 1 # top
          <6>1. i + 1 \in 1 .. (top - 1)
            BY <1>4, <4>1, <5>2
          <6>2. QED
            BY <1>7, <6>1
        <5>3. QED
          BY <5>1, <5>2
      <4>4. QED
        BY <1>7, <4>1, <4>2, <4>3
    <3>3. QED
      BY <3>1, <3>2
  <2>2. Len(stack') - 1 = top
    BY <1>4, <1>6
  <2>3. QED
    BY <1>0, <2>1, <2>2 DEF StackIsPath
<1>13. ChildrenDone'
  <2>1. SUFFICES ASSUME NEW i \in 1 .. (top + 1), NEW c \in DOMAIN Kids(stack'[i].type), c < stack'[i].next
                 PROVE  \/ Kids(stack'[i].type)[c] \in TypesIn(visited)
                        \/ i < top + 1 /\ c = stack'[i].next - 1
    <3>1. TypesIn(visited)' = TypesIn(visited)
      BY <1>1 DEF TypesIn
    <3>2. QED
      BY <1>0, <1>6, <3>1 DEF ChildrenDone
  <2>2. c \in Nat \ {0}
    <3>1. stack'[i].type \in names
      <4>1. stack'[i] \in [type : names, next : Nat \ {0}]
        BY <1>6, ElementOfSeq
      <4>2. QED
        BY <4>1
    <3>2. Kids(stack'[i].type) \in Seq(Nat)
      BY <1>0, <3>1
    <3>3. QED
      BY <3>2, LenProperties
  <2>3. CASE i = top + 1
    BY <1>9, <2>1, <2>2, <2>3
  <2>4. CASE i = top
    <3>1. stack'[i].next = Top.next + 1 /\ stack'[i].type = Top.type /\ i < top + 1
      BY <1>4, <1>8, <2>4
    <3>2. c = Top.next \/ c < Top.next
      BY <1>10, <2>1, <2>2, <3>1
    <3>3. c \in DOMAIN Kids(Top.type)
      BY <3>1
    <3>4. CASE c < Top.next
      BY <1>10, <3>1, <3>3, <3>4
    <3>5. CASE c = Top.next
      BY <1>10, <3>1, <3>5
    <3>6. QED
      BY <3>2, <3>4, <3>5
  <2>5. CASE i < top
    <3>1. i \in 1 .. (top - 1) /\ i \in DOMAIN stack
      BY <1>4, <2>5
    <3>2. stack'[i].type = stack[i].type /\ stack'[i].next = stack[i].next
      BY <1>7, <3>1
    <3>3. \/ Kids(stack[i].type)[c] \in TypesIn(visited)
          \/ i < Len(stack) /\ c = stack[i].next - 1
      BY <2>1, <3>1, <3>2 DEF GraphInv, ChildrenDone
    <3>4. i < top + 1
      BY <1>4, <3>1
    <3>5. QED
      BY <3>2, <3>3, <3>4
  <2>6. QED
    BY <1>4, <2>3, <2>4, <2>5
<1>14. VisitedClosed'
  BY <1>0, <1>1 DEF GraphInv, VisitedClosed
<1>15. AllVisited' /\ RecursionIsReal'
  BY <1>1, <1>2 DEF AllVisited, RecursionIsReal
<1>16. QED
  BY <1>0, <1>11, <1>12, <1>13, <1>14, <1>15 DEF GraphInv

\* The calls from the child on contain one another: each is for a child of
\* the one before it, and the child in question is one of the last.
LEMMA CycleKeeps ==
    ASSUME GraphInv, MeetCycle
    PROVE  GraphInv'
<1>0. /\ \A n : Kids(n)' = Kids(n)
      /\ Checked' /\ names = Names
  BY WalkFixed DEF Walk
<1>1. AtChild /\ NextChild \in OnStack /\ judgement' = "cycle" /\ UNCHANGED <<types, at, names, stack, visited>>
  BY DEF MeetCycle
<1>2. stack # <<>> /\ GraphTypeOK
  BY <1>1 DEF AtChild, GraphInv
<1>3. Len(stack) \in Nat \ {0} /\ DOMAIN stack = 1 .. Len(stack)
      /\ \A i \in DOMAIN stack : stack[i].type \in names
      /\ Top.type = stack[Len(stack)].type
  BY <1>2, TopFacts
<1>4. PICK k \in DOMAIN stack : NextChild = stack[k].type
  BY <1>1 DEF OnStack
<1> DEFINE S == {stack[i].type : i \in k .. Len(stack)}
<1>5. S \subseteq Names /\ S # {}
  <2>1. k .. Len(stack) \subseteq DOMAIN stack /\ k \in k .. Len(stack)
    BY <1>3
  <2>2. QED
    BY <1>0, <1>3, <2>1
<1>6. ASSUME NEW n \in S PROVE TypesIn(Children(TypeOf(n))) \cap S # {}
  <2>1. PICK i \in k .. Len(stack) : n = stack[i].type
    OBVIOUS
  <2>2. CASE i = Len(stack)
    <3>1. NextChild = Kids(n)[Top.next] /\ Top.next \in DOMAIN Kids(n)
      BY <1>1, <1>3, <2>1, <2>2, AtChildFacts
    <3>2. NextChild \in S
      BY <1>3, <1>4
    <3>3. QED
      BY <3>1, <3>2 DEF TypesIn, Kids
  <2>3. CASE i # Len(stack)
    <3>1. i \in 1 .. (Len(stack) - 1) /\ i + 1 \in k .. Len(stack)
      BY <1>3, <2>3
    <3>2. stack[i].next - 1 \in DOMAIN Kids(n) /\ Kids(n)[stack[i].next - 1] = stack[i + 1].type
      BY <2>1, <3>1 DEF GraphInv, StackIsPath
    <3>3. stack[i + 1].type \in S
      BY <3>1
    <3>4. QED
      BY <3>2, <3>3 DEF TypesIn, Kids
  <2>4. QED
    BY <2>2, <2>3
<1>7. S \in SUBSET Names /\ S # {} /\ Endless(S)
  BY <1>5, <1>6 DEF Endless
<1>8. RecursionIsReal'
  <2>1. \E T \in SUBSET Names : T # {} /\ Endless(T)
    BY <1>7
  <2>2. Names' = Names /\ \A T : Endless(T)' = Endless(T)
    BY <1>1 DEF Names, Endless, TypeOf
  <2>3. QED
    BY <2>1, <2>2 DEF RecursionIsReal
<1>9. GraphTypeOK'
  BY <1>1, <1>2 DEF GraphTypeOK, Done
<1>10. (VisitedClosed /\ StackIsPath /\ ChildrenDone)'
  BY <1>1, WalkFrame DEF GraphInv
<1>11. AllVisited'
  BY <1>1 DEF AllVisited
<1>12. QED
  BY <1>0, <1>8, <1>9, <1>10, <1>11 DEF GraphInv

LEMMA ReturnKeeps ==
    ASSUME GraphInv, Return
    PROVE  GraphInv'
<1>0. /\ \A n : Kids(n)' = Kids(n)
      /\ \A n \in names : Kids(n) \in Seq(Nat)
      /\ Checked'
  BY WalkFixed DEF Walk
<1> DEFINE top == Len(stack)
           done == Len(visited)
<1>1. /\ stack # <<>> /\ Top.next > Len(Kids(Top.type)) /\ judgement = "walking"
      /\ visited' = Append(visited, Top.type) /\ stack' = SubSeq(stack, 1, top - 1)
      /\ UNCHANGED <<types, at, names, judgement>>
  BY DEF Return, Kids
<1>2. GraphTypeOK /\ VisitedClosed /\ StackIsPath /\ ChildrenDone
  BY DEF GraphInv
<1>3. top \in Nat \ {0} /\ DOMAIN stack = 1 .. top /\ Top = stack[top] /\ Top.type \in names
      /\ Top.next \in Nat \ {0}
      /\ \A i \in DOMAIN stack : stack[i].type \in names
  BY <1>1, <1>2, TopFacts
<1>4. visited \in Seq(names) /\ done \in Nat /\ DOMAIN visited = 1 .. done
  BY <1>2, LenProperties DEF GraphTypeOK
<1> HIDE DEF top, done
<1>5. /\ stack' \in Seq([type : names, next : Nat \ {0}])
      /\ Len(stack') = top - 1
      /\ DOMAIN stack' = 1 .. (top - 1)
      /\ \A i \in 1 .. (top - 1) : stack'[i] = stack[i]
  <2>1. stack \in Seq([type : names, next : Nat \ {0}])
    BY <1>2 DEF GraphTypeOK
  <2>2. \A i \in 1 .. (top - 1) : i \in 1 .. Len(stack)
    BY <1>3 DEF top
  <2>3. \A i \in 1 .. (top - 1) : stack[i] \in [type : names, next : Nat \ {0}]
    BY <2>1, <2>2, ElementOfSeq
  <2>4. 1 \in Int /\ top - 1 \in Int /\ top - 1 - 1 + 1 = top - 1 /\ (1 > top - 1 => top - 1 = 0)
    BY <1>3
  <2>5. /\ SubSeq(stack, 1, top - 1) \in Seq([type : names, next : Nat \ {0}])
        /\ Len(SubSeq(stack, 1, top - 1)) = IF 1 <= top - 1 THEN top - 1 - 1 + 1 ELSE 0
        /\ \A i \in 1 .. (top - 1 - 1 + 1) : SubSeq(stack, 1, top - 1)[i] = stack[1 + i - 1]
    BY <2>3, <2>4, SubSeqProperties
  <2>6. Len(SubSeq(stack, 1, top - 1)) = top - 1
    BY <2>4, <2>5
  <2>7. \A i \in 1 .. (top - 1) : SubSeq(stack, 1, top - 1)[i] = stack[i]
    <3>1. \A i \in 1 .. (top - 1) : 1 + i - 1 = i
      OBVIOUS
    <3>2. QED
      BY <2>4, <2>5, <3>1
  <2>8. QED
    BY <1>1, <2>5, <2>6, <2>7, LenProperties
<1>6. /\ visited' \in Seq(names) /\ Len(visited') = done + 1 /\ DOMAIN visited' = 1 .. (done + 1)
      /\ visited'[done + 1] = Top.type
      /\ \A i \in 1 .. done : visited'[i] = visited[i]
  BY <1>1, <1>3, <1>4, AppendProperties, LenProperties DEF done
<1>7. TypesIn(visited) \subseteq TypesIn(visited)' /\ Top.type \in TypesIn(visited)'
  <2>1. \A i \in DOMAIN visited : i \in DOMAIN visited' /\ visited'[i] = visited[i]
    BY <1>4, <1>6
  <2>2. done + 1 \in DOMAIN visited'
    BY <1>4, <1>6
  <2>3. QED
    BY <1>6, <2>1, <2>2 DEF TypesIn
<1>8. GraphTypeOK'
  BY <1>1, <1>2, <1>5, <1>6 DEF GraphTypeOK
<1>9. StackIsPath'
  <2>1. ASSUME NEW i \in 1 .. (top - 1 - 1)
        PROVE  /\ stack'[i].next - 1 \in DOMAIN Kids(stack'[i].type)
               /\ Kids(stack'[i].type)[stack'[i].next - 1] = stack'[i + 1].type
    <3>1. i \in 1 .. (top - 1) /\ i + 1 \in 1 .. (top - 1)
      BY <1>3
    <3>2. stack'[i] = stack[i] /\ stack'[i + 1] = stack[i + 1]
      BY <1>5, <3>1
    <3>3. /\ stack[i].next - 1 \in DOMAIN Kids(stack[i].type)
          /\ Kids(stack[i].type)[stack[i].next - 1] = stack[i + 1].type
      BY <1>2, <3>1 DEF StackIsPath, top
    <3>4. QED
      BY <3>2, <3>3
  <2>2. QED
    BY <1>0, <1>5, <2>1 DEF StackIsPath
<1>10. ChildrenDone'
  <2>1. SUFFICES ASSUME NEW i \in 1 .. (top - 1), NEW c \in DOMAIN Kids(stack[i].type), c < stack[i].next
                 PROVE  \/ Kids(stack[i].type)[c] \in TypesIn(visited)'
                        \/ i < top - 1 /\ c = stack[i].next - 1
    BY <1>0, <1>5 DEF ChildrenDone
  <2>2. i \in DOMAIN stack
    BY <1>3
  <2>3. CASE Kids(stack[i].type)[c] \in TypesIn(visited)
    BY <1>7, <2>3
  <2>4. CASE c = stack[i].next - 1 /\ i = top - 1
    <3>1. Kids(stack[i].type)[stack[i].next - 1] = stack[i + 1].type
      BY <1>2 DEF StackIsPath, top
    <3>2. stack[i + 1] = Top
      BY <1>3, <2>4
    <3>3. QED
      BY <1>7, <2>4, <3>1, <3>2
  <2>5. \/ Kids(stack[i].type)[c] \in TypesIn(visited)
        \/ c = stack[i].next - 1
    BY <1>2, <2>1, <2>2 DEF ChildrenDone
  <2>6. i < top - 1 \/ i = top - 1
    BY <1>3
  <2>7. QED
    BY <2>3, <2>4, <2>5, <2>6
<1>11. VisitedClosed'
  <2>1. ASSUME NEW i \in 1 .. (done + 1), NEW c \in DOMAIN Kids(visited'[i])
        PROVE  \E j \in 1 .. (i - 1) : visited'[j] = Kids(visited'[i])[c]
    <3>1. CASE i \in 1 .. done
      <4>1. visited'[i] = visited[i] /\ i \in DOMAIN visited
        BY <1>4, <1>6, <3>1
      <4>2. PICK j \in 1 .. (i - 1) : visited[j] = Kids(visited[i])[c]
        BY <1>2, <4>1 DEF VisitedClosed
      <4>3. j \in 1 .. done
        BY <1>4, <3>1
      <4>4. visited'[j] = visited[j]
        BY <1>6, <4>3
      <4>5. QED
        BY <4>1, <4>2, <4>4
    <3>2. CASE i = done + 1
      <4>1. visited'[i] = Top.type
        BY <1>6, <3>2
      <4>2. Kids(Top.type) \in Seq(Nat)
        BY <1>0, <1>3
      <4>3. c \in 1 .. Len(Kids(Top.type)) /\ Len(Kids(Top.type)) \in Nat
        BY <4>1, <4>2, LenProperties
      <4>4. c < stack[top].next /\ c \in DOMAIN Kids(stack[top].type) /\ top \in DOMAIN stack
        BY <1>1, <1>3, <4>1, <4>3
      <4>5. \/ Kids(stack[top].type)[c] \in TypesIn(visited)
            \/ top < top
        BY <1>2, <4>4 DEF ChildrenDone, top
      <4>6. Kids(Top.type)[c] \in TypesIn(visited)
        BY <1>3, <4>5
      <4>7. PICK j \in 1 .. done : visited[j] = Kids(Top.type)[c]
        BY <1>4, <4>6 DEF TypesIn
      <4>8. j \in 1 .. (i - 1) /\ visited'[j] = visited[j]
        BY <1>4, <1>6, <3>2
      <4>9. QED
        BY <4>1, <4>7, <4>8
    <3>3. QED
      BY <1>4, <3>1, <3>2
  <2>2. QED
    BY <1>0, <1>6, <2>1 DEF VisitedClosed
<1>12. AllVisited' /\ RecursionIsReal'
  BY <1>1 DEF AllVisited, RecursionIsReal
<1>13. QED
  BY <1>0, <1>8, <1>9, <1>10, <1>11, <1>12 DEF GraphInv

LEMMA AcceptKeeps ==
    ASSUME GraphInv, Accept
    PROVE  GraphInv'
<1>1. /\ judgement' = "accepted" /\ names \subseteq TypesIn(visited)
      /\ UNCHANGED <<types, at, names, stack, visited>>
  BY DEF Accept
<1>2. Checked'
  BY WalkFixed DEF Walk
<1>3. GraphTypeOK'
  BY <1>1 DEF GraphInv, GraphTypeOK, Done
<1>4. (VisitedClosed /\ StackIsPath /\ ChildrenDone)'
  BY <1>1, WalkFrame DEF GraphInv
<1>5. AllVisited' /\ RecursionIsReal'
  BY <1>1 DEF AllVisited, RecursionIsReal, TypesIn
<1>6. QED
  BY <1>2, <1>3, <1>4, <1>5 DEF GraphInv

-----------------------------------------------------------------------------
(* The theorems. *)

\* The invariant of validate_type_graph: where its two loops and the recursion
\* of visit_type are, for any list of types.
THEOREM GraphInductive == TypesSpec => []GraphInv
<1>1. TypesInit => GraphInv
  BY GraphStart, TypesAssumption
<1>2. GraphInv /\ [TypesNext]_typesVars => GraphInv'
  <2>1. ASSUME GraphInv, TypesNext PROVE GraphInv'
    BY <2>1, CheckKeeps, RootKeeps, SkipKeeps, CallKeeps, CycleKeeps, ReturnKeeps, AcceptKeeps DEF TypesNext, Walk
  <2>2. ASSUME GraphInv, UNCHANGED typesVars PROVE GraphInv'
    <3>1. UNCHANGED <<types, at, names, stack, visited, judgement>>
      BY <2>2 DEF typesVars
    <3>2. (VisitedClosed /\ StackIsPath /\ ChildrenDone)'
      BY <2>2, <3>1, WalkFrame DEF GraphInv
    <3>3. GraphTypeOK' /\ AllVisited'
      BY <2>2, <3>1 DEF GraphInv, GraphTypeOK, AllVisited, TypesIn
    <3>4. Checked'
      <4>1. \A t : NamesKnown(t)' = NamesKnown(t)
        BY <3>1 DEF NamesKnown, Names
      <4>2. QED
        BY <2>2, <3>1, <4>1 DEF GraphInv, Checked
    <3>5. RecursionIsReal'
      <4>1. Names' = Names /\ \A T : Endless(T)' = Endless(T)
        BY <3>1 DEF Names, Endless, TypeOf
      <4>2. QED
        BY <2>2, <3>1, <4>1 DEF GraphInv, RecursionIsReal
    <3>6. QED
      BY <3>2, <3>3, <3>4, <3>5 DEF GraphInv
  <2>3. QED
    BY <2>1, <2>2
<1>3. QED
  BY <1>1, <1>2, PTL DEF TypesSpec

\* visit_type: types that contain one another are never accepted.  The one of
\* them that was finished first has a child among them, finished before it.
THEOREM AcceptedEndsHolds == TypesSpec => []AcceptedEnds
<1>1. GraphInv => AcceptedEnds
  <2>1. SUFFICES ASSUME GraphInv, judgement = "accepted", NEW S \in SUBSET Names, S # {}, Endless(S)
                 PROVE  FALSE
    BY DEF AcceptedEnds
  <2>2. at = Len(types) + 1 /\ types \in Seq(TypeDef) /\ names = {types[i].name : i \in 1 .. (at - 1)}
    BY <2>1 DEF GraphInv, Checked, GraphTypeOK
  <2>3. names = Names
    <3>1. DOMAIN types = 1 .. Len(types) /\ Len(types) \in Nat
      BY <2>2
    <3>2. QED
      BY <2>2, <3>1 DEF Names
  <2>4. S \subseteq TypesIn(visited)
    BY <2>1, <2>3 DEF GraphInv, AllVisited
  <2>5. DOMAIN visited = 1 .. Len(visited) /\ Len(visited) \in Nat
    BY <2>1, LenProperties DEF GraphInv, GraphTypeOK
  <2> DEFINE Places == {i \in DOMAIN visited : visited[i] \in S}
  <2>6. Places # {} /\ Places \subseteq Nat
    BY <2>1, <2>4, <2>5 DEF TypesIn
  <2>7. PICK i \in Places : \A j \in Places : ~(<<j, i>> \in OpToRel(<, Nat))
    BY <2>6, NatLessThanWellFounded, WFMin
  <2>8. PICK c \in DOMAIN Kids(visited[i]) : Kids(visited[i])[c] \in S
    BY <2>1 DEF Endless, TypesIn, Kids
  <2>9. PICK j \in 1 .. (i - 1) : visited[j] = Kids(visited[i])[c]
    BY <2>1 DEF GraphInv, VisitedClosed
  <2>10. j \in Places /\ <<j, i>> \in OpToRel(<, Nat)
    <3>1. i \in 1 .. Len(visited) /\ j \in Nat /\ i \in Nat /\ j < i /\ j \in DOMAIN visited
      BY <2>5
    <3>2. QED
      BY <2>8, <2>9, <3>1 DEF OpToRel
  <2>11. QED
    BY <2>7, <2>10
<1>2. QED
  BY <1>1, GraphInductive, PTL

\* visit_type: a file is refused for a cycle only if it has one, the calls in
\* progress from the child on.
THEOREM RecursionIsRealHolds == TypesSpec => []RecursionIsReal
<1>1. GraphInv => RecursionIsReal
  BY DEF GraphInv
<1>2. QED
  BY <1>1, GraphInductive, PTL

\* A list of types is refused as recursive just when it is.
THEOREM CyclesFoundHolds == TypesSpec => []CyclesFound
<1>1. TypesSpec => [](AcceptedEnds /\ RecursionIsReal)
  BY AcceptedEndsHolds, RecursionIsRealHolds, PTL
<1>2. QED
  BY <1>1 DEF CyclesFound

\* The types of the variables of the validation.
THEOREM TypesTypeCorrect == TypesSpec => []GraphTypeOK
<1>1. GraphInv => GraphTypeOK
  BY DEF GraphInv
<1>2. QED
  BY <1>1, GraphInductive, PTL

-----------------------------------------------------------------------------
(* The spans of a codec. *)

\* A multiple of an alignment is one of every smaller alignment.
LEMMA AlignDivides ==
    ASSUME NEW a \in Align, NEW p \in Align, p <= a, NEW y \in Nat, y % a = 0, NEW x \in Nat, x % p = 0
    PROVE  (x + y) % p = 0
<1>1. \A q \in {1, 2, 4, 8, 16, 32, 64} : q = p => y % q = 0
  BY SMTT(60) DEF Align
<1>2. y % p = 0
  BY <1>1 DEF Align
<1>3. QED
  BY <1>2, SMTT(60) DEF Align

\* Elements of an array start at multiples of what their stride is a multiple of.
LEMMA StrideAligned ==
    ASSUME NEW a \in Align, NEW stride \in Nat, stride % a = 0, NEW m \in Nat
    PROVE  m * stride \in Nat /\ (m * stride) % a = 0
<1> DEFINE q == stride \div a
<1>1. q \in Nat /\ stride = a * q
  BY SMTT(60) DEF Align
<1>2. m * q \in Nat /\ m * stride = a * (m * q)
  BY <1>1, SMTT(60) DEF Align
<1> DEFINE p == m * q
<1>3. \A r \in Nat : (a * r) % a = 0
  BY SMTT(60) DEF Align
<1>4. QED
  BY <1>2, <1>3

Steps == [from : Nat, to : Nat, part : Nat]

\* A codec's steps go over the bytes from a to b from the front, and decode
\* scalars aligned to at most A at multiples of their alignment.
Touching(s) == \A i \in 1 .. (Len(s) - 1) : s[i].to = s[i + 1].from
Aligned(s, A) ==
    \A i \in 1 .. Len(s) :
        /\ s[i].from < s[i].to
        /\ s[i].part # 0 => s[i].part \in Align /\ s[i].part <= A /\ s[i].from % s[i].part = 0
Ends(s, a, b) == IF s = <<>> THEN a = b ELSE s[1].from = a /\ s[Len(s)].to = b
Covers(s, a, b, A) == s \in Seq(Steps) /\ Touching(s) /\ Aligned(s, A) /\ Ends(s, a, b)

\* What a sequence of steps is made of.
LEMMA StepsFacts ==
    ASSUME NEW s \in Seq(Steps)
    PROVE  /\ Len(s) \in Nat /\ DOMAIN s = 1 .. Len(s) /\ (s = <<>> <=> Len(s) = 0)
           /\ \A i \in 1 .. Len(s) : s[i] \in Steps /\ s[i].from \in Nat /\ s[i].to \in Nat /\ s[i].part \in Nat
<1>1. Len(s) \in Nat /\ DOMAIN s = 1 .. Len(s) /\ (s = <<>> <=> Len(s) = 0)
  BY EmptySeq, LenProperties
<1>2. \A i \in 1 .. Len(s) : s[i] \in Steps
  BY ElementOfSeq
<1>3. \A x \in Steps : x.from \in Nat /\ x.to \in Nat /\ x.part \in Nat
  BY DEF Steps
<1>4. QED
  BY <1>1, <1>2, <1>3

\* Steps that go on where others stop.
LEMMA CoversConcat ==
    ASSUME NEW s, NEW t, NEW a, NEW b, NEW c, NEW A, Covers(s, a, b, A), Covers(t, b, c, A)
    PROVE  Covers(s \o t, a, c, A)
<1>1. s \in Seq(Steps) /\ t \in Seq(Steps)
  BY DEF Covers
<1> DEFINE m == Len(s)  n == Len(t)  u == s \o t
<1>2. m \in Nat /\ n \in Nat /\ (s = <<>> <=> m = 0) /\ (t = <<>> <=> n = 0)
  BY <1>1, StepsFacts
<1>3. u \in Seq(Steps) /\ Len(u) = m + n
      /\ \A i \in 1 .. m + n : u[i] = IF i <= m THEN s[i] ELSE t[i - m]
  BY <1>1, ConcatProperties
<1>4. u = <<>> <=> m + n = 0
  BY <1>3, StepsFacts
<1>5. /\ \A i \in 1 .. m - 1 : s[i].to = s[i + 1].from
      /\ \A i \in 1 .. n - 1 : t[i].to = t[i + 1].from
  BY DEF Covers, Touching
<1>6. /\ m = 0 => a = b
      /\ m # 0 => s[1].from = a /\ s[m].to = b
      /\ n = 0 => b = c
      /\ n # 0 => t[1].from = b /\ t[n].to = c
  BY <1>2 DEF Covers, Ends
<1>7. Aligned(s, A) /\ Aligned(t, A)
  BY DEF Covers
<1> HIDE DEF m, n, u
<1>8. \A i \in 1 .. m + n - 1 : u[i].to = u[i + 1].from
  <2> SUFFICES ASSUME NEW i \in 1 .. m + n - 1 PROVE u[i].to = u[i + 1].from
    OBVIOUS
  <2>0. i \in 1 .. m + n /\ i + 1 \in 1 .. m + n /\ i \in Int
    BY <1>2
  <2>1. CASE i < m
    <3>1. u[i] = s[i] /\ u[i + 1] = s[i + 1] /\ i \in 1 .. m - 1
      BY <1>2, <1>3, <2>0, <2>1
    <3>2. QED
      BY <1>5, <3>1
  <2>2. CASE i = m
    <3>1. u[i] = s[m] /\ u[i + 1] = t[1] /\ m # 0 /\ n # 0
      BY <1>2, <1>3, <2>0, <2>2
    <3>2. QED
      BY <1>6, <3>1
  <2>3. CASE i > m
    <3>1. u[i] = t[i - m] /\ u[i + 1] = t[i + 1 - m] /\ i - m \in 1 .. n - 1 /\ i + 1 - m = (i - m) + 1
      BY <1>2, <1>3, <2>0, <2>3
    <3>2. t[i - m].to = t[(i - m) + 1].from
      BY <1>5, <3>1
    <3>3. QED
      BY <3>1, <3>2
  <2>4. QED
    BY <1>2, <2>0, <2>1, <2>2, <2>3
<1>9. Aligned(u, A)
  <2>1. ASSUME NEW i \in 1 .. m + n
        PROVE  \/ i \in 1 .. m /\ u[i] = s[i]
               \/ i - m \in 1 .. n /\ u[i] = t[i - m]
    BY <1>2, <1>3
  <2>2. /\ \A i \in 1 .. m : s[i].from < s[i].to
           /\ (s[i].part # 0 => s[i].part \in Align /\ s[i].part <= A /\ s[i].from % s[i].part = 0)
        /\ \A i \in 1 .. n : t[i].from < t[i].to
           /\ (t[i].part # 0 => t[i].part \in Align /\ t[i].part <= A /\ t[i].from % t[i].part = 0)
    BY <1>7 DEF Aligned, m, n
  <2>3. \A i \in 1 .. m + n : u[i].from < u[i].to
           /\ (u[i].part # 0 => u[i].part \in Align /\ u[i].part <= A /\ u[i].from % u[i].part = 0)
    <3> SUFFICES ASSUME NEW i \in 1 .. m + n
                 PROVE  u[i].from < u[i].to
           /\ (u[i].part # 0 => u[i].part \in Align /\ u[i].part <= A /\ u[i].from % u[i].part = 0)
      OBVIOUS
    <3>1. CASE i \in 1 .. m /\ u[i] = s[i]
      BY <2>2, <3>1
    <3>2. CASE i - m \in 1 .. n /\ u[i] = t[i - m]
      <4>1. PICK j \in 1 .. n : u[i] = t[j]
        BY <3>2
      <4>2. QED
        BY <2>2, <4>1
    <3>3. QED
      BY <2>1, <3>1, <3>2
  <2>4. QED
    BY <1>3, <2>3 DEF Aligned
<1>10. Ends(u, a, c)
  <2>1. CASE m + n = 0
    BY <1>2, <1>4, <1>6, <2>1 DEF Ends
  <2>2. CASE m + n # 0
    <3>1. 1 \in 1 .. m + n /\ m + n \in 1 .. m + n
      BY <1>2, <2>2
    <3>2. u[1].from = a
      <4>1. CASE m = 0
        <5>1. u[1] = t[1] /\ n # 0 /\ a = b
          BY <1>2, <1>3, <1>6, <2>2, <3>1, <4>1
        <5>2. QED
          BY <1>6, <5>1
      <4>2. CASE m # 0
        BY <1>2, <1>3, <1>6, <3>1, <4>2
      <4>3. QED
        BY <4>1, <4>2
    <3>3. u[m + n].to = c
      <4>1. CASE n = 0
        <5>1. u[m + n] = s[m] /\ m # 0 /\ b = c
          BY <1>2, <1>3, <1>6, <2>2, <3>1, <4>1
        <5>2. QED
          BY <1>6, <5>1
      <4>2. CASE n # 0
        <5>1. u[m + n] = t[n]
          BY <1>2, <1>3, <3>1, <4>2
        <5>2. QED
          BY <1>6, <4>2, <5>1
      <4>3. QED
        BY <4>1, <4>2
    <3>4. QED
      BY <1>3, <1>4, <2>2, <3>2, <3>3 DEF Ends
  <2>3. QED
    BY <2>1, <2>2
<1>11. Touching(u)
  BY <1>2, <1>3, <1>8 DEF Touching
<1>12. QED
  BY <1>3, <1>9, <1>10, <1>11 DEF Covers, u

\* Bytes that have to be zero, if there are any.
LEMMA PaddingCovers ==
    ASSUME NEW a \in Nat, NEW b \in Nat, a <= b, NEW A
    PROVE  Covers(Padding(a, b), a, b, A)
<1>1. CASE a < b
  <2> DEFINE x == Span(a, b, 0)
  <2>1. x \in Steps /\ x.from = a /\ x.to = b /\ x.part = 0
    BY DEF Span, Steps
  <2>2. Padding(a, b) = <<x>>
    BY <1>1 DEF Padding
  <2> HIDE DEF x
  <2>3. <<x>> \in Seq(Steps) /\ Len(<<x>>) = 1 /\ <<x>>[1] = x /\ <<x>> # <<>>
    BY <2>1
  <2>4. Touching(<<x>>) /\ Aligned(<<x>>, A) /\ Ends(<<x>>, a, b)
    BY <1>1, <2>1, <2>3 DEF Touching, Aligned, Ends
  <2>5. QED
    BY <2>2, <2>3, <2>4 DEF Covers
<1>2. CASE ~(a < b)
  <2>1. Padding(a, b) = <<>> /\ a = b
    BY <1>2 DEF Padding
  <2>2. Touching(<<>>) /\ Aligned(<<>>, A) /\ Ends(<<>>, a, b) /\ <<>> \in Seq(Steps)
    BY <2>1 DEF Touching, Aligned, Ends
  <2>3. QED
    BY <2>1, <2>2 DEF Covers
<1>3. QED
  BY <1>1, <1>2

\* One scalar at the front.
LEMMA ScalarCovers ==
    ASSUME NEW size \in Nat \ {0}, NEW align \in Align
    PROVE  Covers(<<Span(0, size, align)>>, 0, size, align)
<1> DEFINE x == Span(0, size, align)
<1>1. align \in Nat /\ align <= align /\ 0 % align = 0
  BY DEF Align
<1>2. x \in Steps /\ x.from = 0 /\ x.to = size /\ x.part = align
  BY <1>1 DEF Span, Steps
<1> HIDE DEF x
<1>3. <<x>> \in Seq(Steps) /\ Len(<<x>>) = 1 /\ <<x>>[1] = x /\ <<x>> # <<>>
  BY <1>2
<1>4. Touching(<<x>>) /\ Aligned(<<x>>, align) /\ Ends(<<x>>, 0, size)
  BY <1>1, <1>2, <1>3 DEF Touching, Aligned, Ends
<1>5. QED
  BY <1>3, <1>4 DEF Covers, x

\* A codec called at a multiple of the alignment of its type.
LEMMA ShiftCovers ==
    ASSUME NEW s, NEW a \in Nat, NEW b \in Nat, NEW A \in Align, Covers(s, a, b, A),
           NEW by \in Nat, by % A = 0
    PROVE  Covers(Shift(s, by), a + by, b + by, A)
<1>1. s \in Seq(Steps) /\ Touching(s) /\ Aligned(s, A) /\ Ends(s, a, b)
  BY DEF Covers
<1> DEFINE n == Len(s)  u == Shift(s, by)
<1>2. /\ n \in Nat /\ DOMAIN s = 1 .. n /\ (s = <<>> <=> n = 0)
      /\ \A i \in 1 .. n : s[i].from \in Nat /\ s[i].to \in Nat /\ s[i].part \in Nat
  BY <1>1, StepsFacts
<1>3. u = [i \in 1 .. n |-> Span(s[i].from + by, s[i].to + by, s[i].part)]
  BY <1>2 DEF Shift
<1> HIDE DEF u
<1>4. \A i \in 1 .. n : u[i] \in Steps /\ u[i].from = s[i].from + by /\ u[i].to = s[i].to + by /\ u[i].part = s[i].part
  <2> SUFFICES ASSUME NEW i \in 1 .. n
               PROVE  u[i] \in Steps /\ u[i].from = s[i].from + by /\ u[i].to = s[i].to + by /\ u[i].part = s[i].part
    OBVIOUS
  <2>1. u[i] = Span(s[i].from + by, s[i].to + by, s[i].part)
    BY <1>3
  <2>2. s[i].from + by \in Nat /\ s[i].to + by \in Nat /\ s[i].part \in Nat
    BY <1>2
  <2>3. QED
    BY <2>1, <2>2 DEF Span, Steps
<1>5. u \in Seq(Steps) /\ Len(u) = n /\ (u = <<>> <=> n = 0)
  <2>1. u \in [1 .. n -> Steps]
    BY <1>3, <1>4
  <2>2. u \in Seq(Steps)
    BY <1>2, <2>1, SeqDef
  <2>3. Len(u) = n
    BY <1>2, <2>1, <2>2, LenProperties
  <2>4. QED
    BY <2>2, <2>3, StepsFacts
<1> HIDE DEF n
<1>6. Touching(u)
  <2>1. \A i \in 1 .. n - 1 : s[i].to = s[i + 1].from
    BY <1>1 DEF Touching, n
  <2>2. \A i \in 1 .. n - 1 : i \in 1 .. n /\ i + 1 \in 1 .. n
    BY <1>2
  <2>3. QED
    BY <1>4, <1>5, <2>1, <2>2 DEF Touching
<1>7. Aligned(u, A)
  <2> SUFFICES ASSUME NEW i \in 1 .. n
               PROVE  /\ u[i].from < u[i].to
                      /\ u[i].part # 0 => u[i].part \in Align /\ u[i].part <= A /\ u[i].from % u[i].part = 0
    BY <1>5 DEF Aligned
  <2>1. /\ s[i].from < s[i].to
        /\ s[i].part # 0 => s[i].part \in Align /\ s[i].part <= A /\ s[i].from % s[i].part = 0
    BY <1>1 DEF Aligned, n
  <2>2. s[i].part # 0 => (s[i].from + by) % s[i].part = 0
    BY <1>2, <2>1, AlignDivides
  <2>3. QED
    BY <1>2, <1>4, <2>1, <2>2
<1>8. Ends(u, a + by, b + by)
  <2>1. CASE n = 0
    BY <1>1, <1>2, <1>5, <2>1 DEF Ends
  <2>2. CASE n # 0
    <3>1. 1 \in 1 .. n /\ n \in 1 .. n
      BY <1>2, <2>2
    <3>2. s[1].from = a /\ s[n].to = b
      BY <1>1, <1>2, <2>2 DEF Ends, n
    <3>3. QED
      BY <1>4, <1>5, <2>2, <3>1, <3>2 DEF Ends
  <2>3. QED
    BY <2>1, <2>2
<1>9. QED
  BY <1>5, <1>6, <1>7, <1>8 DEF Covers, u

\* A looser bound on the alignments.
LEMMA CoversWider ==
    ASSUME NEW s, NEW a, NEW b, NEW A \in Nat, NEW B \in Nat, A <= B, Covers(s, a, b, A)
    PROVE  Covers(s, a, b, B)
<1>1. s \in Seq(Steps) /\ Aligned(s, A)
  BY DEF Covers
<1>2. Aligned(s, B)
  <2>1. \A i \in 1 .. Len(s) : s[i].part \in Nat
    BY <1>1, StepsFacts
  <2>2. QED
    BY <1>1, <2>1 DEF Aligned
<1>3. QED
  BY <1>2 DEF Covers

-----------------------------------------------------------------------------
(* The parts of a codec, one after the other.                                *)

\* The first parts put together.
Joining(f, seqs, n) == f = [i \in 1 .. n |-> IF i = 1 THEN seqs[i] ELSE f[i - 1] \o seqs[i]]

LEMMA JoiningStep ==
    ASSUME NEW f, NEW seqs, NEW n \in Nat, Joining(f, seqs, n)
    PROVE  /\ \A i \in 1 .. n : f[i] = IF i = 1 THEN seqs[i] ELSE f[i - 1] \o seqs[i]
           /\ \E g : Joining(g, seqs, n + 1)
<1>1. \A i \in 1 .. n : f[i] = IF i = 1 THEN seqs[i] ELSE f[i - 1] \o seqs[i]
  BY DEF Joining
<1> DEFINE g == [i \in 1 .. n + 1 |-> IF i <= n THEN f[i] ELSE IF i = 1 THEN seqs[i] ELSE f[i - 1] \o seqs[i]]
<1>2. \A i \in 1 .. n + 1 : g[i] = IF i = 1 THEN seqs[i] ELSE g[i - 1] \o seqs[i]
  <2> SUFFICES ASSUME NEW i \in 1 .. n + 1
               PROVE  g[i] = IF i = 1 THEN seqs[i] ELSE g[i - 1] \o seqs[i]
    OBVIOUS
  <2>1. CASE i = 1
    BY <1>1, <2>1
  <2>2. CASE i # 1
    <3>1. i - 1 \in 1 .. n /\ i - 1 \in 1 .. n + 1
      BY <2>2
    <3>2. g[i - 1] = f[i - 1]
      BY <3>1
    <3>3. CASE i <= n
      <4>1. i \in 1 .. n /\ g[i] = f[i]
        BY <3>3
      <4>2. f[i] = f[i - 1] \o seqs[i]
        BY <1>1, <2>2, <4>1
      <4>3. QED
        BY <2>2, <3>2, <4>1, <4>2
    <3>4. CASE ~(i <= n)
      BY <2>2, <3>2, <3>4
    <3>5. QED
      BY <3>3, <3>4
  <2>3. QED
    BY <2>1, <2>2
<1>3. g = [i \in 1 .. n + 1 |-> g[i]]
  OBVIOUS
<1> HIDE DEF g
<1>4. Joining(g, seqs, n + 1)
  BY <1>2, <1>3 DEF Joining
<1>5. QED
  BY <1>1, <1>4

\* FlattenSeq is what the last step makes, of a function that takes them all.
LEMMA FlattenIsJoining ==
    ASSUME NEW seqs, Len(seqs) \in Nat \ {0}
    PROVE  \E f : Joining(f, seqs, Len(seqs)) /\ FlattenSeq(seqs) = f[Len(seqs)]
<1> DEFINE Short == {n \in Nat : ~\E f : Joining(f, seqs, n)}
<1>1. Short = {}
  <2>1. SUFFICES ASSUME Short # {} PROVE FALSE
    OBVIOUS
  <2>2. Short \in SUBSET Nat
    OBVIOUS
  <2>3. PICK n \in Short : \A m \in Short : <<m, n>> \notin OpToRel(<, Nat)
    BY <2>1, <2>2, NatLessThanWellFounded, WFMin
  <2>4. n \in Nat /\ ~\E f : Joining(f, seqs, n)
    OBVIOUS
  <2>5. \A m \in Short : ~(m < n)
    BY <2>2, <2>3 DEF OpToRel
  <2>6. n # 0
    <3>1. Joining([i \in 1 .. 0 |-> {}], seqs, 0)
      BY DEF Joining
    <3>2. QED
      BY <2>4, <3>1
  <2>7. n - 1 \in Nat /\ n - 1 \notin Short
    BY <2>4, <2>5, <2>6
  <2>8. PICK f : Joining(f, seqs, n - 1)
    BY <2>7
  <2>9. \E g : Joining(g, seqs, (n - 1) + 1)
    BY <2>7, <2>8, JoiningStep
  <2>10. (n - 1) + 1 = n
    BY <2>4
  <2>11. QED
    BY <2>4, <2>9, <2>10
<1>2. \E f : Joining(f, seqs, Len(seqs))
  BY <1>1
<1>3. FlattenSeq(seqs) = (CHOOSE f : Joining(f, seqs, Len(seqs)))[Len(seqs)]
  BY DEF FlattenSeq, Joining
<1>4. QED
  BY <1>2, <1>3

\* Parts that go on where the part before them stops.
LEMMA FlattenCovers ==
    ASSUME NEW seqs, Len(seqs) \in Nat \ {0}, NEW bound, NEW A,
           \A k \in 1 .. Len(seqs) : Covers(seqs[k], bound[k - 1], bound[k], A)
    PROVE  Covers(FlattenSeq(seqs), bound[0], bound[Len(seqs)], A)
<1>1. PICK n \in Nat \ {0} : n = Len(seqs)
  OBVIOUS
<1>2. PICK f : Joining(f, seqs, n) /\ FlattenSeq(seqs) = f[n]
  BY <1>1, FlattenIsJoining
<1>3. \A i \in 1 .. n : f[i] = IF i = 1 THEN seqs[i] ELSE f[i - 1] \o seqs[i]
  BY <1>1, <1>2, JoiningStep
<1> DEFINE Off == {i \in 1 .. n : ~Covers(f[i], bound[0], bound[i], A)}
<1>4. Off = {}
  <2>1. SUFFICES ASSUME Off # {} PROVE FALSE
    OBVIOUS
  <2>2. Off \in SUBSET Nat
    BY <1>1
  <2>3. PICK i \in Off : \A m \in Off : <<m, i>> \notin OpToRel(<, Nat)
    BY <2>1, <2>2, NatLessThanWellFounded, WFMin
  <2>4. i \in 1 .. n /\ ~Covers(f[i], bound[0], bound[i], A)
    OBVIOUS
  <2>5. \A m \in Off : ~(m < i)
    BY <2>2, <2>3 DEF OpToRel
  <2>6. Covers(seqs[i], bound[i - 1], bound[i], A)
    BY <1>1, <2>4
  <2>7. i # 1
    <3>1. ASSUME i = 1 PROVE FALSE
      <4>1. f[i] = seqs[i]
        BY <1>3, <2>4, <3>1
      <4>2. Covers(f[i], bound[0], bound[i], A)
        BY <2>6, <3>1, <4>1
      <4>3. QED
        BY <2>4, <4>2
    <3>2. QED
      BY <3>1
  <2>8. i - 1 \in 1 .. n /\ i - 1 \notin Off
    BY <1>1, <2>4, <2>5, <2>7
  <2>9. Covers(f[i - 1], bound[0], bound[i - 1], A)
    BY <2>8
  <2>10. Covers(f[i - 1] \o seqs[i], bound[0], bound[i], A)
    BY <2>6, <2>9, CoversConcat
  <2>11. f[i] = f[i - 1] \o seqs[i]
    BY <1>3, <2>4, <2>7
  <2>12. QED
    BY <2>4, <2>10, <2>11
<1>5. n \in 1 .. n /\ n \notin Off
  BY <1>1, <1>4
<1>6. Covers(f[n], bound[0], bound[n], A)
  BY <1>5
<1>7. QED
  BY <1>1, <1>2, <1>6

-----------------------------------------------------------------------------
(* The layout of an accepted type. *)

\* What the checks passed so far say of their types.
Laid ==
    \A i \in 1 .. (at - 1) :
        types[i].size \in 1 .. MaxSize /\ types[i].align \in Align /\ LayoutFits(types[i])

\* Once the whole list is checked, every type is.
LEMMA TypesLaid ==
    ASSUME TypesAssumption, GraphTypeOK, Laid, at = Len(types) + 1, NEW n \in Names
    PROVE  /\ TypeOf(n) \in TypeDef /\ TypeOf(n).size \in Nat \ {0} /\ TypeOf(n).align \in Align
           /\ LayoutFits(TypeOf(n))
<1>1. types \in Seq(TypeDef) /\ Len(types) \in Nat /\ DOMAIN types = 1 .. Len(types)
  BY DEF GraphTypeOK
<1>2. PICK i \in DOMAIN types : TypeOf(n) = types[i]
  BY <1>1, TypeOfName
<1>3. i \in 1 .. (at - 1) /\ types[i] \in TypeDef
  BY <1>1
<1>4. MaxSize \in Nat
  BY DEF TypesAssumption
<1>5. types[i].size \in 1 .. MaxSize /\ types[i].align \in Align /\ LayoutFits(types[i])
  BY <1>3 DEF Laid
<1>6. QED
  BY <1>2, <1>3, <1>4, <1>5

\* Every type checked so far is laid out.
THEOREM LaidInductive == TypesSpec => []Laid
<1>1. TypesInit => Laid
  BY DEF TypesInit, Laid
<1>2. GraphInv /\ Laid /\ [TypesNext]_typesVars => Laid'
  <2> SUFFICES ASSUME GraphInv, Laid, [TypesNext]_typesVars PROVE Laid'
    OBVIOUS
  <2>1. types' = types
    BY DEF TypesNext, Check, Walk, CheckType, RefuseType, Panic, StartWalk, VisitRoot, SkipVisited,
           VisitChild, MeetCycle, Return, Accept, typesVars
  <2>2. \A t : LayoutFits(t)' = LayoutFits(t)
    BY <2>1 DEF LayoutFits, ArrayFits, StructFits, FieldFits, EndBefore, TypeOf
  <2>3. CASE CheckType
    <3>1. at \in Nat /\ at' = at + 1
      BY <2>3 DEF CheckType, GraphInv, GraphTypeOK
    <3>2. types[at].size \in 1 .. MaxSize /\ types[at].align \in Align /\ LayoutFits(types[at])
      BY <2>3 DEF CheckType, BasicsOK
    <3>3. QED
      BY <2>1, <2>2, <3>1, <3>2 DEF Laid
  <2>4. CASE ~CheckType
    <3>1. at' = at
      BY <2>4 DEF TypesNext, Check, Walk, RefuseType, Panic, StartWalk, VisitRoot, SkipVisited,
           VisitChild, MeetCycle, Return, Accept, typesVars
    <3>2. QED
      BY <2>1, <2>2, <3>1 DEF Laid
  <2>5. QED
    BY <2>3, <2>4
<1>3. QED
  BY <1>1, <1>2, GraphInductive, PTL DEF TypesSpec

\* The alignment of a struct is the largest of its parts'.
LEMMA LargestAlign ==
    ASSUME NEW S \in SUBSET Align, S # {}, NEW m, m = CHOOSE a \in S : \A b \in S : b <= a
    PROVE  m \in S /\ \A b \in S : b <= m
<1>1. \E a \in S : \A b \in S : b <= a
  <2>1. \A b \in S : b \in {1, 2, 4, 8, 16, 32, 64}
    BY DEF Align
  <2>2. CASE 64 \in S
    BY <2>1, <2>2
  <2>3. CASE 64 \notin S /\ 32 \in S
    BY <2>1, <2>3
  <2>4. CASE 64 \notin S /\ 32 \notin S /\ 16 \in S
    BY <2>1, <2>4
  <2>5. CASE S \cap {64, 32, 16} = {} /\ 8 \in S
    BY <2>1, <2>5
  <2>6. CASE S \cap {64, 32, 16, 8} = {}
    BY <2>1, <2>6
  <2>7. QED
    BY <2>2, <2>3, <2>4, <2>5, <2>6
<1>2. QED
  BY <1>1

\* The codecs of a type's children cover them.
KidsCovered(t, spans) ==
    \A c \in TypesIn(Children(t)) : Covers(spans[c], 0, TypeOf(c).size, TypeOf(c).align)

\* Types whose sizes and alignments are in order.
Sized(c) == TypeOf(c).size \in Nat \ {0} /\ TypeOf(c).align \in Align

LEMMA ArrayCovers ==
    ASSUME NEW t \in TypeDef, t.kind = "array", LayoutFits(t), NEW spans, KidsCovered(t, spans),
           t.ref \in Names, Sized(t.ref)
    PROVE  Covers(SpansOf(t, spans), 0, t.size, t.align)
<1> DEFINE c == TypeOf(t.ref)  A == t.align  n == t.length  w == t.stride
<1>1. n \in Nat \ {0} /\ w \in Nat /\ c.size \in Nat \ {0} /\ c.align \in Align
  BY DEF TypeDef, LayoutFits, ArrayFits, Sized
<1>2. w >= c.size /\ w % A = 0 /\ n * w = t.size /\ A = c.align
  BY DEF LayoutFits, ArrayFits
<1>3. Covers(spans[t.ref], 0, c.size, A)
  <2>1. Children(t) = <<t.ref>>
    BY DEF Children
  <2>2. t.ref \in TypesIn(Children(t))
    BY <2>1 DEF TypesIn
  <2>3. QED
    BY <1>2, <2>2 DEF KidsCovered
<1>4. ElementSpans(t, spans, 1) = ElementSpans(t, spans, 1) /\ A \in Align
  BY <1>1, <1>2
<1> DEFINE seqs == [k \in 1 .. n |-> ElementSpans(t, spans, k)]
           bound == [k \in 0 .. n |-> k * w]
<1>5. ASSUME NEW k \in 1 .. n
      PROVE  Covers(ElementSpans(t, spans, k), (k - 1) * w, k * w, A)
  <2>1. PICK start \in Nat : start = (k - 1) * w /\ start % A = 0 /\ start + w = k * w
    <3>1. k - 1 \in Nat
      BY <1>1
    <3>2. (k - 1) * w \in Nat /\ ((k - 1) * w) % A = 0
      BY <1>1, <1>2, <1>4, <3>1, StrideAligned
    <3>3. (k - 1) * w + w = k * w
      BY <1>1, <3>1
    <3>4. QED
      BY <3>2, <3>3
  <2>2. ElementSpans(t, spans, k) = Shift(spans[t.ref], start) \o Padding(start + c.size, start + w)
    BY <2>1 DEF ElementSpans
  <2>3. Covers(Shift(spans[t.ref], start), start, start + c.size, A)
    <3>1. Covers(Shift(spans[t.ref], start), 0 + start, c.size + start, A)
      BY <1>1, <1>3, <1>4, <2>1, ShiftCovers
    <3>2. 0 + start = start /\ c.size + start = start + c.size
      BY <1>1
    <3>3. QED
      BY <3>1, <3>2
  <2>4. Covers(Padding(start + c.size, start + w), start + c.size, start + w, A)
    <3>1. start + c.size \in Nat /\ start + w \in Nat /\ start + c.size <= start + w
      BY <1>1, <1>2
    <3>2. QED
      BY <3>1, PaddingCovers
  <2>5. Covers(ElementSpans(t, spans, k), start, start + w, A)
    BY <2>2, <2>3, <2>4, CoversConcat
  <2>6. QED
    BY <2>1, <2>5
<1>6. Len(seqs) = n
  BY <1>1
<1>7. \A k \in 1 .. Len(seqs) : Covers(seqs[k], bound[k - 1], bound[k], A)
  <2>1. \A k \in 1 .. n : k \in 0 .. n /\ k - 1 \in 0 .. n
    BY <1>1
  <2>2. \A k \in 1 .. n : seqs[k] = ElementSpans(t, spans, k) /\ bound[k - 1] = (k - 1) * w /\ bound[k] = k * w
    BY <2>1
  <2>3. QED
    BY <1>5, <1>6, <2>2
<1>8. SpansOf(t, spans) = FlattenSeq(seqs)
  BY DEF SpansOf
<1>9. bound[0] = 0 /\ bound[n] = t.size
  BY <1>1, <1>2
<1> HIDE DEF seqs, bound
<1>10. Covers(FlattenSeq(seqs), bound[0], bound[n], A)
  BY <1>1, <1>6, <1>7, FlattenCovers
<1>11. QED
  BY <1>8, <1>9, <1>10

LEMMA StructCovers ==
    ASSUME NEW t \in TypeDef, t.kind = "struct", LayoutFits(t), NEW spans, KidsCovered(t, spans),
           \A c \in TypesIn(Children(t)) : Sized(c)
    PROVE  Covers(SpansOf(t, spans), 0, t.size, t.align)
<1> DEFINE n == Len(t.fields)  A == t.align  sized(k) == TypeOf(t.fields[k].type).size
<1>1. n \in Nat \ {0} /\ DOMAIN t.fields = 1 .. n /\ t.size \in Nat
      /\ \A k \in 1 .. n : t.fields[k] \in [type : Nat, offset : Nat]
  <2>1. t.fields \in Seq([type : Nat, offset : Nat]) /\ t.size \in Nat
    BY DEF TypeDef
  <2>2. t.fields # <<>>
    BY DEF LayoutFits, StructFits
  <2>3. QED
    BY <2>1, <2>2, EmptySeq, LenProperties, ElementOfSeq
<1>2. \A k \in 1 .. n : FieldFits(t, k)
  BY <1>1 DEF LayoutFits, StructFits
<1>3. A \in Align /\ \A c \in TypesIn(Children(t)) : TypeOf(c).align <= A
  <2> DEFINE aligns == {1} \cup {TypeOf(c).align : c \in TypesIn(Children(t))}
  <2>1. A = CHOOSE a \in aligns : \A b \in aligns : b <= a
    BY DEF LayoutFits, StructFits
  <2>2. aligns \in SUBSET Align /\ aligns # {}
    BY DEF Sized, Align
  <2>3. \A c \in TypesIn(Children(t)) : TypeOf(c).align \in aligns
    OBVIOUS
  <2> HIDE DEF aligns, A
  <2>4. A \in aligns /\ \A b \in aligns : b <= A
    BY <2>1, <2>2, LargestAlign
  <2>5. QED
    BY <2>2, <2>3, <2>4
\* A field: where it is, and the codec of its type.
<1>4. ASSUME NEW k \in 1 .. n
      PROVE  /\ t.fields[k].offset \in Nat /\ sized(k) \in Nat
             /\ TypeOf(t.fields[k].type).align \in Align
             /\ TypeOf(t.fields[k].type).align <= A
             /\ t.fields[k].offset % TypeOf(t.fields[k].type).align = 0
             /\ t.fields[k].offset >= EndBefore(t, k)
             /\ t.fields[k].offset + sized(k) <= t.size
             /\ Covers(spans[t.fields[k].type], 0, sized(k), TypeOf(t.fields[k].type).align)
  <2>1. t.fields[k].offset \in Nat
    BY <1>1
  <2>2. t.fields[k].type \in TypesIn(Children(t))
    <3>1. Children(t) = [j \in 1 .. n |-> t.fields[j].type]
      BY <1>1 DEF Children
    <3>2. QED
      BY <3>1 DEF TypesIn
  <2>3. Sized(t.fields[k].type)
    BY <2>2
  <2>4. FieldFits(t, k)
    BY <1>2
  <2>5. QED
    BY <1>3, <2>1, <2>2, <2>3, <2>4 DEF FieldFits, Sized, KidsCovered
<1>5. EndBefore(t, 1) = 0 /\ \A k \in 1 .. n : EndBefore(t, k + 1) = t.fields[k].offset + sized(k)
  <2>1. \A k \in 1 .. n : k + 1 # 1 /\ (k + 1) - 1 = k
    BY <1>1
  <2>2. QED
    BY <2>1 DEF EndBefore
<1>6. \A k \in 0 .. n : EndBefore(t, k + 1) \in Nat
  <2> SUFFICES ASSUME NEW k \in 0 .. n PROVE EndBefore(t, k + 1) \in Nat
    OBVIOUS
  <2>1. CASE k = 0
    BY <1>5, <2>1
  <2>2. CASE k # 0
    <3>1. k \in 1 .. n
      BY <2>2
    <3>2. t.fields[k].offset \in Nat /\ sized(k) \in Nat
      BY <1>4, <3>1
    <3>3. QED
      BY <1>5, <3>1, <3>2
  <2>3. QED
    BY <2>1, <2>2
<1> DEFINE seqs == [k \in 1 .. n |-> FieldSpans(t, spans, k)]
           bound == [k \in 0 .. n |-> EndBefore(t, k + 1)]
<1>7. ASSUME NEW k \in 1 .. n
      PROVE  Covers(FieldSpans(t, spans, k), EndBefore(t, k), EndBefore(t, k + 1), A)
  <2>1. PICK o \in Nat : o = t.fields[k].offset
    BY <1>4
  <2>2. PICK w \in Nat : w = sized(k)
    BY <1>4
  <2>3. PICK e \in Nat : e = EndBefore(t, k)
    <3>1. k - 1 \in 0 .. n /\ (k - 1) + 1 = k
      BY <1>1
    <3>2. QED
      BY <1>6, <3>1
  <2>4. PICK B \in Align : B = TypeOf(t.fields[k].type).align
    BY <1>4
  <2>5. B <= A /\ o % B = 0 /\ o >= e /\ Covers(spans[t.fields[k].type], 0, w, B)
    BY <1>4, <2>1, <2>2, <2>3, <2>4
  <2>6. FieldSpans(t, spans, k) = Padding(e, o) \o Shift(spans[t.fields[k].type], o)
    BY <2>1, <2>3 DEF FieldSpans
  <2>7. Covers(Padding(e, o), e, o, A)
    BY <2>5, PaddingCovers
  <2>8. Covers(Shift(spans[t.fields[k].type], o), 0 + o, w + o, B)
    <3> HIDE DEF A, sized
    <3>1. 0 \in Nat /\ Covers(spans[t.fields[k].type], 0, w, B) /\ o % B = 0
      BY <2>5
    <3>2. QED
      BY <3>1, ShiftCovers
  <2>9. 0 + o = o /\ w + o = o + w /\ A \in Nat /\ B \in Nat
    BY <1>3 DEF Align
  <2> HIDE DEF A
  <2>10. Covers(Shift(spans[t.fields[k].type], o), o, o + w, A)
    <3>1. Covers(Shift(spans[t.fields[k].type], o), o, o + w, B)
      BY <2>8, <2>9
    <3>2. QED
      BY <2>5, <2>9, <3>1, CoversWider
  <2>11. Covers(FieldSpans(t, spans, k), e, o + w, A)
    BY <2>6, <2>7, <2>10, CoversConcat
  <2>12. QED
    BY <1>5, <2>1, <2>2, <2>3, <2>11
<1>8. Len(seqs) = n
  BY <1>1
<1>9. \A k \in 1 .. Len(seqs) : Covers(seqs[k], bound[k - 1], bound[k], A)
  <2>1. \A k \in 1 .. n : k \in 0 .. n /\ k - 1 \in 0 .. n /\ (k - 1) + 1 = k
    BY <1>1
  <2>2. \A k \in 1 .. n : seqs[k] = FieldSpans(t, spans, k)
                          /\ bound[k - 1] = EndBefore(t, k) /\ bound[k] = EndBefore(t, k + 1)
    BY <2>1
  <2>3. QED
    BY <1>7, <1>8, <2>2
<1>10. SpansOf(t, spans) = FlattenSeq(seqs) \o Padding(EndBefore(t, n + 1), t.size)
  BY <1>1 DEF SpansOf
<1>11. bound[0] = 0 /\ bound[n] = EndBefore(t, n + 1)
  <2>1. 0 \in 0 .. n /\ n \in 0 .. n /\ 0 + 1 = 1
    BY <1>1
  <2>2. QED
    BY <1>5, <2>1
<1> HIDE DEF seqs, bound
<1>12. Covers(FlattenSeq(seqs), bound[0], bound[n], A)
  BY <1>1, <1>8, <1>9, FlattenCovers
<1>13. PICK e \in Nat : e = EndBefore(t, n + 1) /\ e <= t.size
  <2>1. n \in 0 .. n /\ n \in 1 .. n
    BY <1>1
  <2>2. QED
    BY <1>4, <1>5, <1>6, <2>1
<1>14. Covers(Padding(e, t.size), e, t.size, A)
  BY <1>1, <1>13, PaddingCovers
<1>15. Covers(FlattenSeq(seqs) \o Padding(e, t.size), 0, t.size, A)
  BY <1>11, <1>12, <1>13, <1>14, CoversConcat
<1>16. QED
  BY <1>10, <1>13, <1>15

\* The codec of a type, where those of its children cover them.
LEMMA SpansCover ==
    ASSUME GraphTypeOK, Checked, Laid, at = Len(types) + 1, NEW n \in Names, NEW spans,
           KidsCovered(TypeOf(n), spans)
    PROVE  Covers(SpansOf(TypeOf(n), spans), 0, TypeOf(n).size, TypeOf(n).align)
<1>1. PICK t \in TypeDef : /\ t = TypeOf(n) /\ t.size \in Nat \ {0} /\ t.align \in Align
                           /\ LayoutFits(t)
  BY TypesLaid, TypesAssumption
<1>2. \A c \in Names : Sized(c)
  BY TypesLaid, TypesAssumption DEF Sized
<1>3. TypesIn(Children(t)) \subseteq Names
  <2>1. types \in Seq(TypeDef) /\ Len(types) \in Nat /\ DOMAIN types = 1 .. Len(types)
    BY DEF GraphTypeOK
  <2>2. names = Names
    BY <2>1 DEF GraphTypeOK, Names
  <2>3. QED
    BY <1>1, <2>2, KidsKnown DEF Kids
<1>4. KidsCovered(t, spans)
  BY <1>1
<1>5. CASE t.kind = "array"
  <2>1. Children(t) = <<t.ref>>
    BY <1>5 DEF Children
  <2>2. t.ref \in Names
    BY <1>3, <2>1 DEF TypesIn
  <2>3. Covers(SpansOf(t, spans), 0, t.size, t.align)
    BY <1>1, <1>2, <1>4, <1>5, <2>2, ArrayCovers
  <2>4. QED
    BY <1>1, <2>3
<1>6. CASE t.kind = "struct"
  <2>1. Covers(SpansOf(t, spans), 0, t.size, t.align)
    BY <1>1, <1>2, <1>3, <1>4, <1>6, StructCovers
  <2>2. QED
    BY <1>1, <2>1
<1>7. CASE t.kind \notin {"array", "struct"}
  <2>1. SpansOf(t, spans) = <<Span(0, t.size, t.align)>>
    BY <1>7 DEF SpansOf
  <2>2. Covers(<<Span(0, t.size, t.align)>>, 0, t.size, t.align)
    BY <1>1, ScalarCovers
  <2>3. QED
    BY <1>1, <2>1, <2>2
<1>8. QED
  BY <1>5, <1>6, <1>7

-----------------------------------------------------------------------------
(* All codecs, children before parents.                                      *)

\* The codecs of the first types the walk finished.
Codecs(f, m) ==
    f = [i \in 0 .. m |->
           IF i = 0 THEN [n \in Names |-> <<>>]
           ELSE [f[i - 1] EXCEPT ![visited[i]] = SpansOf(TypeOf(visited[i]), f[i - 1])]]

LEMMA CodecsStep ==
    ASSUME NEW f, NEW m \in Nat, Codecs(f, m)
    PROVE  /\ f[0] = [n \in Names |-> <<>>]
           /\ \A i \in 1 .. m : f[i] = [f[i - 1] EXCEPT ![visited[i]] = SpansOf(TypeOf(visited[i]), f[i - 1])]
           /\ \E g : Codecs(g, m + 1)
<1> DEFINE First == [n \in Names |-> <<>>]
           Step(s, i) == [s EXCEPT ![visited[i]] = SpansOf(TypeOf(visited[i]), s)]
<1>1. f = [i \in 0 .. m |-> IF i = 0 THEN First ELSE Step(f[i - 1], i)]
  BY DEF Codecs
<1> DEFINE g == [i \in 0 .. m + 1 |-> IF i <= m THEN f[i] ELSE Step(f[i - 1], i)]
<1>2. \A h : h = [i \in 0 .. m + 1 |-> IF i = 0 THEN First ELSE Step(h[i - 1], i)] => Codecs(h, m + 1)
  BY DEF Codecs
<1> HIDE DEF First, Step
<1>3. f[0] = First /\ \A i \in 1 .. m : f[i] = Step(f[i - 1], i)
  <2>1. \A i \in 0 .. m : f[i] = IF i = 0 THEN First ELSE Step(f[i - 1], i)
    BY <1>1
  <2>2. 0 \in 0 .. m /\ \A i \in 1 .. m : i \in 0 .. m /\ i # 0
    OBVIOUS
  <2>3. QED
    BY <2>1, <2>2
<1>4. \A i \in 0 .. m + 1 : g[i] = IF i = 0 THEN First ELSE Step(g[i - 1], i)
  <2> SUFFICES ASSUME NEW i \in 0 .. m + 1
               PROVE  g[i] = IF i = 0 THEN First ELSE Step(g[i - 1], i)
    OBVIOUS
  <2>1. CASE i = 0
    BY <1>3, <2>1
  <2>2. CASE i # 0
    <3>1. i - 1 \in 0 .. m + 1 /\ i - 1 <= m
      BY <2>2
    <3>2. g[i - 1] = f[i - 1]
      BY <3>1
    <3>3. CASE i <= m
      <4>1. i \in 1 .. m /\ g[i] = f[i]
        BY <2>2, <3>3
      <4>2. f[i] = Step(f[i - 1], i)
        BY <1>3, <4>1
      <4>3. QED
        BY <2>2, <3>2, <4>1, <4>2
    <3>4. CASE ~(i <= m)
      BY <2>2, <3>2, <3>4
    <3>5. QED
      BY <3>3, <3>4
  <2>3. QED
    BY <2>1, <2>2
<1>5. g = [i \in 0 .. m + 1 |-> g[i]]
  OBVIOUS
<1> HIDE DEF g
<1>6. g = [i \in 0 .. m + 1 |-> IF i = 0 THEN First ELSE Step(g[i - 1], i)]
  BY <1>4, <1>5
<1>7. Codecs(g, m + 1)
  BY <1>2, <1>6
<1>8. QED
  BY <1>3, <1>7 DEF First, Step

LEMMA SpansAreCodecs ==
    ASSUME Len(visited) \in Nat
    PROVE  \E f : Codecs(f, Len(visited)) /\ Spans = f[Len(visited)]
<1> DEFINE Short == {m \in Nat : ~\E f : Codecs(f, m)}
<1>1. Short = {}
  <2>1. SUFFICES ASSUME Short # {} PROVE FALSE
    OBVIOUS
  <2>2. Short \in SUBSET Nat
    OBVIOUS
  <2>3. PICK m \in Short : \A k \in Short : <<k, m>> \notin OpToRel(<, Nat)
    BY <2>1, <2>2, NatLessThanWellFounded, WFMin
  <2>4. m \in Nat /\ ~\E f : Codecs(f, m)
    OBVIOUS
  <2>5. \A k \in Short : ~(k < m)
    BY <2>2, <2>3 DEF OpToRel
  <2>6. m # 0
    <3> DEFINE f0 == [i \in 0 .. 0 |-> [n \in Names |-> <<>>]]
    <3>1. Codecs(f0, 0)
      <4>1. \A i \in 0 .. 0 : i = 0
        OBVIOUS
      <4>2. QED
        BY <4>1 DEF Codecs
    <3>2. QED
      BY <2>4, <3>1
  <2>7. m - 1 \in Nat /\ m - 1 \notin Short
    BY <2>4, <2>5, <2>6
  <2>8. PICK f : Codecs(f, m - 1)
    BY <2>7
  <2>9. \E g : Codecs(g, (m - 1) + 1)
    BY <2>7, <2>8, CodecsStep
  <2>10. (m - 1) + 1 = m
    BY <2>4
  <2>11. QED
    BY <2>4, <2>9, <2>10
<1>2. \E f : Codecs(f, Len(visited))
  BY <1>1
<1>3. Spans = (CHOOSE f : Codecs(f, Len(visited)))[Len(visited)]
  BY DEF Spans, Codecs
<1>4. QED
  BY <1>2, <1>3

\* What the codecs of the first m types the walk finished cover.
CoversFirst(spans, m) ==
    \A k \in 1 .. m : Covers(spans[visited[k]], 0, TypeOf(visited[k]).size, TypeOf(visited[k]).align)

\* In an accepted graph every codec covers its type.
LEMMA AcceptedCovers ==
    ASSUME GraphInv, Laid, judgement = "accepted", NEW n \in Names
    PROVE  Covers(Spans[n], 0, TypeOf(n).size, TypeOf(n).align)
<1>1. at = Len(types) + 1 /\ GraphTypeOK /\ Checked /\ names = Names /\ VisitedClosed
  <2>1. at = Len(types) + 1 /\ GraphTypeOK /\ Checked /\ VisitedClosed
    BY DEF GraphInv, Checked
  <2>2. types \in Seq(TypeDef) /\ Len(types) \in Nat /\ DOMAIN types = 1 .. Len(types)
    BY <2>1 DEF GraphTypeOK
  <2>3. QED
    BY <2>1, <2>2 DEF GraphTypeOK, Names
<1>2. visited \in Seq(names)
  BY <1>1 DEF GraphTypeOK
<1>3. PICK v \in Nat : v = Len(visited) /\ DOMAIN visited = 1 .. v /\ \A k \in 1 .. v : visited[k] \in Names
  BY <1>1, <1>2, LenProperties, ElementOfSeq
<1>4. PICK f : Codecs(f, v) /\ Spans = f[v]
  BY <1>3, SpansAreCodecs
<1>5. /\ f[0] = [x \in Names |-> <<>>]
      /\ \A i \in 1 .. v : f[i] = [f[i - 1] EXCEPT ![visited[i]] = SpansOf(TypeOf(visited[i]), f[i - 1])]
  BY <1>4, CodecsStep
<1> DEFINE Good(i) == DOMAIN f[i] = Names /\ CoversFirst(f[i], i)
           Off == {i \in 0 .. v : ~Good(i)}
<1>6. Off = {}
  <2>1. SUFFICES ASSUME Off # {} PROVE FALSE
    OBVIOUS
  <2>2. Off \in SUBSET Nat
    OBVIOUS
  <2>3. PICK i \in Off : \A k \in Off : <<k, i>> \notin OpToRel(<, Nat)
    BY <2>1, <2>2, NatLessThanWellFounded, WFMin
  <2>4. i \in 0 .. v /\ ~Good(i)
    OBVIOUS
  <2>5. \A k \in Off : ~(k < i)
    BY <2>2, <2>3 DEF OpToRel
  <2>6. i # 0
    <3>1. Good(0)
      BY <1>5 DEF CoversFirst
    <3>2. QED
      BY <2>4, <3>1
  <2>7. i - 1 \in 0 .. v /\ i - 1 \notin Off
    BY <2>4, <2>5, <2>6
  <2>8. DOMAIN f[i - 1] = Names /\ CoversFirst(f[i - 1], i - 1)
    BY <2>7
  <2>9. i \in 1 .. v
    BY <2>4, <2>6
  <2>10. visited[i] \in Names
    BY <1>3, <2>9
  <2>11. KidsCovered(TypeOf(visited[i]), f[i - 1])
    <3> SUFFICES ASSUME NEW c \in TypesIn(Children(TypeOf(visited[i])))
                 PROVE  Covers(f[i - 1][c], 0, TypeOf(c).size, TypeOf(c).align)
      BY DEF KidsCovered
    <3>1. PICK d \in DOMAIN Kids(visited[i]) : c = Kids(visited[i])[d]
      BY DEF TypesIn, Kids
    <3>2. i \in DOMAIN visited
      BY <1>3, <2>9
    <3>3. PICK j \in 1 .. (i - 1) : visited[j] = Kids(visited[i])[d]
      BY <1>1, <3>2 DEF VisitedClosed
    <3>4. QED
      BY <2>8, <3>1, <3>3 DEF CoversFirst
  <2>12. PICK new : /\ new = SpansOf(TypeOf(visited[i]), f[i - 1])
                    /\ Covers(new, 0, TypeOf(visited[i]).size, TypeOf(visited[i]).align)
    BY <1>1, <2>10, <2>11, SpansCover
  <2>13. f[i] = [f[i - 1] EXCEPT ![visited[i]] = new]
    BY <1>5, <2>9, <2>12
  <2>14. DOMAIN f[i] = Names
    BY <2>8, <2>13
  <2>15. \A x \in Names : f[i][x] = IF x = visited[i] THEN new ELSE f[i - 1][x]
    BY <2>8, <2>13
  <2>16. CoversFirst(f[i], i)
    <3> SUFFICES ASSUME NEW k \in 1 .. i
                 PROVE  Covers(f[i][visited[k]], 0, TypeOf(visited[k]).size, TypeOf(visited[k]).align)
      BY DEF CoversFirst
    <3>1. k \in 1 .. v
      BY <2>9
    <3>2. visited[k] \in Names
      BY <1>3, <3>1
    <3>3. CASE visited[k] = visited[i]
      <4>1. f[i][visited[k]] = new
        BY <2>15, <3>2, <3>3
      <4>2. QED
        BY <2>12, <3>3, <4>1
    <3>4. CASE visited[k] # visited[i]
      <4>1. k # i
        BY <3>4
      <4>2. k \in 1 .. i - 1
        BY <2>9, <4>1
      <4>3. f[i][visited[k]] = f[i - 1][visited[k]]
        BY <2>15, <3>2, <3>4
      <4>4. QED
        BY <2>8, <4>2, <4>3 DEF CoversFirst
    <3>5. QED
      BY <3>3, <3>4
  <2>17. QED
    BY <2>4, <2>14, <2>16
<1>7. v \in 0 .. v /\ v \notin Off
  BY <1>6
<1>8. CoversFirst(f[v], v)
  BY <1>7
<1>9. n \in TypesIn(visited)
  BY <1>1 DEF GraphInv, AllVisited
<1>10. PICK k \in 1 .. v : n = visited[k]
  BY <1>3, <1>9 DEF TypesIn
<1>11. QED
  BY <1>4, <1>8, <1>10 DEF CoversFirst

\* The codec generated for an accepted type reads every byte of it exactly
\* once, as a scalar at a multiple of its alignment or as padding that has to
\* be zero (LANGUAGE-PACKAGE.md on struct, array and padding).
THEOREM EveryByteOnceHolds == TypesSpec => []EveryByteOnce
<1>1. GraphInv /\ Laid => EveryByteOnce
  <2> SUFFICES ASSUME GraphInv, Laid, judgement = "accepted", NEW n \in Names,
                      NEW spans, spans = Spans[n]
               PROVE  /\ spans # <<>> /\ spans[1].from = 0 /\ spans[Len(spans)].to = TypeOf(n).size
                      /\ \A i \in 1 .. (Len(spans) - 1) : spans[i].to = spans[i + 1].from
                      /\ \A i \in DOMAIN spans :
                            /\ spans[i].from < spans[i].to
                            /\ spans[i].part # 0 => spans[i].from % spans[i].part = 0
    BY DEF EveryByteOnce
  <2>1. Covers(spans, 0, TypeOf(n).size, TypeOf(n).align)
    BY AcceptedCovers
  <2>2. TypeOf(n).size # 0
    <3>1. GraphTypeOK /\ at = Len(types) + 1
      BY DEF GraphInv, Checked
    <3>2. QED
      BY <3>1, TypesLaid, TypesAssumption
  <2>3. DOMAIN spans = 1 .. Len(spans)
    BY <2>1, StepsFacts DEF Covers
  <2>4. QED
    BY <2>1, <2>2, <2>3 DEF Covers, Ends, Touching, Aligned
<1>2. QED
  BY <1>1, GraphInductive, LaidInductive, PTL


-----------------------------------------------------------------------------
(* configure_set and build_set.  What a command accepts is a map from the    *)
(* modules to modes; the file is the list of the modules' keys with it.      *)

\* The lines that configure_set writes for the answers.
LinesOf(s, answers) ==
    [i \in DOMAIN s.listing |-> <<s.config[s.listing[i]], answers[s.listing[i]]>>]

\* The last file written holds answers that are valid for its set.
WrittenInv ==
    written # <<>> =>
        \E s \in Sets : \E answers \in [Listed(s) -> Mode] : \E lines :
            /\ written = <<[set |-> s, lines |-> lines]>>
            /\ OwnKeys(s) =>
                  lines = LinesOf(s, answers) /\ \A t \in Target : Valid(s, t, answers)

\* build_set has judged the file and the set that are there.
JudgedInv ==
    command.name = "build" =>
        /\ command.target \in Target
        /\ ParseOK(config) /\ Valid(set, command.target, Resolve(set, config)) => command.ok

ConfigInv == set \in Sets /\ WrittenInv /\ JudgedInv

\* Where each module has a key of its own, its mode is the answer given for it.
LEMMA SelectedIsAnswer ==
    ASSUME set \in Sets, OwnKeys(set), NEW answers \in [Listed(set) -> Mode]
    PROVE  Selected(answers) = answers
<1>1. ASSUME NEW m \in Listed(set)
      PROVE  answers[set.listing[CHOOSE i \in DOMAIN set.listing :
                        /\ set.config[set.listing[i]] = set.config[m]
                        /\ \A j \in DOMAIN set.listing :
                               set.config[set.listing[j]] = set.config[m] => j <= i]] = answers[m]
  <2> DEFINE IsLast(i) == /\ set.config[set.listing[i]] = set.config[m]
                          /\ \A j \in DOMAIN set.listing :
                                 set.config[set.listing[j]] = set.config[m] => j <= i
  <2>1. DOMAIN set.listing \subseteq Nat /\ set.listing \in Seq(ModuleName)
    BY ConfigAssumption DEF SetType
  <2>2. \A i, j \in DOMAIN set.listing : set.listing[i] = set.listing[j] => i = j
    BY ConfigAssumption DEF SetType
  <2>3. PICK k \in DOMAIN set.listing : set.listing[k] = m
    BY DEF Listed, Items
  <2>4. \A j \in DOMAIN set.listing : set.config[set.listing[j]] = set.config[m] => j = k
    BY <2>2, <2>3 DEF OwnKeys, Listed, Items
  <2>5. IsLast(k)
    BY <2>1, <2>3, <2>4
  <2>6. \A i \in DOMAIN set.listing : IsLast(i) => i = k
    BY <2>4
  <2> HIDE DEF IsLast
  <2>7. (CHOOSE i \in DOMAIN set.listing : IsLast(i)) = k
    BY <2>3, <2>5, <2>6
  <2>8. QED
    BY <2>3, <2>7 DEF IsLast
<1>2. QED
  BY <1>1 DEF Selected

\* The keys of the file are those of the modules; no line is refused.
LEMMA LinesParse ==
    ASSUME NEW s \in Sets, OwnKeys(s), NEW answers \in [Listed(s) -> Mode]
    PROVE  ParseOK(LinesOf(s, answers))
<1> DEFINE lines == LinesOf(s, answers)
<1>1. DOMAIN lines = DOMAIN s.listing
  BY DEF LinesOf
<1>2. \A i \in DOMAIN s.listing : lines[i][1] = s.config[s.listing[i]] /\ s.listing[i] \in Listed(s)
  BY DEF LinesOf, Listed, Items
<1>3. \A i, j \in DOMAIN s.listing : s.listing[i] = s.listing[j] => i = j
  BY ConfigAssumption DEF SetType
<1> HIDE DEF lines
<1>4. ParseOK(lines)
  BY <1>1, <1>2, <1>3 DEF ParseOK, OwnKeys
<1>5. QED
  BY <1>4 DEF lines

\* resolve_modes finds in the file what was answered.
LEMMA LinesResolve ==
    ASSUME NEW s \in Sets, OwnKeys(s), NEW answers \in [Listed(s) -> Mode]
    PROVE  Resolve(s, LinesOf(s, answers)) = answers
<1> DEFINE lines == LinesOf(s, answers)
<1>1. \A i \in DOMAIN lines : lines[i] = <<s.config[s.listing[i]], answers[s.listing[i]]>>
  BY DEF LinesOf
<1>2. DOMAIN lines = DOMAIN s.listing
  BY DEF LinesOf
<1> HIDE DEF lines
<1>3. ASSUME NEW m \in Listed(s)
      PROVE  s.config[m] \in KeysOf(lines) /\ ValueOf(lines, s.config[m]) = answers[m]
  <2>1. PICK k \in DOMAIN s.listing : s.listing[k] = m
    BY DEF Listed, Items
  <2>2. lines[k] \in Items(lines) /\ lines[k][1] = s.config[m] /\ s.config[m] \in KeysOf(lines)
    BY <1>1, <1>2, <2>1 DEF Items, KeysOf
  <2>3. ASSUME NEW l \in Items(lines), l[1] = s.config[m] PROVE l[2] = answers[m]
    <3>1. PICK i \in DOMAIN lines : l = <<s.config[s.listing[i]], answers[s.listing[i]]>>
      BY <1>1 DEF Items
    <3>2. s.listing[i] \in Listed(s) /\ s.config[s.listing[i]] = s.config[m]
      BY <1>2, <2>3, <3>1 DEF Listed, Items
    <3>3. s.listing[i] = m
      BY <3>2 DEF OwnKeys
    <3>4. QED
      BY <3>1, <3>3
  <2>4. (CHOOSE l \in Items(lines) : l[1] = s.config[m]) \in Items(lines)
        /\ (CHOOSE l \in Items(lines) : l[1] = s.config[m])[1] = s.config[m]
    BY <2>2
  <2>5. QED
    BY <2>2, <2>3, <2>4 DEF ValueOf
<1>4. Resolve(s, lines) = answers
  BY <1>3 DEF Resolve
<1>5. QED
  BY <1>4 DEF lines

LEMMA ConfigureKeeps ==
    ASSUME ConfigInv, NEW how \in Hows, Configure(how)
    PROVE  ConfigInv'
<1>1. PICK answers \in [Listed(set) -> Mode] :
          /\ \A t \in Target : Valid(set, t, Selected(answers))
          /\ config' = [i \in DOMAIN set.listing |->
                           <<set.config[set.listing[i]], Selected(answers)[set.listing[i]]>>]
          /\ written' = <<[set |-> set, lines |-> config']>>
          /\ command' = [name |-> how, ok |-> TRUE, target |-> "all"]
  BY DEF Configure
<1>2. set' = set /\ set \in Sets
  BY DEF Configure, ConfigInv
<1>3. WrittenInv'
  <2>1. OwnKeys(set) => config' = LinesOf(set, answers) /\ \A t \in Target : Valid(set, t, answers)
    BY <1>1, <1>2, SelectedIsAnswer DEF LinesOf
  <2>2. QED
    BY <1>1, <1>2, <2>1 DEF WrittenInv
<1>4. JudgedInv'
  <2>1. command'.name # "build"
    BY <1>1 DEF Hows
  <2>2. QED
    BY <2>1 DEF JudgedInv
<1>5. QED
  BY <1>2, <1>3, <1>4 DEF ConfigInv

\* configure_set and build_set: the invariant of the two commands, for any
\* sets, any edits between the commands and any answers.
THEOREM ConfigInductive == ConfigSpec => []ConfigInv
<1>1. ConfigInit => ConfigInv
  BY DEF ConfigInit, ConfigInv, WrittenInv, JudgedInv
<1>2. ASSUME ConfigInv, [ConfigNext]_configVars PROVE ConfigInv'
  <2>1. ASSUME NEW how \in Hows, Configure(how) PROVE ConfigInv'
    BY <1>2, <2>1, ConfigureKeeps
  <2>2. ASSUME NEW how \in Hows, ConfigureRefused(how) PROVE ConfigInv'
    <3>1. command' = [name |-> how, ok |-> FALSE, target |-> "all"] /\ UNCHANGED <<set, config, written>>
      BY <2>2 DEF ConfigureRefused
    <3>2. command'.name # "build"
      BY <3>1 DEF Hows
    <3>3. QED
      BY <1>2, <3>1, <3>2 DEF ConfigInv, WrittenInv, JudgedInv
  <2>3. ASSUME NEW t \in Target, Build(t) PROVE ConfigInv'
    <3>1. /\ command' = [name |-> "build", target |-> t,
                         ok |-> ParseOK(config) /\ Valid(set, t, Resolve(set, config))]
          /\ UNCHANGED <<set, config, written>>
      BY <2>3 DEF Build
    <3>2. JudgedInv'
      BY <3>1 DEF JudgedInv
    <3>3. QED
      BY <1>2, <3>1, <3>2 DEF ConfigInv, WrittenInv
  <2>4. ASSUME Edit PROVE ConfigInv'
    <3>1. set' \in Sets /\ written' = written /\ command' = [name |-> "edit", ok |-> TRUE, target |-> "all"]
      BY <1>2, <2>4 DEF Edit, ConfigInv
    <3>2. QED
      BY <1>2, <3>1 DEF ConfigInv, WrittenInv, JudgedInv
  <2>5. ASSUME UNCHANGED configVars PROVE ConfigInv'
    BY <1>2, <2>5 DEF ConfigInv, WrittenInv, JudgedInv, configVars
  <2>6. QED
    BY <1>2, <2>1, <2>2, <2>3, <2>4, <2>5 DEF ConfigNext
<1>3. QED
  BY <1>1, <1>2, PTL DEF ConfigSpec

\* configure_set and build_set: a file that configure_set has written builds on
\* each target, with the modes that were chosen, while Modules.toml stays.
THEOREM ConfiguredBuildsHolds == ConfigSpec => []ConfiguredBuilds
<1>1. ASSUME ConfigInv PROVE ConfiguredBuilds
  <2>1. SUFFICES ASSUME Fresh, OwnKeys(set)
                 PROVE  /\ command.name = "build" => command.ok
                        /\ \A i \in DOMAIN set.listing :
                               Resolve(set, config)[set.listing[i]] = config[i][2]
    BY DEF ConfiguredBuilds
  <2>2. PICK s \in Sets : \E answers \in [Listed(s) -> Mode] : \E lines :
            /\ written = <<[set |-> s, lines |-> lines]>>
            /\ OwnKeys(s) =>
                  lines = LinesOf(s, answers) /\ \A t \in Target : Valid(s, t, answers)
    BY <1>1, <2>1 DEF Fresh, ConfigInv, WrittenInv
  <2>3. s = set
    BY <2>1, <2>2 DEF Fresh
  <2>4. PICK answers \in [Listed(set) -> Mode] :
            config = LinesOf(set, answers) /\ \A t \in Target : Valid(set, t, answers)
    BY <2>1, <2>2, <2>3 DEF Fresh
  <2>5. ParseOK(config) /\ Resolve(set, config) = answers
    BY <1>1, <2>1, <2>4, LinesParse, LinesResolve DEF ConfigInv
  <2>6. command.name = "build" => command.ok
    BY <1>1, <2>4, <2>5 DEF ConfigInv, JudgedInv
  <2>7. \A i \in DOMAIN set.listing : answers[set.listing[i]] = config[i][2]
    BY <2>4 DEF LinesOf
  <2>8. QED
    BY <2>5, <2>6, <2>7
<1>2. QED
  BY <1>1, ConfigInductive, PTL


-----------------------------------------------------------------------------
(* The link names.  What a symbol is tied to has its path and its ABI, and   *)
(* the manifest keeps the names of two symbols apart.  The objects are taken *)
(* one after another, each for the names not met before.                     *)

AliasedSymbol == [path : Seq(STRING), kind : {"function", "static", "method"}, abi : STRING,
                  sameLeaf : BOOLEAN, exact : BOOLEAN, aliases : SUBSET Global]

SymbolsTyped ==
    /\ symbols \in Seq(AliasedSymbol) /\ abis \in PublicAbis /\ rlibs \in Rlibs
    /\ task \in {"aliases", "support", "imports", "packed", "refused"}
    /\ nth \in Nat \ {0} /\ member \in Nat \ {0}
    /\ inputs \in Seq(SUBSET Global)

\* An alias is the public method of the symbol's path, with its ABI.
AliasInv ==
    \A i \in DOMAIN symbols : \A n \in symbols[i].aliases :
        /\ n.path = symbols[i].path /\ n.path \in DOMAIN abis
        /\ abis[n.path] = symbols[i].abi

\* The names of the objects that the loop has passed.
Taken ==
    {n \in Global :
        \E i \in DOMAIN rlibs : \E k \in DOMAIN rlibs[i].objects :
            n \in rlibs[i].objects[k] /\ (i < nth \/ (i = nth /\ k < member))}

\* Each name met is global in one of the objects to be linked.
InputsInv ==
    /\ task = "aliases" => inputs = <<>> /\ defining = {} /\ member = 1
    /\ UNION {inputs[i] : i \in DOMAIN inputs} = defining
    /\ \A i, j \in DOMAIN inputs : i # j => inputs[i] \cap inputs[j] = {}
    /\ task = "support" => defining = Taken

\* What the manifest and the two libraries hold once they are made.
LibrariesInv ==
    /\ task \in {"support", "imports", "packed"} => ManifestValid
    /\ task \in {"imports", "packed"} => support = {n \in CompilerNames : ~Misread(n)}
    /\ task = "packed" => imports = UNION {NamesOfSymbol(symbols[i]) : i \in DOMAIN symbols}

SymbolsInv == SymbolsTyped /\ AliasInv /\ InputsInv /\ LibrariesInv

\* The rlibs are lists of objects.
LEMMA RlibFacts ==
    ASSUME SymbolsTyped
    PROVE  /\ DOMAIN rlibs = 1 .. Len(rlibs) /\ Len(rlibs) \in Nat
           /\ \A i \in DOMAIN rlibs :
                 /\ DOMAIN rlibs[i].objects = 1 .. Len(rlibs[i].objects) /\ Len(rlibs[i].objects) \in Nat
                 /\ \A k \in DOMAIN rlibs[i].objects :
                       /\ rlibs[i].objects[k] \in SUBSET Global
                       /\ \A n \in rlibs[i].objects[k] : n.path[1] \in Compilers => n.form # "plain"
<1>1. /\ rlibs \in Seq([api : BOOLEAN, objects : Seq(SUBSET Global)])
      /\ \A i \in DOMAIN rlibs : \A k \in DOMAIN rlibs[i].objects :
            \A n \in rlibs[i].objects[k] : n.path[1] \in Compilers => n.form # "plain"
  BY SymbolAssumption DEF SymbolsTyped
<1>2. DOMAIN rlibs = 1 .. Len(rlibs) /\ Len(rlibs) \in Nat
  BY <1>1
<1>3. ASSUME NEW i \in DOMAIN rlibs PROVE rlibs[i].objects \in Seq(SUBSET Global)
  <2> DEFINE Rlib == [api : BOOLEAN, objects : Seq(SUBSET Global)]
  <2>1. rlibs \in Seq(Rlib)
    BY <1>1
  <2>2. \A r \in Rlib : r.objects \in Seq(SUBSET Global)
    OBVIOUS
  <2> HIDE DEF Rlib
  <2>3. rlibs[i] \in Rlib
    BY <1>3, <2>1
  <2>4. QED
    BY <2>2, <2>3
<1>4. ASSUME NEW i \in DOMAIN rlibs
      PROVE  /\ DOMAIN rlibs[i].objects = 1 .. Len(rlibs[i].objects) /\ Len(rlibs[i].objects) \in Nat
             /\ \A k \in DOMAIN rlibs[i].objects : rlibs[i].objects[k] \in SUBSET Global
  BY <1>3
<1>5. QED
  BY <1>1, <1>2, <1>4

\* No API crate defines a stable name.
LEMMA DefinedIsGlobal ==
    ASSUME SymbolsTyped
    PROVE  Defined \subseteq Global
BY RlibFacts DEF Defined, GlobalsOf

LEMMA AddAliasKeeps ==
    ASSUME SymbolsInv, AddAlias
    PROVE  SymbolsInv'
<1> DEFINE s == symbols[nth]
<1>1. /\ task = "aliases" /\ nth \in DOMAIN symbols /\ symbols \in Seq(AliasedSymbol)
      /\ s \in AliasedSymbol /\ nth \in Nat \ {0}
      /\ UNCHANGED <<abis, rlibs, member, defining, inputs, support, imports>>
  BY DEF SymbolsInv, SymbolsTyped, AddAlias
<1>2. Matches(s) \in SUBSET Global
  BY DefinedIsGlobal DEF SymbolsInv, Matches
<1>3. CASE task' = "refused" /\ UNCHANGED <<symbols, nth>>
  BY <1>1, <1>3 DEF SymbolsInv, SymbolsTyped, AliasInv, InputsInv, LibrariesInv
<1>4. CASE nth' = nth + 1 /\ UNCHANGED <<symbols, task>>
  BY <1>1, <1>4 DEF SymbolsInv, SymbolsTyped, AliasInv, InputsInv, LibrariesInv
<1>5. CASE /\ s.path \in DOMAIN abis /\ abis[s.path] = s.abi
           /\ symbols' = [symbols EXCEPT ![nth].aliases = Matches(s)]
           /\ nth' = nth + 1 /\ UNCHANGED task
  <2>1. symbols' = [symbols EXCEPT ![nth] = [s EXCEPT !.aliases = Matches(s)]]
    BY <1>5
  <2>2. /\ [s EXCEPT !.aliases = Matches(s)] \in AliasedSymbol
        /\ [s EXCEPT !.aliases = Matches(s)].aliases = Matches(s)
        /\ [s EXCEPT !.aliases = Matches(s)].path = s.path
        /\ [s EXCEPT !.aliases = Matches(s)].abi = s.abi
    BY <1>1, <1>2 DEF AliasedSymbol
  <2>3. /\ symbols' \in Seq(AliasedSymbol) /\ DOMAIN symbols' = DOMAIN symbols
        /\ \A i \in DOMAIN symbols : i # nth => symbols'[i] = symbols[i]
        /\ symbols'[nth] = [s EXCEPT !.aliases = Matches(s)]
    BY <1>1, <2>1, <2>2
  <2>4. \A n \in Matches(s) : n.path = s.path
    BY DEF Matches
  <2>5. AliasInv'
    <3>1. ASSUME NEW i \in DOMAIN symbols', NEW n \in symbols'[i].aliases
          PROVE  n.path = symbols'[i].path /\ n.path \in DOMAIN abis /\ abis[n.path] = symbols'[i].abi
      <4>1. CASE i = nth
        BY <1>5, <2>2, <2>3, <2>4, <3>1, <4>1
      <4>2. CASE i # nth
        BY <2>3, <3>1, <4>2 DEF SymbolsInv, AliasInv
      <4>3. QED
        BY <4>1, <4>2
    <3>2. QED
      BY <1>1, <3>1 DEF AliasInv
  <2>6. SymbolsTyped' /\ InputsInv' /\ LibrariesInv'
    BY <1>1, <1>5, <2>3 DEF SymbolsInv, SymbolsTyped, InputsInv, LibrariesInv
  <2>7. QED
    BY <2>5, <2>6 DEF SymbolsInv
<1>6. QED
  BY <1>1, <1>3, <1>4, <1>5 DEF AddAlias

LEMMA ValidateKeeps ==
    ASSUME SymbolsInv, Validate
    PROVE  SymbolsInv'
<1>1. /\ task = "aliases"
      /\ UNCHANGED <<symbols, abis, rlibs, member, defining, inputs, support, imports>>
  BY DEF Validate
<1>2. CASE ManifestValid /\ task' = "support" /\ nth' = 1
  <2>1. ManifestValid'
    BY <1>1, <1>2 DEF ManifestValid, NamesOfSymbol
  <2>2. Taken' = {}
    <3>1. DOMAIN rlibs' = 1 .. Len(rlibs) /\ Len(rlibs) \in Nat /\ member' = 1
          /\ \A i \in DOMAIN rlibs' : DOMAIN rlibs'[i].objects = 1 .. Len(rlibs'[i].objects)
                                      /\ Len(rlibs'[i].objects) \in Nat
      BY <1>1, RlibFacts DEF SymbolsInv, InputsInv
    <3>2. QED
      BY <1>2, <3>1 DEF Taken
  <2>3. QED
    BY <1>1, <1>2, <2>1, <2>2 DEF SymbolsInv, SymbolsTyped, AliasInv, InputsInv, LibrariesInv
<1>3. CASE task' = "refused" /\ UNCHANGED nth
  BY <1>1, <1>3 DEF SymbolsInv, SymbolsTyped, AliasInv, InputsInv, LibrariesInv
<1>4. QED
  BY <1>2, <1>3 DEF Validate

\* The names of an object are those passed by the next step.
LEMMA TakenObject ==
    ASSUME SymbolsTyped, nth \in DOMAIN rlibs, member \in DOMAIN rlibs[nth].objects,
           member' = member + 1, UNCHANGED <<rlibs, nth>>
    PROVE  Taken' = Taken \cup rlibs[nth].objects[member]
<1>1. /\ DOMAIN rlibs = 1 .. Len(rlibs) /\ Len(rlibs) \in Nat
      /\ \A i \in DOMAIN rlibs :
            /\ DOMAIN rlibs[i].objects = 1 .. Len(rlibs[i].objects) /\ Len(rlibs[i].objects) \in Nat
            /\ \A k \in DOMAIN rlibs[i].objects : rlibs[i].objects[k] \in SUBSET Global
  BY RlibFacts
<1>2. \A k \in Nat : k < member + 1 <=> (k < member \/ k = member)
  BY DEF SymbolsTyped
<1>3. \A i \in DOMAIN rlibs : \A k \in DOMAIN rlibs[i].objects :
          (i < nth \/ (i = nth /\ k < member + 1))
              <=> (i < nth \/ (i = nth /\ k < member) \/ (i = nth /\ k = member))
  BY <1>1, <1>2
<1>4. QED
  BY <1>1, <1>3 DEF Taken

LEMMA TakeObjectKeeps ==
    ASSUME SymbolsInv, TakeObject
    PROVE  SymbolsInv'
<1> DEFINE object == rlibs[nth].objects[member]
<1>1. /\ task = "support" /\ nth \in Nat \ {0} /\ member \in Nat \ {0}
      /\ nth <= Len(rlibs) /\ member <= Len(rlibs[nth].objects)
      /\ inputs' = (IF object = {} THEN inputs ELSE Append(inputs, object \ defining))
      /\ defining' = defining \cup object
      /\ member' = member + 1
      /\ UNCHANGED <<symbols, abis, rlibs, task, nth, support, imports>>
  BY DEF SymbolsInv, SymbolsTyped, TakeObject, AtObject
<1>2. /\ nth \in DOMAIN rlibs /\ member \in DOMAIN rlibs[nth].objects /\ object \in SUBSET Global
  BY <1>1, RlibFacts DEF SymbolsInv
<1>3. Taken' = defining'
  BY <1>1, <1>2, TakenObject DEF SymbolsInv, InputsInv
<1>4. /\ inputs' \in Seq(SUBSET Global)
      /\ UNION {inputs'[i] : i \in DOMAIN inputs'} = defining'
      /\ \A i, j \in DOMAIN inputs' : i # j => inputs'[i] \cap inputs'[j] = {}
  <2>1. /\ inputs \in Seq(SUBSET Global) /\ UNION {inputs[i] : i \in DOMAIN inputs} = defining
        /\ \A i, j \in DOMAIN inputs : i # j => inputs[i] \cap inputs[j] = {}
    BY DEF SymbolsInv, SymbolsTyped, InputsInv
  <2>2. CASE object = {}
    BY <1>1, <2>1, <2>2
  <2>3. CASE object # {}
    <3> DEFINE kept == object \ defining
    <3>1. inputs' = Append(inputs, kept) /\ kept \in SUBSET Global
      BY <1>1, <1>2, <2>3
    <3> HIDE DEF kept
    <3>2. /\ inputs' \in Seq(SUBSET Global) /\ DOMAIN inputs = 1 .. Len(inputs) /\ Len(inputs) \in Nat
          /\ DOMAIN inputs' = 1 .. Len(inputs) + 1
          /\ \A i \in 1 .. Len(inputs) : inputs'[i] = inputs[i]
          /\ inputs'[Len(inputs) + 1] = kept
      BY <2>1, <3>1
    <3>3. \A i \in DOMAIN inputs' : i \in DOMAIN inputs \/ i = Len(inputs) + 1
      BY <3>2
    <3>4. Len(inputs) + 1 \in DOMAIN inputs' /\ DOMAIN inputs \subseteq DOMAIN inputs'
      BY <3>2
    <3>5. UNION {inputs'[i] : i \in DOMAIN inputs'} = defining \cup kept
      <4>1. ASSUME NEW n \in defining \cup kept PROVE \E i \in DOMAIN inputs' : n \in inputs'[i]
        <5>1. CASE n \in kept
          BY <3>2, <3>4, <5>1
        <5>2. CASE n \in defining
          <6>1. PICK i \in DOMAIN inputs : n \in inputs[i]
            BY <2>1, <5>2
          <6>2. QED
            BY <3>2, <3>4, <6>1
        <5>3. QED
          BY <5>1, <5>2
      <4>2. ASSUME NEW i \in DOMAIN inputs' PROVE inputs'[i] \subseteq defining \cup kept
        <5>1. CASE i \in DOMAIN inputs
          BY <2>1, <3>2, <5>1
        <5>2. CASE i = Len(inputs) + 1
          BY <3>2, <5>2
        <5>3. QED
          BY <3>3, <5>1, <5>2
      <4>3. QED
        BY <4>1, <4>2
    <3>6. ASSUME NEW i \in DOMAIN inputs', NEW j \in DOMAIN inputs', i # j
          PROVE  inputs'[i] \cap inputs'[j] = {}
      <4>1. \A k \in DOMAIN inputs : inputs'[k] = inputs[k] /\ inputs[k] \cap kept = {}
        BY <2>1, <3>2 DEF kept
      <4>2. CASE i \in DOMAIN inputs /\ j \in DOMAIN inputs
        BY <2>1, <3>6, <4>1, <4>2
      <4>3. CASE i \in DOMAIN inputs /\ j = Len(inputs) + 1
        BY <3>2, <4>1, <4>3
      <4>4. CASE j \in DOMAIN inputs /\ i = Len(inputs) + 1
        BY <3>2, <4>1, <4>4
      <4>5. QED
        BY <3>3, <3>6, <4>2, <4>3, <4>4
    <3>7. defining \cup kept = defining'
      BY <1>1 DEF kept
    <3>8. QED
      BY <3>2, <3>5, <3>6, <3>7
  <2>4. QED
    BY <2>2, <2>3
<1>5. SymbolsTyped'
  BY <1>1, <1>4 DEF SymbolsInv, SymbolsTyped
<1>6. InputsInv'
  BY <1>1, <1>3, <1>4 DEF InputsInv
<1>7. AliasInv' /\ LibrariesInv'
  BY <1>1 DEF SymbolsInv, AliasInv, LibrariesInv, ManifestValid, NamesOfSymbol
<1>8. QED
  BY <1>5, <1>6, <1>7 DEF SymbolsInv

LEMMA NextRlibKeeps ==
    ASSUME SymbolsInv, NextRlib
    PROVE  SymbolsInv'
<1>1. /\ task = "support" /\ nth \in DOMAIN rlibs /\ member > Len(rlibs[nth].objects)
      /\ nth' = nth + 1 /\ member' = 1
      /\ UNCHANGED <<symbols, abis, rlibs, task, defining, inputs, support, imports>>
  BY RlibFacts DEF SymbolsInv, SymbolsTyped, NextRlib
<1>2. Taken' = Taken
  <2>1. /\ DOMAIN rlibs = 1 .. Len(rlibs) /\ Len(rlibs) \in Nat
        /\ \A i \in DOMAIN rlibs :
              DOMAIN rlibs[i].objects = 1 .. Len(rlibs[i].objects) /\ Len(rlibs[i].objects) \in Nat
        /\ nth \in Nat /\ member \in Nat
    BY RlibFacts DEF SymbolsInv, SymbolsTyped
  <2>2. ASSUME NEW i \in DOMAIN rlibs, NEW k \in DOMAIN rlibs[i].objects
        PROVE  (i < nth + 1 \/ (i = nth + 1 /\ k < 1)) <=> (i < nth \/ (i = nth /\ k < member))
    <3>1. i \in Nat /\ k \in Nat /\ k >= 1 /\ k <= Len(rlibs[i].objects)
      BY <2>1, <2>2
    <3>2. i = nth => k < member
      BY <1>1, <2>1, <3>1
    <3>3. QED
      BY <2>1, <3>1, <3>2
  <2>3. QED
    BY <1>1, <2>2 DEF Taken
<1>3. SymbolsTyped'
  BY <1>1 DEF SymbolsInv, SymbolsTyped
<1>4. InputsInv'
  BY <1>1, <1>2 DEF SymbolsInv, InputsInv
<1>5. AliasInv' /\ LibrariesInv'
  BY <1>1 DEF SymbolsInv, AliasInv, LibrariesInv, ManifestValid, NamesOfSymbol
<1>6. QED
  BY <1>3, <1>4, <1>5 DEF SymbolsInv

LEMMA LinkSupportKeeps ==
    ASSUME SymbolsInv, LinkSupport
    PROVE  SymbolsInv'
<1> DEFINE published == {n \in UNION {inputs[i] : i \in DOMAIN inputs} : IsSupport(n)}
<1>1. /\ task = "support" /\ nth > Len(rlibs) /\ nth \in Nat
      /\ UNCHANGED <<symbols, abis, rlibs, nth, member, defining, inputs, imports>>
  BY DEF SymbolsInv, SymbolsTyped, LinkSupport
<1>2. CASE support' = published /\ task' = "imports"
  <2>1. \A n : n \in defining <=> \E i \in DOMAIN rlibs : \E k \in DOMAIN rlibs[i].objects :
                                      n \in rlibs[i].objects[k]
    <3>1. \A i \in DOMAIN rlibs : i < nth
      BY <1>1, RlibFacts DEF SymbolsInv
    <3>2. \A i \in DOMAIN rlibs : \A k \in DOMAIN rlibs[i].objects : rlibs[i].objects[k] \in SUBSET Global
      BY RlibFacts DEF SymbolsInv
    <3>3. QED
      BY <1>1, <3>1, <3>2 DEF SymbolsInv, InputsInv, Taken
  <2>2. defining = UNION {GlobalsOf(rlibs[i]) : i \in DOMAIN rlibs}
    BY <2>1 DEF GlobalsOf
  <2>3. ASSUME NEW n \in defining PROVE IsSupport(n) <=> n.path[1] \in Compilers /\ ~Misread(n)
    <3>1. PICK i \in DOMAIN rlibs : \E k \in DOMAIN rlibs[i].objects : n \in rlibs[i].objects[k]
      BY <2>1, <2>3
    <3>2. n \in Global /\ (n.path[1] \in Compilers => n.form # "plain")
      BY <3>1, RlibFacts DEF SymbolsInv
    <3>3. n.form \in {"legacy", "v0", "plain"}
      BY <3>2 DEF Global
    <3>4. QED
      BY <3>2, <3>3 DEF IsSupport
  <2>4. published = {n \in defining : IsSupport(n)}
    BY DEF SymbolsInv, InputsInv
  <2>5. support' = {n \in CompilerNames : ~Misread(n)}
    <3> HIDE DEF published
    <3>1. \A n : n \in published <=> n \in CompilerNames /\ ~Misread(n)
      BY <2>2, <2>3, <2>4 DEF CompilerNames
    <3>2. QED
      BY <1>2, <3>1
  <2>6. LibrariesInv'
    <3>1. CompilerNames' = CompilerNames
      BY <1>1 DEF CompilerNames, GlobalsOf
    <3>2. QED
      BY <1>1, <1>2, <2>5, <3>1 DEF SymbolsInv, LibrariesInv, ManifestValid, NamesOfSymbol
  <2>7. QED
    BY <1>1, <1>2, <2>6 DEF SymbolsInv, SymbolsTyped, AliasInv, InputsInv
<1>3. CASE task' = "refused" /\ UNCHANGED support
  BY <1>1, <1>3 DEF SymbolsInv, SymbolsTyped, AliasInv, InputsInv, LibrariesInv
<1>4. QED
  BY <1>2, <1>3 DEF LinkSupport

LEMMA BuildImportLibraryKeeps ==
    ASSUME SymbolsInv, BuildImportLibrary
    PROVE  SymbolsInv'
<1>1. /\ task = "imports" /\ task' = "packed"
      /\ imports' = UNION {NamesOfSymbol(symbols[i]) : i \in DOMAIN symbols}
      /\ UNCHANGED <<symbols, abis, rlibs, nth, member, defining, inputs, support>>
  BY DEF BuildImportLibrary
<1>2. SymbolsTyped' /\ AliasInv' /\ InputsInv'
  BY <1>1 DEF SymbolsInv, SymbolsTyped, AliasInv, InputsInv
<1>3. ManifestValid' = ManifestValid
  BY <1>1 DEF ManifestValid, NamesOfSymbol
<1>4. /\ support' = support /\ CompilerNames' = CompilerNames
      /\ UNION {NamesOfSymbol(symbols[i])' : i \in DOMAIN symbols'} = imports'
  BY <1>1 DEF CompilerNames, GlobalsOf, NamesOfSymbol
<1>5. LibrariesInv'
  BY <1>1, <1>3, <1>4 DEF SymbolsInv, LibrariesInv
<1>6. QED
  BY <1>2, <1>5 DEF SymbolsInv

\* export_kernel_interface: the invariant of the passes over the names, for any
\* exports, methods, rlibs and hashes.
THEOREM SymbolsInductive == SymbolsSpec => []SymbolsInv
<1>1. SymbolsInit => SymbolsInv
  <2>1. SUFFICES ASSUME SymbolsInit PROVE SymbolsInv
    OBVIOUS
  <2>2. symbols \in Seq(ExportedSymbol)
    BY <2>1, SymbolAssumption DEF SymbolsInit
  <2>3. \A i \in DOMAIN symbols : symbols[i] \in AliasedSymbol /\ symbols[i].aliases = {}
    <3>1. \A i \in DOMAIN symbols : symbols[i] \in ExportedSymbol
      BY <2>2
    <3>2. \A s \in ExportedSymbol : s \in AliasedSymbol /\ s.aliases = {}
      BY DEF ExportedSymbol, AliasedSymbol
    <3>3. QED
      BY <3>1, <3>2
  <2>4. symbols \in Seq(AliasedSymbol)
    <3>1. Len(symbols) \in Nat /\ symbols = [i \in 1 .. Len(symbols) |-> symbols[i]]
      BY <2>2
    <3>2. \A i \in 1 .. Len(symbols) : symbols[i] \in AliasedSymbol
      BY <2>2, <2>3
    <3>3. QED
      BY <3>1, <3>2, IsASeq
  <2>5. inputs \in Seq(SUBSET Global) /\ DOMAIN inputs = {}
    BY <2>1 DEF SymbolsInit
  <2>6. UNION {inputs[i] : i \in DOMAIN inputs} = {}
    BY <2>5
  <2>7. QED
    BY <2>1, <2>3, <2>4, <2>5, <2>6
    DEF SymbolsInit, SymbolsInv, SymbolsTyped, AliasInv, InputsInv, LibrariesInv
<1>2. ASSUME SymbolsInv, [SymbolsNext]_symbolVars PROVE SymbolsInv'
  <2>1. CASE SymbolsNext
    BY <1>2, <2>1, AddAliasKeeps, ValidateKeeps, TakeObjectKeeps, NextRlibKeeps, LinkSupportKeeps,
       BuildImportLibraryKeeps DEF SymbolsNext
  <2>2. CASE UNCHANGED symbolVars
    <3>1. CompilerNames' = CompilerNames
      BY <2>2 DEF CompilerNames, GlobalsOf, symbolVars
    <3>2. SymbolsTyped' /\ AliasInv' /\ InputsInv'
      BY <1>2, <2>2 DEF SymbolsInv, SymbolsTyped, AliasInv, InputsInv, Taken, symbolVars
    <3>3. LibrariesInv'
      <4>1. ManifestValid' = ManifestValid
        BY <2>2 DEF ManifestValid, NamesOfSymbol, symbolVars
      <4>2. UNION {NamesOfSymbol(symbols[i])' : i \in DOMAIN symbols'}
            = UNION {NamesOfSymbol(symbols[i]) : i \in DOMAIN symbols}
        BY <2>2 DEF NamesOfSymbol, symbolVars
      <4>3. UNCHANGED <<task, support, imports>>
        BY <2>2 DEF symbolVars
      <4>4. QED
        BY <1>2, <3>1, <4>1, <4>2, <4>3 DEF SymbolsInv, LibrariesInv
    <3>4. QED
      BY <3>2, <3>3 DEF SymbolsInv
  <2>3. QED
    BY <1>2, <2>1, <2>2
<1>3. QED
  BY <1>1, <1>2, PTL DEF SymbolsSpec

\* export_kernel_interface and symbol_by_link_name: each name of the import
\* library is one symbol's; what the rlibs define under it has the ABI of the
\* export; and packing finds no other symbol for it.
THEOREM NamesLeadHomeHolds == SymbolsSpec => []NamesLeadHome
<1>1. ASSUME SymbolsInv PROVE NamesLeadHome
  <2>1. SUFFICES ASSUME task = "packed", NEW n \in imports
                 PROVE  \E i \in DOMAIN symbols :
                            /\ n \in NamesOfSymbol(symbols[i]) /\ SymbolByLinkName(n) \subseteq {i}
                            /\ \A j \in DOMAIN symbols \ {i} : n \notin NamesOfSymbol(symbols[j])
                            /\ n \in Defined => n.path = symbols[i].path /\ abis[n.path] = symbols[i].abi
    BY DEF NamesLeadHome
  <2>2. ManifestValid /\ imports = UNION {NamesOfSymbol(symbols[k]) : k \in DOMAIN symbols}
    BY <1>1, <2>1 DEF SymbolsInv, LibrariesInv
  <2>3. PICK i \in DOMAIN symbols : n \in NamesOfSymbol(symbols[i])
    BY <2>1, <2>2
  <2>4. \A j \in DOMAIN symbols \ {i} : n \notin NamesOfSymbol(symbols[j])
    BY <2>2, <2>3 DEF ManifestValid
  <2>5. SymbolByLinkName(n) \subseteq {i}
    <3>1. i \in Found(n)
      BY <2>3 DEF Found, Answers
    <3>2. IsFiniteSet(Found(n))
      <4>1. IsFiniteSet(DOMAIN symbols)
        <5>1. DOMAIN symbols = 1 .. Len(symbols) /\ Len(symbols) \in Nat
          BY <1>1 DEF SymbolsInv, SymbolsTyped
        <5>2. QED
          BY <5>1, FS_Interval
      <4>2. QED
        BY <4>1, FS_Subset DEF Found
    <3>3. ASSUME Cardinality(Found(n)) = 1, NEW j \in Found(n) PROVE j = i
      BY <3>1, <3>2, <3>3, FS_Singleton
    <3>4. QED
      BY <3>3 DEF SymbolByLinkName
  <2>6. ASSUME n \in Defined PROVE n.path = symbols[i].path /\ abis[n.path] = symbols[i].abi
    <3>1. n.form # "stable"
      BY <1>1, <2>6, DefinedIsGlobal DEF SymbolsInv, Global
    <3>2. n \in symbols[i].aliases
      BY <2>3, <3>1 DEF NamesOfSymbol, LinkName
    <3>3. QED
      BY <1>1, <3>2 DEF SymbolsInv, AliasInv
  <2>7. QED
    BY <2>3, <2>4, <2>5, <2>6
<1>2. QED
  BY <1>1, SymbolsInductive, PTL

\* build_rust_support_library: the support library links, has each core and alloc
\* symbol of the closure without an underscore before its crate root, and nothing
\* of other crates or of what modules import.
THEOREM SupportIsCompilersHolds == SymbolsSpec => []SupportIsCompilers
<1>1. ASSUME SymbolsInv PROVE SupportIsCompilers
  <2>1. ASSUME task \in {"imports", "packed"} PROVE support = {n \in CompilerNames : ~Misread(n)}
    BY <1>1, <2>1 DEF SymbolsInv, LibrariesInv
  <2>2. ASSUME task = "packed" PROVE support \cap imports = {}
    <3>1. SUFFICES ASSUME NEW n \in support, n \in imports PROVE FALSE
      OBVIOUS
    <3>2. n \in UNION {GlobalsOf(rlibs[i]) : i \in DOMAIN rlibs} /\ n.path[1] \in Compilers
      BY <2>1, <2>2, <3>1 DEF CompilerNames
    <3>3. PICK i \in DOMAIN symbols : n \in NamesOfSymbol(symbols[i])
      BY <1>1, <2>2, <3>1 DEF SymbolsInv, LibrariesInv
    <3>4. n \in Global
      BY <1>1, <3>2, RlibFacts DEF SymbolsInv, GlobalsOf
    <3>5. n \in symbols[i].aliases
      <4>1. n.form # "stable"
        BY <3>4 DEF Global
      <4>2. QED
        BY <3>3, <4>1 DEF NamesOfSymbol, LinkName
    <3>6. n.path \in DOMAIN abis /\ abis \in PublicAbis
      BY <1>1, <3>5 DEF SymbolsInv, SymbolsTyped, AliasInv
    <3>7. QED
      BY <3>2, <3>6, SymbolAssumption
  <2>3. ASSUME NEW n, \A i \in DOMAIN n.lead : n.lead[i] # "_" PROVE ~Misread(n)
    BY <2>3 DEF Misread
  <2>4. \A i, j \in DOMAIN inputs : i # j => inputs[i] \cap inputs[j] = {}
    BY <1>1 DEF SymbolsInv, InputsInv
  <2>5. ASSUME task \in {"imports", "packed"}
        PROVE  /\ support \subseteq CompilerNames
               /\ \A n \in CompilerNames : (\A i \in DOMAIN n.lead : n.lead[i] # "_") => n \in support
    BY <2>1, <2>3, <2>5
  <2>6. QED
    BY <2>2, <2>4, <2>5 DEF SupportIsCompilers
<1>2. QED
  BY <1>1, SymbolsInductive, PTL


-----------------------------------------------------------------------------
(* The order of a list.  Ranked numbers the members of a finite set by a     *)
(* total order; Ascending and Arranged are two uses of it.                   *)

LEMMA RankFacts ==
    ASSUME NEW D, IsFiniteSet(D), NEW before \in SUBSET (D \X D),
           \A i \in D : <<i, i>> \notin before,
           \A i, j, k \in D : <<i, j>> \in before /\ <<j, k>> \in before => <<i, k>> \in before,
           \A i, j \in D : i # j => <<i, j>> \in before \/ <<j, i>> \in before
    PROVE  /\ Cardinality(D) \in Nat /\ DOMAIN Ranked(D, before) = 1 .. Cardinality(D)
           /\ \A n \in 1 .. Cardinality(D) : Ranked(D, before)[n] \in D
           /\ \A i \in D : \E n \in 1 .. Cardinality(D) : Ranked(D, before)[n] = i
           /\ \A m, n \in 1 .. Cardinality(D) :
                 m < n => <<Ranked(D, before)[m], Ranked(D, before)[n]>> \in before
<1> DEFINE size == Cardinality(D)
           below(i) == {j \in D : <<j, i>> \in before}
           place == [i \in D |-> 1 + Cardinality(below(i))]
           ranked == Ranked(D, before)
<1>1. size \in Nat
  BY FS_CardinalityType
<1>2. ASSUME NEW i \in D
      PROVE  IsFiniteSet(below(i)) /\ Cardinality(below(i)) \in Nat /\ place[i] \in 1 .. size
  <2>1. below(i) \in SUBSET (D \ {i})
    OBVIOUS
  <2>2. IsFiniteSet(D \ {i}) /\ Cardinality(D \ {i}) = size - 1
    BY FS_RemoveElement
  <2>3. IsFiniteSet(below(i)) /\ Cardinality(below(i)) <= size - 1
    <3> HIDE DEF below
    <3>1. QED
      BY <2>1, <2>2, FS_Subset
  <2>4. Cardinality(below(i)) \in Nat
    BY <2>3, FS_CardinalityType
  <2>5. place[i] = 1 + Cardinality(below(i))
    OBVIOUS
  <2>6. QED
    BY <1>1, <2>3, <2>4, <2>5
<1>3. ASSUME NEW i \in D, NEW j \in D, <<i, j>> \in before PROVE place[i] < place[j]
  <2>1. below(i) \cup {i} \subseteq below(j) /\ i \notin below(i)
    BY <1>3
  <2>2. Cardinality(below(i) \cup {i}) = Cardinality(below(i)) + 1
    BY <1>2, <2>1, FS_AddElement
  <2>3. Cardinality(below(i) \cup {i}) <= Cardinality(below(j))
    BY <1>2, <2>1, FS_Subset
  <2>4. place[i] = 1 + Cardinality(below(i)) /\ place[j] = 1 + Cardinality(below(j))
    OBVIOUS
  <2>5. Cardinality(below(i)) \in Nat /\ Cardinality(below(j)) \in Nat
    BY <1>2
  <2> HIDE DEF below, place
  <2>6. QED
    BY <2>2, <2>3, <2>4, <2>5
<1> HIDE DEF place
<1>4. \A i, j \in D : place[i] = place[j] => i = j
  <2>1. SUFFICES ASSUME NEW i \in D, NEW j \in D, place[i] = place[j], i # j PROVE FALSE
    OBVIOUS
  <2>2. place[i] < place[j] \/ place[j] < place[i]
    BY <1>3, <2>1
  <2>3. place[i] \in Nat /\ place[j] \in Nat
    <3>1. 1 .. size \subseteq Nat
      BY <1>1
    <3>2. QED
      BY <1>2, <3>1
  <2>4. QED
    BY <2>1, <2>2, <2>3
<1>5. place \in Injection(D, 1 .. size)
  BY <1>2, <1>4 DEF Injection, IsInjective, place
<1>6. place \in Surjection(D, 1 .. size)
  <2>1. IsFiniteSet(1 .. size) /\ Cardinality(1 .. size) = size
    BY <1>1, FS_Interval
  <2>2. QED
    BY <1>5, <2>1, FS_Injection
<1>7. ASSUME NEW n \in 1 .. size PROVE ranked[n] \in D /\ place[ranked[n]] = n
  <2>1. \E i \in D : n = place[i]
    BY <1>6 DEF Surjection
  <2>2. \A i \in D : place[i] = 1 + Cardinality({j \in D : <<j, i>> \in before})
    BY DEF place
  <2>3. \E i \in D : n = 1 + Cardinality({j \in D : <<j, i>> \in before})
    BY <2>1, <2>2
  <2>4. ranked[n] = CHOOSE i \in D : n = 1 + Cardinality({j \in D : <<j, i>> \in before})
    BY DEF Ranked
  <2>5. ranked[n] \in D /\ n = 1 + Cardinality({j \in D : <<j, ranked[n]>> \in before})
    BY <2>3, <2>4
  <2>6. QED
    BY <2>2, <2>5
<1>8. ASSUME NEW i \in D PROVE place[i] \in 1 .. size /\ ranked[place[i]] = i
  BY <1>2, <1>4, <1>7
<1>9. ASSUME NEW m \in 1 .. size, NEW n \in 1 .. size, m < n PROVE <<ranked[m], ranked[n]>> \in before
  <2>1. ranked[m] # ranked[n]
    BY <1>7, <1>9
  <2>2. <<ranked[n], ranked[m]>> \notin before
    BY <1>1, <1>3, <1>7, <1>9
  <2>3. QED
    BY <1>7, <2>1, <2>2
<1>10. DOMAIN ranked = 1 .. size
  BY DEF Ranked
<1>11. QED
  BY <1>1, <1>7, <1>8, <1>9, <1>10

\* Ascending lists the numbers of a set, the least one first.
LEMMA AscendingFacts ==
    ASSUME NEW n \in Nat, NEW S \in SUBSET (1 .. n)
    PROVE  /\ IsFiniteSet(S) /\ Cardinality(S) \in Nat
           /\ DOMAIN Ascending(S) = 1 .. Cardinality(S)
           /\ \A k \in 1 .. Cardinality(S) : Ascending(S)[k] \in S
           /\ \A i \in S : \E k \in 1 .. Cardinality(S) : Ascending(S)[k] = i
           /\ \A k, l \in 1 .. Cardinality(S) : k < l => Ascending(S)[k] < Ascending(S)[l]
<1> DEFINE before == {p \in S \X S : p[1] < p[2]}
<1>1. IsFiniteSet(S)
  <2>1. IsFiniteSet(1 .. n)
    BY FS_Interval
  <2>2. QED
    BY <2>1, FS_Subset
<1>2. \A i, j \in S : <<i, j>> \in before <=> i < j
  OBVIOUS
<1>3. before \in SUBSET (S \X S)
  OBVIOUS
<1> HIDE DEF before
<1>4. /\ \A i \in S : <<i, i>> \notin before
      /\ \A i, j, k \in S : <<i, j>> \in before /\ <<j, k>> \in before => <<i, k>> \in before
      /\ \A i, j \in S : i # j => <<i, j>> \in before \/ <<j, i>> \in before
  BY <1>2
<1>5. Ascending(S) = Ranked(S, before)
  BY DEF Ascending, before
<1>6. /\ Cardinality(S) \in Nat /\ DOMAIN Ranked(S, before) = 1 .. Cardinality(S)
      /\ \A k \in 1 .. Cardinality(S) : Ranked(S, before)[k] \in S
      /\ \A i \in S : \E k \in 1 .. Cardinality(S) : Ranked(S, before)[k] = i
      /\ \A k, l \in 1 .. Cardinality(S) :
            k < l => <<Ranked(S, before)[k], Ranked(S, before)[l]>> \in before
  BY <1>1, <1>3, <1>4, RankFacts
<1>7. QED
  BY <1>1, <1>2, <1>5, <1>6

\* Picked has the items at the places of a set.
LEMMA PickedFacts ==
    ASSUME NEW X, NEW s \in Seq(X), NEW S \in SUBSET (DOMAIN s)
    PROVE  /\ Picked(s, S) \in Seq(X)
           /\ Entry(Picked(s, S)) = {s[i] : i \in S}
           /\ 1 \in S => Picked(s, S) # <<>> /\ Picked(s, S)[1] = s[1]
<1> DEFINE picked == Picked(s, S)
<1>1. DOMAIN s = 1 .. Len(s) /\ Len(s) \in Nat
  OBVIOUS
<1>2. /\ Cardinality(S) \in Nat
      /\ \A k \in 1 .. Cardinality(S) : Ascending(S)[k] \in S
      /\ \A i \in S : \E k \in 1 .. Cardinality(S) : Ascending(S)[k] = i
      /\ \A k, l \in 1 .. Cardinality(S) : k < l => Ascending(S)[k] < Ascending(S)[l]
  BY <1>1, AscendingFacts
<1>3. picked = [k \in 1 .. Cardinality(S) |-> s[Ascending(S)[k]]]
  BY DEF Picked
<1> HIDE DEF picked
<1>4. \A k \in 1 .. Cardinality(S) : picked[k] = s[Ascending(S)[k]] /\ picked[k] \in X
  BY <1>2, <1>3
<1>5. picked \in Seq(X)
  BY <1>2, <1>3, <1>4, IsASeq
<1>6. DOMAIN picked = 1 .. Cardinality(S)
  BY <1>3
<1>7. Entry(picked) = {s[i] : i \in S}
  <2>1. Entry(picked) = {picked[k] : k \in 1 .. Cardinality(S)}
    BY <1>6 DEF Entry
  <2>2. ASSUME NEW k \in 1 .. Cardinality(S) PROVE \E i \in S : picked[k] = s[i]
    BY <1>2, <1>4
  <2>3. ASSUME NEW i \in S PROVE \E k \in 1 .. Cardinality(S) : picked[k] = s[i]
    BY <1>2, <1>4
  <2>4. QED
    BY <2>1, <2>2, <2>3
<1>8. ASSUME 1 \in S PROVE picked # <<>> /\ picked[1] = s[1]
  <2>1. PICK k \in 1 .. Cardinality(S) : Ascending(S)[k] = 1
    BY <1>2, <1>8
  <2>2. 1 \in 1 .. Cardinality(S) /\ Ascending(S)[1] \in 1 .. Len(s)
    BY <1>1, <1>2, <2>1
  <2>3. k = 1
    <3>1. SUFFICES ASSUME k # 1 PROVE FALSE
      OBVIOUS
    <3>2. Ascending(S)[1] < 1
      BY <1>2, <2>1, <2>2, <3>1
    <3>3. QED
      BY <2>2, <3>2
  <2>4. picked[1] = s[1]
    BY <1>4, <2>1, <2>2, <2>3
  <2>5. picked # <<>>
    <3>1. 1 \in DOMAIN picked
      BY <1>6, <2>2
    <3>2. ASSUME picked = <<>> PROVE DOMAIN picked = {}
      BY <3>2
    <3>3. QED
      BY <3>1, <3>2
  <2>6. QED
    BY <2>4, <2>5
<1>9. QED
  BY <1>5, <1>7, <1>8 DEF picked

\* Keys of one length are compared field by field, which is a total order.
LEMMA KeyOrder ==
    ASSUME NEW w \in Nat, NEW a \in [1 .. w -> Int], NEW b \in [1 .. w -> Int]
    PROVE  /\ ~KeyLess(a, a)
           /\ a # b => KeyLess(a, b) \/ KeyLess(b, a)
           /\ \A c \in [1 .. w -> Int] : KeyLess(a, b) /\ KeyLess(b, c) => KeyLess(a, c)
<1>1. ~KeyLess(a, a)
  BY DEF KeyLess
<1>2. ASSUME a # b PROVE KeyLess(a, b) \/ KeyLess(b, a)
  <2> DEFINE Differ == {k \in 1 .. w : a[k] # b[k]}
  <2>1. Differ \subseteq Nat /\ Differ # {}
    BY <1>2
  <2>2. PICK k \in Differ : \A m \in Differ : ~(<<m, k>> \in OpToRel(<, Nat))
    BY <2>1, NatLessThanWellFounded, WFMin
  <2>3. ASSUME NEW m \in 1 .. (k - 1) PROVE a[m] = b[m]
    <3>1. m \in Nat /\ k \in Nat /\ m < k /\ m \in 1 .. w
      BY <2>1
    <3>2. m \notin Differ
      BY <2>2, <3>1 DEF OpToRel
    <3>3. QED
      BY <3>1, <3>2
  <2>4. a[k] < b[k] \/ b[k] < a[k]
    <3>1. k \in 1 .. w /\ a[k] # b[k]
      OBVIOUS
    <3>2. a[k] \in Int /\ b[k] \in Int
      BY <3>1
    <3>3. QED
      BY <3>1, <3>2
  <2>5. QED
    BY <2>3, <2>4 DEF KeyLess
<1>3. ASSUME NEW c \in [1 .. w -> Int], KeyLess(a, b), KeyLess(b, c) PROVE KeyLess(a, c)
  <2>1. PICK k \in 1 .. w : a[k] < b[k] /\ \A m \in 1 .. (k - 1) : a[m] = b[m]
    BY <1>3 DEF KeyLess
  <2>2. PICK l \in 1 .. w : b[l] < c[l] /\ \A m \in 1 .. (l - 1) : b[m] = c[m]
    BY <1>3 DEF KeyLess
  <2>3. CASE k < l
    <3>1. a[k] < c[k] /\ \A m \in 1 .. (k - 1) : a[m] = c[m]
      BY <2>1, <2>2, <2>3
    <3>2. QED
      BY <3>1 DEF KeyLess
  <2>4. CASE l < k
    <3>1. a[l] < c[l] /\ \A m \in 1 .. (l - 1) : a[m] = c[m]
      BY <2>1, <2>2, <2>4
    <3>2. QED
      BY <3>1 DEF KeyLess
  <2>5. CASE k = l
    <3>1. a[k] < c[k] /\ \A m \in 1 .. (k - 1) : a[m] = c[m]
      BY <2>1, <2>2, <2>5
    <3>2. QED
      BY <3>1 DEF KeyLess
  <2>6. QED
    BY <2>3, <2>4, <2>5
<1>4. QED
  BY <1>1, <1>2, <1>3

\* The items of s in some order, none after one with a greater key.
Sorts(order, s, key) ==
    /\ order \in [DOMAIN s -> DOMAIN s]
    /\ \A n \in DOMAIN s :
          /\ Arranged(s, key)[n] = s[order[n]]
          /\ \A m \in DOMAIN s :
                m < n => KeyLess(key[order[m]], key[order[n]]) \/ key[order[m]] = key[order[n]]

\* Sorting a list leaves it the same items, none after one with a greater key.
LEMMA ArrangedFacts ==
    ASSUME NEW X, NEW s \in Seq(X), NEW w \in Nat, NEW key \in [DOMAIN s -> [1 .. w -> Int]]
    PROVE  /\ Arranged(s, key) \in Seq(X) /\ DOMAIN Arranged(s, key) = DOMAIN s
           /\ Entry(Arranged(s, key)) = Entry(s)
           /\ \E order : Sorts(order, s, key)
<1> DEFINE D == DOMAIN s
           before == {p \in D \X D : \/ KeyLess(key[p[1]], key[p[2]])
                                     \/ key[p[1]] = key[p[2]] /\ p[1] < p[2]}
           order == [n \in D |-> Ranked(D, before)[n]]
           arranged == Arranged(s, key)
<1>1. D = 1 .. Len(s) /\ Len(s) \in Nat /\ IsFiniteSet(D) /\ Cardinality(D) = Len(s)
  BY FS_Interval
<1>2. \A i \in D : key[i] \in [1 .. w -> Int]
  OBVIOUS
<1>3. \A i, j \in D : <<i, j>> \in before <=>
          KeyLess(key[i], key[j]) \/ (key[i] = key[j] /\ i < j)
  OBVIOUS
<1>4. before \in SUBSET (D \X D)
  OBVIOUS
<1> HIDE DEF before
<1>5. \A i \in D : <<i, i>> \notin before
  <2>1. ASSUME NEW i \in D PROVE <<i, i>> \notin before
    <3>1. ~KeyLess(key[i], key[i])
      BY <1>2, KeyOrder
    <3>2. ~(i < i)
      BY <1>1
    <3>3. QED
      BY <1>3, <3>1, <3>2
  <2>2. QED
    BY <2>1
<1>6. ASSUME NEW i \in D, NEW j \in D, NEW k \in D, <<i, j>> \in before, <<j, k>> \in before
      PROVE  <<i, k>> \in before
  <2>1. KeyLess(key[i], key[j]) \/ (key[i] = key[j] /\ i < j)
    BY <1>3, <1>6
  <2>2. KeyLess(key[j], key[k]) \/ (key[j] = key[k] /\ j < k)
    BY <1>3, <1>6
  <2>3. KeyLess(key[i], key[j]) /\ KeyLess(key[j], key[k]) => KeyLess(key[i], key[k])
    BY <1>2, KeyOrder
  <2>4. i < j /\ j < k => i < k
    BY <1>1
  <2>5. KeyLess(key[i], key[k]) \/ (key[i] = key[k] /\ i < k)
    BY <2>1, <2>2, <2>3, <2>4
  <2>6. QED
    BY <1>3, <2>5
<1>7. ASSUME NEW i \in D, NEW j \in D, i # j PROVE <<i, j>> \in before \/ <<j, i>> \in before
  <2>1. key[i] # key[j] => KeyLess(key[i], key[j]) \/ KeyLess(key[j], key[i])
    BY <1>2, KeyOrder
  <2>2. i < j \/ j < i
    BY <1>1, <1>7
  <2>3. QED
    BY <1>3, <2>1, <2>2
<1>8. /\ \A n \in D : Ranked(D, before)[n] \in D
      /\ \A i \in D : \E n \in D : Ranked(D, before)[n] = i
      /\ \A m, n \in D : m < n => <<Ranked(D, before)[m], Ranked(D, before)[n]>> \in before
  <2>1. /\ \A n \in 1 .. Cardinality(D) : Ranked(D, before)[n] \in D
        /\ \A i \in D : \E n \in 1 .. Cardinality(D) : Ranked(D, before)[n] = i
        /\ \A m, n \in 1 .. Cardinality(D) :
              m < n => <<Ranked(D, before)[m], Ranked(D, before)[n]>> \in before
    <3>1. IsFiniteSet(D) /\ before \in SUBSET (D \X D) /\ \A i \in D : <<i, i>> \notin before
      BY <1>1, <1>4, <1>5
    <3>2. \A i, j, k \in D : <<i, j>> \in before /\ <<j, k>> \in before => <<i, k>> \in before
      BY <1>6
    <3>3. \A i, j \in D : i # j => <<i, j>> \in before \/ <<j, i>> \in before
      BY <1>7
    <3> HIDE DEF D
    <3>4. QED
      BY <3>1, <3>2, <3>3, RankFacts
  <2>2. 1 .. Cardinality(D) = D
    BY <1>1
  <2>3. QED
    BY <2>1, <2>2
<1>9. arranged = [n \in D |-> s[Ranked(D, before)[n]]]
  BY DEF Arranged, before
<1>10. /\ order \in [D -> D] /\ arranged = [n \in D |-> s[order[n]]]
       /\ \A i \in D : \E n \in D : order[n] = i
       /\ \A m, n \in D : m < n => <<order[m], order[n]>> \in before
  BY <1>8, <1>9
<1> HIDE DEF order, arranged, D
<1>11. \A m, n \in D : m < n => KeyLess(key[order[m]], key[order[n]]) \/ key[order[m]] = key[order[n]]
  BY <1>3, <1>10
<1>12. \A n \in D : arranged[n] = s[order[n]] /\ arranged[n] \in X /\ s[n] \in X
  BY <1>10 DEF D
<1>13. arranged \in Seq(X) /\ DOMAIN arranged = D
  BY <1>1, <1>10, <1>12, IsASeq
<1>14. Entry(arranged) = Entry(s)
  <2>1. Entry(arranged) = {arranged[n] : n \in D} /\ Entry(s) = {s[i] : i \in D}
    BY <1>13 DEF Entry, D
  <2>2. ASSUME NEW n \in D PROVE \E i \in D : arranged[n] = s[i]
    BY <1>10, <1>12
  <2>3. ASSUME NEW i \in D PROVE \E n \in D : arranged[n] = s[i]
    BY <1>10, <1>12
  <2>4. QED
    BY <2>1, <2>2, <2>3
<1>15. Sorts(order, s, key)
  BY <1>10, <1>11, <1>12 DEF Sorts, arranged, D
<1>16. QED
  BY <1>13, <1>14, <1>15 DEF arranged, D
-----------------------------------------------------------------------------
(* Segments that follow one another page by page.                            *)

\* A number has one quotient.
LEMMA OneQuotient ==
    ASSUME NEW P \in Nat \ {0}, NEW p \in Int, NEW q \in Int, NEW r \in 0 .. P - 1, NEW s \in 0 .. P - 1,
           P * p + r = P * q + s
    PROVE  p = q
<1>1. \A a, b \in Int : a < b => P * (b - a) >= P
  <2> SUFFICES ASSUME NEW a \in Int, NEW b \in Int, a < b PROVE P * (b - a) >= P
    OBVIOUS
  <2>1. PICK d \in Nat : b - a = d + 1
    BY b - a - 1 \in Nat, b - a = (b - a - 1) + 1
  <2>2. P * (d + 1) = P * d + P /\ P * d >= 0
    OBVIOUS
  <2>3. QED
    BY <2>1, <2>2
<1>2. P * (q - p) = P * q - P * p /\ P * (p - q) = P * p - P * q /\ P * p \in Int /\ P * q \in Int
  OBVIOUS
<1>3. ~(p < q)
  BY <1>1, <1>2
<1>4. ~(q < p)
  BY <1>1, <1>2
<1>5. QED
  BY <1>3, <1>4

\* The least number of whole pages, which whole pages before it leave as it is.
LEMMA AlignUpFacts ==
    ASSUME Page \in Nat \ {0}, NEW n \in Nat
    PROVE  /\ AlignUp(n) \in Nat /\ AlignUp(n) >= n /\ AlignUp(0) = 0
           /\ \E q \in Nat : AlignUp(n) = Page * q
           /\ \A q \in Nat : AlignUp(Page * q + n) = Page * q + AlignUp(n)
<1>1. ASSUME NEW m \in Nat
      PROVE  /\ (m \div Page) \in Nat /\ (m % Page) \in 0 .. Page - 1
             /\ m = Page * (m \div Page) + (m % Page)
  <2>1. (m \div Page) \in Int /\ (m % Page) \in 0 .. Page - 1
    OBVIOUS
  <2>2. m = Page * (m \div Page) + (m % Page)
    OBVIOUS
  <2>3. (m \div Page) >= 0
    OBVIOUS
  <2>4. QED
    BY <2>1, <2>2, <2>3
<1>2. PICK p \in Nat, r \in 0 .. Page - 1 : p = (n + Page - 1) \div Page /\ n + Page - 1 = Page * p + r
  BY <1>1, n + Page - 1 \in Nat
<1>3. AlignUp(n) = Page * p /\ Page * p \in Nat
  BY <1>2 DEF AlignUp
<1>4. Page * p >= n
  BY <1>2, <1>3
<1>5. AlignUp(0) = 0
  <2>1. PICK p0 \in Nat, r0 \in 0 .. Page - 1 : p0 = (0 + Page - 1) \div Page /\ 0 + Page - 1 = Page * p0 + r0
    BY <1>1, 0 + Page - 1 \in Nat
  <2>2. Page * 0 + (Page - 1) = Page * p0 + r0 /\ Page - 1 \in 0 .. Page - 1
    BY <2>1
  <2>3. p0 = 0
    BY <2>2, OneQuotient
  <2>4. QED
    BY <2>1, <2>3 DEF AlignUp
<1>6. ASSUME NEW q \in Nat PROVE AlignUp(Page * q + n) = Page * q + AlignUp(n)
  <2>1. Page * q \in Nat /\ Page * q + n + Page - 1 \in Nat
    OBVIOUS
  <2>2. PICK t \in Nat, s \in 0 .. Page - 1 :
           t = (Page * q + n + Page - 1) \div Page /\ Page * q + n + Page - 1 = Page * t + s
    BY <1>1, <2>1
  <2>3. Page * (q + p) = Page * q + Page * p
    OBVIOUS
  <2>4. Page * (q + p) + r = Page * t + s
    BY <1>2, <1>3, <2>1, <2>2, <2>3
  <2>5. t = q + p
    BY <2>4, OneQuotient, q + p \in Int
  <2>6. AlignUp(Page * q + n) = t * Page
    BY <2>2 DEF AlignUp
  <2>7. QED
    BY <2>5, <2>6, <2>3, <1>3
<1>7. QED
  BY <1>3, <1>4, <1>5, <1>6

\* A segment begins where the ones before it end, or later.
LEMMA LayoutFacts ==
    ASSUME Page \in Nat \ {0}, LayoutValid, NEW n \in Nat, DOMAIN segments = 1 .. n,
           \A i \in 1 .. n : segments[i].vaddr \in Nat /\ segments[i].mem \in Nat
    PROVE  /\ \A i \in 1 .. n : \E q \in Nat : segments[i].vaddr = Page * q
           /\ \A i, j \in 1 .. n : i < j => segments[i].vaddr + segments[i].mem <= segments[j].vaddr
<1>1. \A i \in 1 .. n : segments[i].vaddr =
         IF i = 1 THEN 0 ELSE AlignUp(segments[i - 1].vaddr + segments[i - 1].mem)
  BY DEF LayoutValid
<1>2. ASSUME NEW i \in 1 .. n PROVE \E q \in Nat : segments[i].vaddr = Page * q
  <2>1. CASE i = 1
    BY <1>1, <2>1, Page * 0 = 0
  <2>2. CASE i # 1
    <3>1. i - 1 \in 1 .. n
      BY <2>2
    <3>2. PICK m \in Nat : m = segments[i - 1].vaddr + segments[i - 1].mem
      BY <3>1
    <3>3. segments[i].vaddr = AlignUp(m)
      BY <1>1, <2>2, <3>2
    <3>4. QED
      BY <3>3, AlignUpFacts
  <2>3. QED
    BY <2>1, <2>2
<1>3. ASSUME NEW i \in 1 .. n, NEW j \in 1 .. n, i < j
      PROVE  segments[i].vaddr + segments[i].mem <= segments[j].vaddr
  <2> DEFINE Late == {k \in 1 .. n : i < k /\ ~(segments[i].vaddr + segments[i].mem <= segments[k].vaddr)}
  <2>1. SUFFICES ASSUME Late # {} PROVE FALSE
    BY <1>3
  <2>2. Late \in SUBSET Nat
    OBVIOUS
  <2>3. PICK k \in Late : \A m \in Late : <<m, k>> \notin OpToRel(<, Nat)
    BY <2>1, <2>2, NatLessThanWellFounded, WFMin
  <2>4. \A m \in Late : ~(m < k)
    BY <2>2, <2>3 DEF OpToRel
  <2>5. k \in 1 .. n /\ i < k /\ k - 1 \in 1 .. n /\ k # 1 /\ k - 1 \notin Late
    <3>1. k \in 1 .. n /\ i < k
      OBVIOUS
    <3>2. k - 1 \in 1 .. n /\ k # 1 /\ k - 1 < k
      BY <3>1
    <3>3. k - 1 \notin Late
      BY <2>4, <3>2
    <3>4. QED
      BY <3>1, <3>2, <3>3
  <2>6. segments[i].vaddr + segments[i].mem <= segments[k - 1].vaddr + segments[k - 1].mem
    <3>1. segments[i].vaddr \in Nat /\ segments[i].mem \in Nat
          /\ segments[k - 1].vaddr \in Nat /\ segments[k - 1].mem \in Nat
      BY <2>5
    <3>2. CASE i = k - 1
      BY <3>1, <3>2
    <3>3. CASE i # k - 1
      <4>1. i < k - 1
        BY <2>5, <3>3
      <4>2. segments[i].vaddr + segments[i].mem <= segments[k - 1].vaddr
        BY <2>5, <4>1
      <4>3. QED
        BY <3>1, <4>2
    <3>4. QED
      BY <3>2, <3>3
  <2>7. segments[k].vaddr = AlignUp(segments[k - 1].vaddr + segments[k - 1].mem)
    BY <1>1, <2>5
  <2>8. segments[k].vaddr >= segments[k - 1].vaddr + segments[k - 1].mem
    <3>1. PICK m \in Nat : m = segments[k - 1].vaddr + segments[k - 1].mem
      BY <2>5
    <3>2. AlignUp(m) >= m
      BY AlignUpFacts
    <3>3. QED
      BY <2>7, <3>1, <3>2
  <2>9. segments[i].vaddr + segments[i].mem <= segments[k].vaddr
    BY <2>5, <2>6, <2>8
  <2>10. QED
    BY <2>9
<1>4. QED
  BY <1>2, <1>3
-----------------------------------------------------------------------------
(* The inductive invariant of an image: what has been made of the ELF file   *)
(* and of its metadata at each step.                                         *)

ShownTo == {"packed", "shown"}
Collected == {"write"} \cup ShownTo
Relocating == {"relocate"} \cup Collected
Retained == {"symbols"} \cup Relocating
Parsed == {"retain"} \cup Retained
LaidOut == {"metadata"} \cup Parsed

\* The segments are numbered in their order, and code is from executable loads.
SegmentsInv ==
    packing \in {"layout"} \cup LaidOut =>
        /\ DOMAIN segments = 1 .. Len(segments) /\ Len(segments) \in Nat
        /\ \A i \in DOMAIN segments :
              /\ segments[i].number = i /\ segments[i].file <= segments[i].mem
              /\ {segments[i].vaddr, segments[i].mem, segments[i].file, segments[i].offset} \subseteq Nat
              /\ segments[i].kind = "code" => \E load \in Entry(elf.loads) :
                    /\ load.flags = "rx" /\ segments[i].vaddr = load.vaddr
                    /\ segments[i].offset = load.offset /\ segments[i].file = load.file
        /\ packing # "layout" => LayoutValid

\* Linked imports are the ones with a slot, and the root stays in front.
ImportsInv ==
    packing \in Parsed =>
        /\ meta = [imports |-> meta.imports, exports |-> meta.exports, providers |-> meta.providers,
                   points |-> meta.points, extensions |-> meta.extensions, mixins |-> meta.mixins,
                   payloads |-> meta.payloads, snapshots |-> meta.snapshots]
        /\ meta.imports \in Seq(Entry(meta.imports)) /\ meta.imports # <<>> /\ meta.imports[1] = ApiRoot
        /\ packing = "retain" =>
              Entry(meta.imports) = {ApiRoot} \cup {x \in Entry(records) : x.kind = "import"}
        /\ packing = "symbols" => Entry(meta.imports) = LinkedImports
        /\ packing \in Relocating => {x \in Entry(meta.imports) : x.slot # NoSymbol} = LinkedImports
        /\ packing \in Relocating => \A name \in SymbolNames(meta) : Located(name)

\* The address of a relocation in the file, and that it lies in its segment.
PlaceOf(r, segs) == segs[r.segment].vaddr + r.offset
Placed(r, segs) ==
    /\ r.kind \in {"base", "import"}
    /\ r.segment \in DOMAIN segs /\ r.offset \in Nat /\ r.offset < segs[r.segment].mem

\* A relocation of a dynamic one, and the one of a slot.
OfEntry(r, e, segs, list) ==
    /\ PlaceOf(r, segs) = e.target /\ r.addend = e.addend
    /\ r.kind = "base" => e.type = "relative" /\ e.addend >= 0
    /\ r.kind = "import" => /\ e.type = "absolute" /\ r.import \in DOMAIN list
                            /\ e.symbol \in DOMAIN KernelSymbol
                            /\ Serves(list[r.import], KernelSymbol[e.symbol])
OfSlot(r, i) ==
    /\ r.kind = "import" /\ r.import = i /\ meta.imports[i].slot # NoSymbol
    /\ PlaceOf(r, segments) = SymbolOf(meta.imports[i].slot).value

\* Each entry that the loop has passed has its relocation, each import that the
\* loop has added is some relocation's, and in the end so is each slot.
RelocationsInv ==
    packing \in Relocating =>
        /\ relocations \in Seq(Entry(relocations))
        /\ DOMAIN relocations = 1 .. Len(relocations) /\ Len(relocations) \in Nat
        /\ nextEntry \in 1 .. Len(elf.entries) + 1
        /\ \A n \in DOMAIN relocations :
              /\ Placed(relocations[n], segments)
              /\ \/ \E k \in 1 .. nextEntry - 1 : OfEntry(relocations[n], elf.entries[k], segments, meta.imports)
                 \/ packing # "relocate" /\ \E i \in DOMAIN meta.imports : OfSlot(relocations[n], i)
        /\ \A k \in 1 .. nextEntry - 1 : \E n \in DOMAIN relocations :
              /\ OfEntry(relocations[n], elf.entries[k], segments, meta.imports)
              /\ relocations[n].kind = IF elf.entries[k].type = "relative" THEN "base" ELSE "import"
        /\ \A i \in DOMAIN meta.imports : meta.imports[i].slot = NoSymbol =>
              \E n \in DOMAIN relocations : relocations[n].kind = "import" /\ relocations[n].import = i

\* Each slot has its relocation, and no place has two.
CollectedInv ==
    packing \in Collected =>
        /\ nextEntry > Len(elf.entries)
        /\ \A i \in DOMAIN meta.imports : meta.imports[i].slot # NoSymbol =>
              \E n \in DOMAIN relocations : OfSlot(relocations[n], i)
        /\ \A m, n \in DOMAIN relocations :
              relocations[m].segment = relocations[n].segment
              /\ relocations[m].offset = relocations[n].offset => m = n

ImageIs ==
    packing \in ShownTo =>
        eki = [segments |-> [i \in DOMAIN segments |->
                                [kind |-> segments[i].kind, mem |-> segments[i].mem,
                                 file |-> segments[i].file, bytes |-> segments[i].offset]],
               imports |-> meta.imports,
               locations |-> {Location(name) : name \in SymbolNames(meta)},
               relocations |-> relocations]

NativeInv ==
    /\ elf \in Elfs /\ records \in Sections /\ nextEntry \in Nat
    /\ packing \in {"elf", "layout", "refused"} \cup LaidOut
    /\ packing \notin Relocating \cup {"refused"} => relocations = <<>> /\ nextEntry = 1
    /\ SegmentsInv /\ ImportsInv /\ RelocationsInv /\ CollectedInv /\ ImageIs
\* A list is one of its own items.
LEMMA OwnItems ==
    ASSUME NEW X, NEW s \in Seq(X)
    PROVE  /\ s \in Seq(Entry(s)) /\ DOMAIN s = 1 .. Len(s) /\ Len(s) \in Nat
           /\ \A i \in 1 .. Len(s) : s[i] \in Entry(s)
<1>1. Len(s) \in Nat /\ DOMAIN s = 1 .. Len(s) /\ s = [i \in 1 .. Len(s) |-> s[i]]
  OBVIOUS
<1>2. \A i \in 1 .. Len(s) : s[i] \in Entry(s)
  BY <1>1 DEF Entry
<1>3. [i \in 1 .. Len(s) |-> s[i]] \in Seq(Entry(s))
  BY <1>1, <1>2
<1>4. QED
  BY <1>1, <1>2, <1>3

-----------------------------------------------------------------------------
(* What the invariant says of places.                                        *)

\* The disassembler's layout is the one the segments were checked against.
LEMMA OffsetsReturn ==
    ASSUME LayoutValid, NEW n \in Nat, DOMAIN segments = 1 .. n,
           \A i \in 1 .. n : segments[i].vaddr \in Nat /\ segments[i].mem \in Nat,
           \A i \in 1 .. n : eki.segments[i].mem = segments[i].mem,
           NEW i \in 1 .. n
    PROVE  RuntimeOffset(i) = segments[i].vaddr
<1> DEFINE F(f) == [k \in 0 .. i |-> IF k = 0 THEN 0
                                      ELSE AlignUp(f[k - 1]) + AlignUp(eki.segments[k].mem)]
           f0 == [k \in 0 .. i |-> IF k = 0 THEN 0
                                   ELSE segments[k].vaddr + AlignUp(eki.segments[k].mem)]
           g == CHOOSE f : f = F(f)
<1>1. Page \in Nat \ {0}
  BY NativeAssumption
<1>2. \A k \in 1 .. n : segments[k].vaddr =
         IF k = 1 THEN 0 ELSE AlignUp(segments[k - 1].vaddr + segments[k - 1].mem)
  BY DEF LayoutValid
\* What the cursor is aligned to is where the next segment begins.
<1>3. ASSUME NEW k \in 1 .. n, NEW c, c = IF k = 1 THEN 0
                 ELSE segments[k - 1].vaddr + AlignUp(eki.segments[k - 1].mem)
      PROVE  AlignUp(c) = segments[k].vaddr
  <2>1. CASE k = 1
    BY <1>1, <1>2, <1>3, <2>1, AlignUpFacts
  <2>2. CASE k # 1
    <3>1. k - 1 \in 1 .. n
      BY <2>2
    <3>2. PICK q \in Nat : segments[k - 1].vaddr = Page * q
      BY <1>1, <3>1, LayoutFacts
    <3>3. PICK m \in Nat : m = segments[k - 1].mem
      BY <3>1
    <3>4. PICK t \in Nat : AlignUp(m) = Page * t
      BY <1>1, AlignUpFacts
    <3>5. AlignUp(Page * q + m) = Page * q + AlignUp(m)
      BY <1>1, AlignUpFacts
    <3>6. AlignUp(Page * (q + t) + 0) = Page * (q + t) + AlignUp(0) /\ AlignUp(0) = 0
      BY <1>1, AlignUpFacts, q + t \in Nat
    <3>7. Page * (q + t) = Page * q + Page * t /\ Page * q \in Nat /\ Page * t \in Nat
      BY <1>1
    <3>8. c = Page * (q + t)
      BY <1>3, <2>2, <3>1, <3>2, <3>3, <3>4, <3>7
    <3>9. AlignUp(c) = Page * q + AlignUp(m)
      BY <3>4, <3>6, <3>7, <3>8
    <3>10. QED
      BY <1>2, <2>2, <3>2, <3>3, <3>5, <3>9
  <2>3. QED
    BY <2>1, <2>2
<1>4. \A k \in 0 .. i : k # 0 => k \in 1 .. n /\ k - 1 \in 0 .. i
  OBVIOUS
<1>5. f0 = F(f0)
  <2> SUFFICES ASSUME NEW k \in 0 .. i, k # 0
               PROVE  AlignUp(f0[k - 1]) = segments[k].vaddr
    OBVIOUS
  <2>1. k \in 1 .. n /\ k - 1 \in 0 .. i
    BY <1>4
  <2>2. f0[k - 1] = IF k = 1 THEN 0 ELSE segments[k - 1].vaddr + AlignUp(eki.segments[k - 1].mem)
    BY <2>1
  <2>3. QED
    BY <1>3, <2>1, <2>2
<1>6. g = F(g)
  BY <1>5
<1>7. RuntimeOffset(i) = AlignUp(g[i - 1])
  BY DEF RuntimeOffset
<1> HIDE DEF g
\* Any function that is its own step agrees with f0, by the least place it does not.
<1>8. \A k \in 0 .. i : g[k] = f0[k]
  <2> DEFINE Off == {k \in 0 .. i : g[k] # f0[k]}
  <2>1. SUFFICES ASSUME Off # {} PROVE FALSE
    OBVIOUS
  <2>2. Off \in SUBSET Nat
    OBVIOUS
  <2>3. PICK k \in Off : \A m \in Off : <<m, k>> \notin OpToRel(<, Nat)
    BY <2>1, <2>2, NatLessThanWellFounded, WFMin
  <2>4. \A m \in Off : ~(m < k)
    BY <2>2, <2>3 DEF OpToRel
  <2>5. k \in 0 .. i /\ g[k] # f0[k]
    OBVIOUS
  <2>6. k # 0
    <3>1. 0 \in 0 .. i
      OBVIOUS
    <3>2. F(g)[0] = 0 /\ f0[0] = 0
      BY <3>1
    <3>3. QED
      BY <1>6, <2>5, <3>2
  <2>7. k - 1 \in 0 .. i /\ k - 1 \notin Off
    BY <2>4, <2>5, <2>6
  <2>8. F(g)[k] = AlignUp(g[k - 1]) + AlignUp(eki.segments[k].mem)
        /\ F(f0)[k] = AlignUp(f0[k - 1]) + AlignUp(eki.segments[k].mem)
    BY <2>5, <2>6
  <2>9. g[k - 1] = f0[k - 1]
    BY <2>7
  <2>10. g[k] = F(g)[k] /\ f0[k] = F(f0)[k]
    BY <1>5, <1>6
  <2>11. QED
    BY <2>5, <2>8, <2>9, <2>10
<1>9. g[i - 1] = f0[i - 1] /\ f0[i - 1] = IF i = 1 THEN 0
           ELSE segments[i - 1].vaddr + AlignUp(eki.segments[i - 1].mem)
  BY <1>8, i - 1 \in 0 .. i
<1>10. QED
  BY <1>3, <1>7, <1>9

\* Segments that have been read, as the lemmas about layouts need them.
LEMMA SegmentFacts ==
    ASSUME NativeInv, packing \in {"layout"} \cup LaidOut
    PROVE  /\ DOMAIN segments = 1 .. Len(segments) /\ Len(segments) \in Nat
           /\ \A i \in 1 .. Len(segments) :
                 /\ segments[i].number = i
                 /\ segments[i].vaddr \in Nat /\ segments[i].mem \in Nat
           /\ \A x \in Entry(segments) : x.number \in DOMAIN segments /\ segments[x.number] = x
           /\ packing # "layout" => LayoutValid
<1>1. QED
  BY DEF NativeInv, SegmentsInv, Entry

\* No address is in two segments.
LEMMA HoldingIsOne ==
    ASSUME NativeInv, packing \in LaidOut,
           NEW i \in DOMAIN segments, NEW j \in DOMAIN segments, NEW a \in Int,
           segments[i].vaddr <= a, a < segments[i].vaddr + segments[i].mem,
           segments[j].vaddr <= a, a < segments[j].vaddr + segments[j].mem
    PROVE  i = j
<1>1. /\ DOMAIN segments = 1 .. Len(segments) /\ Len(segments) \in Nat
      /\ \A k \in 1 .. Len(segments) : segments[k].vaddr \in Nat /\ segments[k].mem \in Nat
      /\ LayoutValid /\ Page \in Nat \ {0}
  BY SegmentFacts, NativeAssumption DEF LaidOut, Parsed, Retained, Relocating, Collected, ShownTo
<1>2. \A k, l \in 1 .. Len(segments) : k < l => segments[k].vaddr + segments[k].mem <= segments[l].vaddr
  BY <1>1, LayoutFacts
<1>3. ~(i < j) /\ ~(j < i)
  BY <1>1, <1>2
<1>4. QED
  BY <1>1, <1>3

\* A location is the address of its symbol.
LEMMA LocationIs ==
    ASSUME NativeInv, packing \in LaidOut, NEW name, Located(name)
    PROVE  /\ SymbolOf(name).value \in Nat
           /\ Location(name).segment \in DOMAIN segments /\ Location(name).offset \in Nat
           /\ Location(name).offset < segments[Location(name).segment].mem
           /\ PlaceOf(Location(name), segments) = SymbolOf(name).value
           /\ Location(name).name = name
<1>1. /\ DOMAIN segments = 1 .. Len(segments) /\ Len(segments) \in Nat
      /\ \A k \in 1 .. Len(segments) : segments[k].vaddr \in Nat /\ segments[k].mem \in Nat
      /\ \A x \in Entry(segments) : x.number \in DOMAIN segments /\ segments[x.number] = x
  BY SegmentFacts
<1>2. elf.symbols \subseteq ElfSymbol /\ IsFiniteSet(elf.symbols)
  BY NativeAssumption DEF NativeInv
<1>3. Named(name) # {}
  <2>1. Cardinality({}) # 1
    BY FS_EmptySet
  <2>2. Cardinality(Named(name)) = 1
    BY DEF Located, IsSymbol
  <2>3. ASSUME Named(name) = {} PROVE Cardinality(Named(name)) = Cardinality({})
    BY <2>3
  <2>4. QED
    BY <2>1, <2>2, <2>3
<1>4. SymbolOf(name) \in Named(name)
  BY <1>3 DEF SymbolOf
<1>5. SymbolOf(name).value \in Nat /\ SymbolOf(name).size \in Nat
  BY <1>2, <1>4 DEF Named, ElfSymbol
<1>6. Holding(SymbolOf(name).value) # {}
  BY DEF Located
<1>7. PICK x : x = CHOOSE y \in Holding(SymbolOf(name).value) : TRUE
  OBVIOUS
<1>8. x \in Holding(SymbolOf(name).value)
  BY <1>6, <1>7
<1>9. Location(name) = [name |-> name, segment |-> x.number,
                        offset |-> SymbolOf(name).value - x.vaddr, size |-> SymbolOf(name).size]
  BY <1>7 DEF Location
<1>10. /\ x \in Entry(segments) /\ x.vaddr <= SymbolOf(name).value
       /\ SymbolOf(name).value < x.vaddr + x.mem
  BY <1>8 DEF Holding
<1>11. x.number \in DOMAIN segments /\ segments[x.number] = x /\ x.vaddr \in Nat /\ x.mem \in Nat
  BY <1>1, <1>10
<1>12. QED
  BY <1>5, <1>9, <1>10, <1>11 DEF PlaceOf
-----------------------------------------------------------------------------
(* Reading the file and its metadata.                                        *)

\* What depends on the file and the layout only stays with them.
LEMMA FileStays ==
    ASSUME UNCHANGED <<elf, records, segments>>
    PROVE  /\ LayoutValid' <=> LayoutValid
           /\ LinkedImports' = LinkedImports
           /\ \A name : /\ SymbolOf(name)' = SymbolOf(name) /\ Location(name)' = Location(name)
                        /\ Located(name)' <=> Located(name)
<1>1. LayoutValid' <=> LayoutValid
  BY DEF LayoutValid
<1>2. LinkedImports' = LinkedImports
  BY DEF LinkedImports, Named, Entry
<1>3. ASSUME NEW name
      PROVE  /\ SymbolOf(name)' = SymbolOf(name) /\ Location(name)' = Location(name)
             /\ Located(name)' <=> Located(name)
  BY DEF SymbolOf, Location, Located, IsSymbol, Named, Holding, Entry
<1>4. QED
  BY <1>1, <1>2, <1>3

\* The segments are the loads, sorted and numbered.
LEMMA NumberedFacts ==
    ASSUME NEW loads \in Seq(ProgramHeader)
    PROVE  /\ DOMAIN Numbered(loads) = 1 .. Len(Numbered(loads)) /\ Len(Numbered(loads)) \in Nat
           /\ \A i \in DOMAIN Numbered(loads) :
                 \E load \in Entry(loads) : Numbered(loads)[i] = Segment(load, i)
<1> DEFINE key == [i \in DOMAIN loads |-> <<loads[i].vaddr>>]
           ordered == Arranged(loads, key)
<1>1. key \in [DOMAIN loads -> [1 .. 1 -> Int]]
  <2> SUFFICES ASSUME NEW i \in DOMAIN loads PROVE <<loads[i].vaddr>> \in [1 .. 1 -> Int]
    OBVIOUS
  <2>1. loads[i] \in ProgramHeader
    OBVIOUS
  <2>2. loads[i].vaddr \in Int
    BY <2>1 DEF ProgramHeader
  <2>3. QED
    BY <2>2
<1>2. ordered \in Seq(ProgramHeader) /\ Entry(ordered) = Entry(loads)
  <2> HIDE DEF key
  <2>1. QED
    BY <1>1, ArrangedFacts
<1>3. Numbered(loads) = [i \in DOMAIN ordered |-> Segment(ordered[i], i)]
  BY DEF Numbered, SortedBy
<1> HIDE DEF ordered
<1>4. DOMAIN ordered = 1 .. Len(ordered) /\ Len(ordered) \in Nat
  BY <1>2
<1>5. \A i \in DOMAIN ordered : ordered[i] \in Entry(loads)
  BY <1>2 DEF Entry
<1>6. Len(Numbered(loads)) = Len(ordered)
  BY <1>3, <1>4
<1>7. QED
  BY <1>3, <1>4, <1>5, <1>6

LEMMA ReadElfKeeps ==
    ASSUME NativeInv, ReadElf
    PROVE  NativeInv'
<1>1. packing = "elf" /\ packing' \in {"layout", "refused"}
  BY DEF ReadElf, Proceed
<1>2. elf' \in Elfs /\ records' \in Sections /\ nextEntry' \in Nat
      /\ relocations' = <<>> /\ nextEntry' = 1
  BY <1>1 DEF NativeInv, ReadElf, Relocating, Collected, ShownTo
<1>3. CASE packing' = "refused"
  BY <1>2, <1>3 DEF NativeInv, SegmentsInv, ImportsInv, RelocationsInv, CollectedInv, ImageIs,
        LaidOut, Parsed, Retained, Relocating, Collected, ShownTo
<1>4. CASE packing' = "layout"
  <2> DEFINE kept == {i \in DOMAIN elf.loads : elf.loads[i].mem # 0}
             loads == Picked(elf.loads, kept)
  <2>1. elf.loads \in Seq(ProgramHeader)
    BY NativeAssumption DEF NativeInv
  <2>2. loads = Occupied(elf.loads)
    BY DEF Occupied, Kept
  <2>3. loads \in Seq(ProgramHeader) /\ Entry(loads) = {elf.loads[i] : i \in kept}
    BY <2>1, PickedFacts
  <2>4. segments' = Numbered(loads) /\ \A x \in Entry(loads) : LoadValid(x)
    BY <1>4, <2>2 DEF ReadElf, Proceed
  <2> HIDE DEF loads
  <2>5. \A x \in Entry(loads) : x \in Entry(elf.loads) /\ x \in ProgramHeader
    BY <2>1, <2>3 DEF Entry
  <2>6. \A i \in DOMAIN segments' : \E load \in Entry(elf.loads) :
            /\ segments'[i] = Segment(load, i) /\ LoadValid(load) /\ load \in ProgramHeader
    BY <2>3, <2>4, <2>5, NumberedFacts
  <2>7. ASSUME NEW i \in DOMAIN segments'
        PROVE  /\ segments'[i].number = i /\ segments'[i].file <= segments'[i].mem
               /\ {segments'[i].vaddr, segments'[i].mem, segments'[i].file, segments'[i].offset} \subseteq Nat
               /\ segments'[i].kind = "code" => \E load \in Entry(elf.loads) :
                     /\ load.flags = "rx" /\ segments'[i].vaddr = load.vaddr
                     /\ segments'[i].offset = load.offset /\ segments'[i].file = load.file
    <3>1. PICK load \in Entry(elf.loads) :
             segments'[i] = Segment(load, i) /\ LoadValid(load) /\ load \in ProgramHeader
      BY <2>6
    <3>2. /\ segments'[i].number = i /\ segments'[i].file = load.file /\ segments'[i].mem = load.mem
          /\ segments'[i].vaddr = load.vaddr /\ segments'[i].offset = load.offset
          /\ segments'[i].kind = KindOf(load)
      BY <3>1 DEF Segment
    <3>3. {load.vaddr, load.mem, load.file, load.offset} \subseteq Nat /\ load.file <= load.mem
      BY <3>1 DEF ProgramHeader, LoadValid
    <3>4. KindOf(load) = "code" => load.flags = "rx"
      BY <3>1 DEF KindOf, LoadValid
    <3>5. QED
      BY <3>2, <3>3, <3>4
  <2>8. DOMAIN segments' = 1 .. Len(segments') /\ Len(segments') \in Nat
    BY <2>3, <2>4, NumberedFacts
  <2>9. elf' = elf
    BY DEF ReadElf
  <2>10. SegmentsInv'
    BY <1>4, <2>7, <2>8, <2>9 DEF SegmentsInv, Entry
  <2>11. QED
    BY <1>2, <1>4, <2>10 DEF NativeInv, ImportsInv, RelocationsInv, CollectedInv, ImageIs,
        LaidOut, Parsed, Retained, Relocating, Collected, ShownTo
<1>5. QED
  BY <1>1, <1>3, <1>4
LEMMA CheckLayoutKeeps ==
    ASSUME NativeInv, CheckLayout
    PROVE  NativeInv'
<1>1. packing = "layout" /\ packing' \in {"metadata", "refused"}
      /\ UNCHANGED <<elf, records, segments, meta, relocations, nextEntry, eki>>
  BY DEF CheckLayout, Proceed
<1>2. packing' = "metadata" => LayoutValid'
  BY <1>1, FileStays DEF CheckLayout, Proceed
<1>3. SegmentsInv'
  BY <1>1, <1>2 DEF NativeInv, SegmentsInv, LaidOut, Parsed, Retained, Relocating, Collected, ShownTo, Entry
<1>4. QED
  BY <1>1, <1>3 DEF NativeInv, ImportsInv, RelocationsInv, CollectedInv, ImageIs,
     LaidOut, Parsed, Retained, Relocating, Collected, ShownTo

\* The file has been read, and stays as it is.
LEMMA SegmentsStay ==
    ASSUME NativeInv, packing \in LaidOut, UNCHANGED <<elf, records, segments>>
    PROVE  SegmentsInv'
<1>1. packing # "layout" /\ LayoutValid'
  BY FileStays DEF NativeInv, SegmentsInv, LaidOut, Parsed, Retained, Relocating, Collected, ShownTo
<1>2. QED
  BY <1>1 DEF NativeInv, SegmentsInv, Entry

\* The root, and after it the imports of the records by name, contract and slot.
LEMMA SortedImports ==
    ASSUME NativeInv
    PROVE  /\ Sorted(records).imports \in Seq(Entry(Sorted(records).imports))
           /\ Sorted(records).imports # <<>> /\ Sorted(records).imports[1] = ApiRoot
           /\ Entry(Sorted(records).imports) = {ApiRoot} \cup {x \in Entry(records) : x.kind = "import"}
<1> DEFINE S == {i \in DOMAIN records : records[i].kind = "import"}
           own == Picked(records, S)
           key == [i \in DOMAIN own |-> <<own[i].name, own[i].contract, own[i].slot>>]
           sorted == Arranged(own, key)
           all == <<ApiRoot>> \o sorted
<1>1. /\ records \in Seq(Entry(records))
      /\ \A x \in Entry(records) : x.kind = "import" => IsImport(x)
  BY NativeAssumption DEF NativeInv
<1>2. own \in Seq(Entry(records)) /\ Entry(own) = {records[i] : i \in S}
  BY <1>1, PickedFacts
<1>3. Entry(own) = {x \in Entry(records) : x.kind = "import"}
  BY <1>2 DEF Entry
<1>4. Sorted(records).imports = all
  BY DEF Sorted, SortedBy, Of, Kept
<1> HIDE DEF own
<1>5. key \in [DOMAIN own -> [1 .. 3 -> Int]]
  <2> SUFFICES ASSUME NEW i \in DOMAIN own
               PROVE  <<own[i].name, own[i].contract, own[i].slot>> \in [1 .. 3 -> Int]
    OBVIOUS
  <2>1. own[i] \in Entry(own)
    BY DEF Entry
  <2>2. IsImport(own[i])
    BY <1>1, <1>3, <2>1
  <2>3. own[i].name \in Int /\ own[i].contract \in Int /\ own[i].slot \in Int
    BY <2>2 DEF IsImport
  <2>4. QED
    BY <2>3
<1> HIDE DEF key
<1>6. sorted \in Seq(Entry(records)) /\ Entry(sorted) = Entry(own)
  BY <1>2, <1>5, ArrangedFacts
<1> HIDE DEF sorted
<1>7. /\ DOMAIN all = 1 .. Len(sorted) + 1 /\ Len(sorted) \in Nat /\ DOMAIN sorted = 1 .. Len(sorted)
      /\ all[1] = ApiRoot /\ \A i \in 1 .. Len(sorted) : all[i + 1] = sorted[i]
  BY <1>6
<1>8. Entry(all) = {ApiRoot} \cup Entry(sorted)
  <2>1. ASSUME NEW i \in DOMAIN all PROVE all[i] \in {ApiRoot} \cup Entry(sorted)
    <3>1. CASE i = 1
      BY <1>7, <3>1
    <3>2. CASE i # 1
      <4>1. i - 1 \in 1 .. Len(sorted) /\ (i - 1) + 1 = i
        BY <1>7, <3>2
      <4>2. all[i] = sorted[i - 1]
        BY <1>7, <4>1
      <4>3. QED
        BY <1>7, <4>1, <4>2 DEF Entry
    <3>3. QED
      BY <3>1, <3>2
  <2>2. ASSUME NEW i \in DOMAIN sorted PROVE \E j \in DOMAIN all : all[j] = sorted[i]
    BY <1>7, i + 1 \in DOMAIN all
  <2>3. ApiRoot = all[1] /\ 1 \in DOMAIN all
    BY <1>7
  <2> HIDE DEF all
  <2>4. QED
    BY <2>1, <2>2, <2>3 DEF Entry
<1>9. all \in Seq(Entry(all)) /\ all # <<>>
  <2>1. all \in Seq({ApiRoot} \cup Entry(records))
    BY <1>6
  <2> HIDE DEF all
  <2>2. all \in Seq(Entry(all))
    BY <2>1, OwnItems
  <2>3. 1 \in DOMAIN all
    BY <1>7
  <2>4. QED
    BY <2>2, <2>3
<1> HIDE DEF all
<1>10. QED
  BY <1>3, <1>4, <1>6, <1>7, <1>8, <1>9

LEMMA ReadMetadataKeeps ==
    ASSUME NativeInv, ReadMetadata
    PROVE  NativeInv'
<1>1. packing = "metadata" /\ packing' \in {"retain", "refused"} /\ packing \in LaidOut
      /\ UNCHANGED <<elf, records, segments, relocations, nextEntry, eki>>
  BY DEF ReadMetadata, Proceed, LaidOut
<1>2. SegmentsInv'
  BY <1>1, SegmentsStay
<1>3. packing' = "retain" => meta' = Sorted(records)
  BY <1>1 DEF ReadMetadata, Proceed
<1>4. ImportsInv'
  <2> SUFFICES ASSUME packing' = "retain" PROVE ImportsInv'
    BY <1>1 DEF ImportsInv, Parsed, Retained, Relocating, Collected, ShownTo
  <2>1. meta' = [imports |-> meta'.imports, exports |-> meta'.exports, providers |-> meta'.providers,
                 points |-> meta'.points, extensions |-> meta'.extensions, mixins |-> meta'.mixins,
                 payloads |-> meta'.payloads, snapshots |-> meta'.snapshots]
    BY <1>3 DEF Sorted
  <2>2. /\ meta'.imports \in Seq(Entry(meta'.imports)) /\ meta'.imports # <<>> /\ meta'.imports[1] = ApiRoot
        /\ Entry(meta'.imports) = {ApiRoot} \cup {x \in Entry(records) : x.kind = "import"}
    BY <1>3, SortedImports
  <2>3. Entry(meta.imports)' = Entry(meta'.imports) /\ Entry(records)' = Entry(records)
    BY <1>1 DEF Entry
  <2>4. QED
    BY <1>1, <2>1, <2>2, <2>3 DEF ImportsInv, Relocating, Collected, ShownTo
<1>5. QED
  BY <1>1, <1>2, <1>4 DEF NativeInv, RelocationsInv, CollectedInv, ImageIs,
     LaidOut, Parsed, Retained, Relocating, Collected, ShownTo
\* The imports that stay are the linked ones, the root among them.
LEMMA RetainedFacts ==
    ASSUME NativeInv, packing = "retain",
           NEW kept, kept = RetainedImports(meta.imports, {s.name : s \in elf.symbols})
    PROVE  /\ kept \in Seq(Entry(kept)) /\ kept # <<>> /\ kept[1] = ApiRoot
           /\ Entry(kept) = LinkedImports
<1> DEFINE S == {i \in DOMAIN meta.imports :
                    meta.imports[i].kernel => meta.imports[i].slot \in {s.name : s \in elf.symbols}}
<1>1. /\ meta.imports \in Seq(Entry(meta.imports)) /\ meta.imports # <<>> /\ meta.imports[1] = ApiRoot
      /\ Entry(meta.imports) = {ApiRoot} \cup {x \in Entry(records) : x.kind = "import"}
  BY DEF NativeInv, ImportsInv, Parsed
<1>2. kept = Picked(meta.imports, S)
  BY DEF RetainedImports, Kept
<1>3. 1 \in S
  <2>1. 1 \in DOMAIN meta.imports
    BY <1>1
  <2>2. ~ApiRoot.kernel
    BY NativeAssumption
  <2>3. QED
    BY <1>1, <2>1, <2>2
<1>4. /\ kept \in Seq(Entry(meta.imports)) /\ Entry(kept) = {meta.imports[i] : i \in S}
      /\ kept # <<>> /\ kept[1] = ApiRoot
  <2>1. S \in SUBSET (DOMAIN meta.imports)
    OBVIOUS
  <2> HIDE DEF S
  <2>2. /\ Picked(meta.imports, S) \in Seq(Entry(meta.imports))
        /\ Entry(Picked(meta.imports, S)) = {meta.imports[i] : i \in S}
        /\ Picked(meta.imports, S) # <<>> /\ Picked(meta.imports, S)[1] = meta.imports[1]
    BY <1>1, <1>3, <2>1, PickedFacts
  <2>3. QED
    BY <1>1, <1>2, <2>2
<1>5. \A n : (\E s \in elf.symbols : s.name = n) <=> Named(n) # {}
  BY DEF Named
<1>6. Entry(kept) = {x \in Entry(meta.imports) : x.kernel => Named(x.slot) # {}}
  <2>1. ASSUME NEW x \in Entry(kept) PROVE x \in Entry(meta.imports) /\ (x.kernel => Named(x.slot) # {})
    <3>1. PICK i \in S : x = meta.imports[i]
      BY <1>4
    <3>2. QED
      BY <1>5, <3>1 DEF Entry
  <2>2. ASSUME NEW x \in Entry(meta.imports), x.kernel => Named(x.slot) # {} PROVE x \in Entry(kept)
    <3>1. PICK i \in DOMAIN meta.imports : x = meta.imports[i]
      BY DEF Entry
    <3>2. i \in S
      BY <1>5, <2>2, <3>1
    <3>3. QED
      BY <1>4, <3>1, <3>2
  <2>3. QED
    BY <2>1, <2>2
<1>7. Entry(kept) = LinkedImports
  BY <1>1, <1>6, NativeAssumption DEF LinkedImports
<1>8. kept \in Seq(Entry(kept))
  BY <1>4, OwnItems
<1>9. QED
  BY <1>4, <1>7, <1>8

\* A linked import has a slot.
LEMMA LinkedHasSlot ==
    ASSUME NativeInv, NEW x \in LinkedImports
    PROVE  x.slot # NoSymbol /\ IsImport(x)
<1>1. \A y \in Entry(records) : y.kind = "import" => IsImport(y)
  BY NativeAssumption DEF NativeInv
<1>2. IsImport(x)
  BY <1>1, NativeAssumption DEF LinkedImports
<1>3. QED
  BY <1>2 DEF IsImport

LEMMA RetainLinkedKeeps ==
    ASSUME NativeInv, RetainLinked
    PROVE  NativeInv'
<1>1. packing = "retain" /\ packing' = "symbols" /\ packing \in LaidOut
      /\ UNCHANGED <<elf, records, segments, relocations, nextEntry, eki>>
  BY DEF RetainLinked, LaidOut, Parsed
<1>2. SegmentsInv'
  BY <1>1, SegmentsStay
<1>3. PICK kept : kept = RetainedImports(meta.imports, {s.name : s \in elf.symbols})
  OBVIOUS
<1>4. meta = [imports |-> meta.imports, exports |-> meta.exports, providers |-> meta.providers,
              points |-> meta.points, extensions |-> meta.extensions, mixins |-> meta.mixins,
              payloads |-> meta.payloads, snapshots |-> meta.snapshots]
  BY <1>1 DEF NativeInv, ImportsInv, Parsed
<1>5. meta' = [imports |-> kept, exports |-> meta.exports, providers |-> meta.providers,
               points |-> meta.points, extensions |-> meta.extensions, mixins |-> meta.mixins,
               payloads |-> meta.payloads, snapshots |-> meta.snapshots]
  BY <1>3, <1>4 DEF RetainLinked
<1>6. /\ kept \in Seq(Entry(kept)) /\ kept # <<>> /\ kept[1] = ApiRoot /\ Entry(kept) = LinkedImports
  BY <1>1, <1>3, RetainedFacts
<1>7. ImportsInv'
  <2>1. Entry(meta.imports)' = Entry(kept) /\ LinkedImports' = LinkedImports /\ meta'.imports = kept
    BY <1>1, <1>5, FileStays DEF Entry
  <2>2. meta' = [imports |-> meta'.imports, exports |-> meta'.exports, providers |-> meta'.providers,
                 points |-> meta'.points, extensions |-> meta'.extensions, mixins |-> meta'.mixins,
                 payloads |-> meta'.payloads, snapshots |-> meta'.snapshots]
    BY <1>5
  <2>3. QED
    BY <1>1, <1>6, <2>1, <2>2 DEF ImportsInv, Relocating, Collected, ShownTo
<1>8. QED
  BY <1>1, <1>2, <1>7 DEF NativeInv, RelocationsInv, CollectedInv, ImageIs,
     LaidOut, Parsed, Retained, Relocating, Collected, ShownTo

LEMMA CheckSymbolsKeeps ==
    ASSUME NativeInv, CheckSymbols
    PROVE  NativeInv'
<1>1. packing = "symbols" /\ packing' \in {"relocate", "refused"} /\ packing \in LaidOut
      /\ UNCHANGED <<elf, records, segments, meta, relocations, nextEntry, eki>>
  BY DEF CheckSymbols, Proceed, LaidOut, Parsed, Retained
<1>2. SegmentsInv'
  BY <1>1, SegmentsStay
<1>3. packing' = "relocate" => SymbolsValid
  BY <1>1 DEF CheckSymbols, Proceed
<1>4. Entry(meta.imports) = LinkedImports /\ relocations = <<>> /\ nextEntry = 1
  BY <1>1 DEF NativeInv, ImportsInv, Parsed, Retained, Relocating, Collected, ShownTo
<1>5. \A x \in Entry(meta.imports) : x.slot # NoSymbol
  BY <1>4, LinkedHasSlot
<1>6. ImportsInv'
  <2> SUFFICES ASSUME packing' = "relocate" PROVE ImportsInv'
    BY <1>1 DEF ImportsInv, Parsed, Retained, Relocating, Collected, ShownTo
  <2>1. LinkedImports' = LinkedImports /\ Entry(meta.imports)' = Entry(meta.imports)
        /\ SymbolNames(meta)' = SymbolNames(meta) /\ \A name : Located(name)' <=> Located(name)
    BY <1>1, FileStays DEF Entry
  <2>2. \A name \in SymbolNames(meta) : Located(name)
    BY <1>3 DEF SymbolsValid
  <2>3. {x \in Entry(meta.imports) : x.slot # NoSymbol} = LinkedImports
    BY <1>4, <1>5
  <2>4. /\ meta' = [imports |-> meta'.imports, exports |-> meta'.exports, providers |-> meta'.providers,
                    points |-> meta'.points, extensions |-> meta'.extensions, mixins |-> meta'.mixins,
                    payloads |-> meta'.payloads, snapshots |-> meta'.snapshots]
        /\ meta.imports \in Seq(Entry(meta.imports)) /\ meta.imports # <<>> /\ meta.imports[1] = ApiRoot
    BY <1>1 DEF NativeInv, ImportsInv, Parsed, Retained
  <2>5. QED
    BY <1>1, <2>1, <2>2, <2>3, <2>4 DEF ImportsInv, Relocating
<1>7. RelocationsInv'
  <2> SUFFICES ASSUME packing' = "relocate" PROVE RelocationsInv'
    BY <1>1 DEF RelocationsInv, Relocating, Collected, ShownTo
  <2>1. DOMAIN relocations' = 1 .. Len(relocations') /\ Len(relocations') = 0 /\ DOMAIN relocations' = {}
    BY <1>1, <1>4
  <2>2. Len(elf.entries) \in Nat /\ relocations' \in Seq(Entry(relocations'))
    BY <1>1, <1>4, NativeAssumption DEF NativeInv
  <2>3. \A i \in DOMAIN meta.imports : meta.imports[i].slot # NoSymbol
    BY <1>5 DEF Entry
  <2>4. QED
    BY <1>1, <1>4, <2>1, <2>2, <2>3 DEF RelocationsInv, Entry
<1>8. QED
  BY <1>1, <1>2, <1>6, <1>7 DEF NativeInv, CollectedInv, ImageIs,
     LaidOut, Parsed, Retained, Relocating, Collected, ShownTo

LEMMA RefuseEntryKeeps ==
    ASSUME NativeInv, RefuseEntry
    PROVE  NativeInv'
<1>1. packing' = "refused" /\ UNCHANGED <<elf, records, nextEntry>>
  BY DEF RefuseEntry
<1>2. QED
  BY <1>1 DEF NativeInv, SegmentsInv, ImportsInv, RelocationsInv, CollectedInv, ImageIs,
     LaidOut, Parsed, Retained, Relocating, Collected, ShownTo
-----------------------------------------------------------------------------
(* The loop over the dynamic relocations.                                    *)

\* A relocation is for the place in the file it was made for.
LEMMA TargetPlaced ==
    ASSUME NativeInv, packing \in LaidOut, NEW a \in Int, NEW x \in TargetsOf(a),
           NEW kind, NEW import, NEW addend,
           NEW r, r = Relocation(kind, x, a, import, addend), kind \in {"base", "import"}
    PROVE  /\ Placed(r, segments) /\ PlaceOf(r, segments) = a
           /\ r.kind = kind /\ r.import = import /\ r.addend = addend
<1>1. r = [kind |-> kind, segment |-> x.number, offset |-> a - x.vaddr, import |-> import, addend |-> addend]
  BY DEF Relocation
<1>2. x \in Entry(segments) /\ x.vaddr <= a /\ a < x.vaddr + x.mem
  BY DEF TargetsOf, Holding
<1>3. /\ x.number \in DOMAIN segments /\ segments[x.number] = x /\ x.vaddr \in Nat /\ x.mem \in Nat
  BY <1>2, SegmentFacts
<1>4. r.segment = x.number /\ r.offset = a - x.vaddr /\ r.kind = kind /\ r.import = import /\ r.addend = addend
  BY <1>1
<1>5. a - x.vaddr \in Nat /\ a - x.vaddr < x.mem /\ x.vaddr + (a - x.vaddr) = a
  BY <1>2, <1>3
<1>6. QED
  BY <1>3, <1>4, <1>5 DEF Placed, PlaceOf

\* What the loop does with an entry: one relocation more, and imports that are
\* the old ones, and one without a slot at most.
Passed(r) ==
    /\ packing = "relocate" /\ packing' = "relocate" /\ nextEntry \in 1 .. Len(elf.entries)
    /\ UNCHANGED <<elf, records, segments, eki>>
    /\ relocations' = Append(relocations, r) /\ nextEntry' = nextEntry + 1
    /\ Placed(r, segments) /\ r.kind = IF elf.entries[nextEntry].type = "relative" THEN "base" ELSE "import"
    /\ OfEntry(r, elf.entries[nextEntry], segments, meta'.imports)
Added(r) ==
    \/ meta' = meta
    \/ \E x : /\ x.slot = NoSymbol
              /\ meta' = [meta EXCEPT !.imports = Append(meta.imports, x)]
              /\ r.kind = "import" /\ r.import = Len(meta.imports) + 1

\* Imports keep their numbers, and the names that are located are the same.
LEMMA AddedImports ==
    ASSUME NativeInv, packing = "relocate", NEW r, Added(r)
    PROVE  /\ meta.imports \in Seq(Entry(meta.imports)) /\ meta'.imports \in Seq(Entry(meta'.imports))
           /\ DOMAIN meta.imports = 1 .. Len(meta.imports) /\ Len(meta.imports) \in Nat
           /\ DOMAIN meta.imports \subseteq DOMAIN meta'.imports
           /\ \A i \in DOMAIN meta.imports : meta'.imports[i] = meta.imports[i]
           /\ \A i \in DOMAIN meta'.imports : i \notin DOMAIN meta.imports =>
                 /\ meta'.imports[i].slot = NoSymbol /\ r.kind = "import" /\ r.import = i
           /\ meta' = [imports |-> meta'.imports, exports |-> meta'.exports, providers |-> meta'.providers,
                       points |-> meta'.points, extensions |-> meta'.extensions, mixins |-> meta'.mixins,
                       payloads |-> meta'.payloads, snapshots |-> meta'.snapshots]
           /\ SymbolNames(meta') = SymbolNames(meta)
<1>1. /\ meta = [imports |-> meta.imports, exports |-> meta.exports, providers |-> meta.providers,
                 points |-> meta.points, extensions |-> meta.extensions, mixins |-> meta.mixins,
                 payloads |-> meta.payloads, snapshots |-> meta.snapshots]
      /\ meta.imports \in Seq(Entry(meta.imports))
  BY DEF NativeInv, ImportsInv, Parsed, Retained, Relocating
<1>2. DOMAIN meta.imports = 1 .. Len(meta.imports) /\ Len(meta.imports) \in Nat
  BY <1>1
<1>3. CASE meta' = meta
  BY <1>1, <1>2, <1>3
<1>4. CASE \E x : /\ x.slot = NoSymbol
                  /\ meta' = [meta EXCEPT !.imports = Append(meta.imports, x)]
                  /\ r.kind = "import" /\ r.import = Len(meta.imports) + 1
  <2>1. PICK x : /\ x.slot = NoSymbol
                 /\ meta' = [meta EXCEPT !.imports = Append(meta.imports, x)]
                 /\ r.kind = "import" /\ r.import = Len(meta.imports) + 1
    BY <1>4
  <2>2. PICK more : more = Append(meta.imports, x)
    OBVIOUS
  <2>3. meta' = [imports |-> more, exports |-> meta.exports, providers |-> meta.providers,
                 points |-> meta.points, extensions |-> meta.extensions, mixins |-> meta.mixins,
                 payloads |-> meta.payloads, snapshots |-> meta.snapshots]
    BY <1>1, <2>1, <2>2
  <2>4. /\ meta'.imports = more /\ meta'.exports = meta.exports /\ meta'.providers = meta.providers
        /\ meta'.mixins = meta.mixins /\ meta'.snapshots = meta.snapshots
    BY <2>3
  <2>5. /\ more \in Seq(Entry(meta.imports) \cup {x}) /\ DOMAIN more = 1 .. Len(meta.imports) + 1
        /\ more[Len(meta.imports) + 1] = x /\ \A i \in 1 .. Len(meta.imports) : more[i] = meta.imports[i]
    <3>1. meta.imports \in Seq(Entry(meta.imports) \cup {x})
      BY <1>1, <1>2
    <3>2. QED
      BY <1>2, <2>2, <3>1
  <2>6. more \in Seq(Entry(more))
    BY <2>5, OwnItems
  <2>7. Entry(more) = Entry(meta.imports) \cup {x}
    <3>1. ASSUME NEW i \in DOMAIN more PROVE more[i] \in Entry(meta.imports) \cup {x}
      <4>1. i \in 1 .. Len(meta.imports) \/ i = Len(meta.imports) + 1
        BY <1>2, <2>5
      <4>2. QED
        BY <1>2, <2>5, <4>1 DEF Entry
    <3>2. ASSUME NEW i \in DOMAIN meta.imports PROVE i \in DOMAIN more /\ more[i] = meta.imports[i]
      BY <1>2, <2>5
    <3>3. Len(meta.imports) + 1 \in DOMAIN more
      BY <1>2, <2>5
    <3>4. QED
      BY <2>5, <3>1, <3>2, <3>3 DEF Entry
  <2>8. Slots(meta') = Slots(meta)
    BY <2>1, <2>4, <2>7 DEF Slots
  <2>9. Functions(meta') = Functions(meta)
    BY <2>4 DEF Functions
  <2>10. SymbolNames(meta') = SymbolNames(meta)
    BY <2>8, <2>9 DEF SymbolNames
  <2>11. \A i \in DOMAIN more : i \notin DOMAIN meta.imports => i = Len(meta.imports) + 1
    BY <1>2, <2>5
  <2>12. meta' = [imports |-> meta'.imports, exports |-> meta'.exports, providers |-> meta'.providers,
                       points |-> meta'.points, extensions |-> meta'.extensions, mixins |-> meta'.mixins,
                       payloads |-> meta'.payloads, snapshots |-> meta'.snapshots]
    BY <2>3
  <2>13. DOMAIN meta.imports \subseteq DOMAIN more
    BY <1>2, <2>5
  <2>14. QED
    BY <1>1, <1>2, <2>1, <2>4, <2>5, <2>6, <2>10, <2>11, <2>12, <2>13
<1>5. QED
  BY <1>3, <1>4 DEF Added

LEMMA PassedKeeps ==
    ASSUME NativeInv, NEW r, Passed(r), Added(r)
    PROVE  NativeInv'
<1>1. /\ packing = "relocate" /\ packing' = "relocate" /\ packing \in LaidOut /\ packing \in Relocating
      /\ nextEntry \in 1 .. Len(elf.entries)
      /\ UNCHANGED <<elf, records, segments, eki>> /\ nextEntry' = nextEntry + 1
      /\ relocations' = Append(relocations, r)
  BY DEF Passed, LaidOut, Parsed, Retained, Relocating
<1>2. SegmentsInv'
  BY <1>1, SegmentsStay
<1>3. /\ meta.imports \in Seq(Entry(meta.imports)) /\ meta'.imports \in Seq(Entry(meta'.imports))
      /\ DOMAIN meta.imports = 1 .. Len(meta.imports) /\ Len(meta.imports) \in Nat
      /\ DOMAIN meta.imports \subseteq DOMAIN meta'.imports
      /\ \A i \in DOMAIN meta.imports : meta'.imports[i] = meta.imports[i]
      /\ \A i \in DOMAIN meta'.imports : i \notin DOMAIN meta.imports =>
            /\ meta'.imports[i].slot = NoSymbol /\ r.kind = "import" /\ r.import = i
      /\ meta' = [imports |-> meta'.imports, exports |-> meta'.exports, providers |-> meta'.providers,
                  points |-> meta'.points, extensions |-> meta'.extensions, mixins |-> meta'.mixins,
                  payloads |-> meta'.payloads, snapshots |-> meta'.snapshots]
      /\ SymbolNames(meta') = SymbolNames(meta)
  BY <1>1, AddedImports
<1>4. ImportsInv'
  <2>1. /\ meta.imports # <<>> /\ meta.imports[1] = ApiRoot
        /\ {x \in Entry(meta.imports) : x.slot # NoSymbol} = LinkedImports
        /\ \A name \in SymbolNames(meta) : Located(name)
    BY <1>1 DEF NativeInv, ImportsInv, Parsed, Retained
  <2>2. 1 \in DOMAIN meta.imports
    BY <1>3, <2>1
  <2>3. meta'.imports # <<>> /\ meta'.imports[1] = ApiRoot
    BY <1>3, <2>1, <2>2
  <2>4. {x \in Entry(meta'.imports) : x.slot # NoSymbol} = {x \in Entry(meta.imports) : x.slot # NoSymbol}
    BY <1>3 DEF Entry
  <2>5. /\ Entry(meta.imports)' = Entry(meta'.imports) /\ LinkedImports' = LinkedImports
        /\ SymbolNames(meta)' = SymbolNames(meta') /\ \A name : Located(name)' <=> Located(name)
    BY <1>1, FileStays DEF Entry, SymbolNames, Slots, Functions
  <2>6. \A name \in SymbolNames(meta)' : Located(name)'
    BY <1>3, <2>1, <2>5
  <2>7. QED
    BY <1>1, <1>3, <2>1, <2>3, <2>4, <2>5, <2>6 DEF ImportsInv
<1>5. \A s, e : OfEntry(s, e, segments, meta.imports) => OfEntry(s, e, segments, meta'.imports)
  <2> SUFFICES ASSUME NEW s, NEW e, OfEntry(s, e, segments, meta.imports)
               PROVE  OfEntry(s, e, segments, meta'.imports)
    OBVIOUS
  <2>1. s.kind = "import" => s.import \in DOMAIN meta'.imports /\ meta'.imports[s.import] = meta.imports[s.import]
    BY <1>3 DEF OfEntry
  <2>2. QED
    BY <2>1 DEF OfEntry
<1>6. /\ relocations \in Seq(Entry(relocations))
      /\ DOMAIN relocations = 1 .. Len(relocations) /\ Len(relocations) \in Nat
      /\ \A n \in DOMAIN relocations : Placed(relocations[n], segments)
      /\ \A n \in DOMAIN relocations : \E k \in 1 .. nextEntry - 1 : OfEntry(relocations[n], elf.entries[k], segments, meta.imports)
      /\ \A k \in 1 .. nextEntry - 1 : \E n \in DOMAIN relocations :
            /\ OfEntry(relocations[n], elf.entries[k], segments, meta.imports)
            /\ relocations[n].kind = IF elf.entries[k].type = "relative" THEN "base" ELSE "import"
      /\ \A i \in DOMAIN meta.imports : meta.imports[i].slot = NoSymbol =>
            \E n \in DOMAIN relocations : relocations[n].kind = "import" /\ relocations[n].import = i
  BY <1>1 DEF NativeInv, RelocationsInv
<1>7. /\ DOMAIN relocations' = 1 .. Len(relocations) + 1
      /\ relocations'[Len(relocations) + 1] = r
      /\ \A n \in DOMAIN relocations : relocations'[n] = relocations[n]
      /\ Len(relocations') = Len(relocations) + 1
  <2>1. PICK old, more : old = relocations /\ more = Append(old, r)
    OBVIOUS
  <2>2. old \in Seq(Entry(relocations) \cup {r}) /\ DOMAIN old = 1 .. Len(old)
    BY <1>6, <2>1
  <2>3. DOMAIN more = 1 .. Len(old) + 1 /\ Len(more) = Len(old) + 1 /\ more[Len(old) + 1] = r
    BY <2>1, <2>2
  <2>4. \A n \in DOMAIN old : more[n] = old[n]
    BY <2>1, <2>2
  <2>5. QED
    BY <1>1, <2>1, <2>3, <2>4
<1>8. DOMAIN relocations \subseteq DOMAIN relocations' /\ Len(relocations) + 1 \in DOMAIN relocations'
      /\ \A n \in DOMAIN relocations' : n \in DOMAIN relocations \/ n = Len(relocations) + 1
  BY <1>6, <1>7
<1>9. Len(elf.entries) \in Nat
  BY NativeAssumption DEF NativeInv
<1>10. nextEntry' - 1 = nextEntry /\ \A k \in 1 .. nextEntry : k \in 1 .. nextEntry - 1 \/ k = nextEntry
  BY <1>1, <1>9
<1>11. /\ Placed(r, segments) /\ OfEntry(r, elf.entries[nextEntry], segments, meta'.imports)
       /\ r.kind = IF elf.entries[nextEntry].type = "relative" THEN "base" ELSE "import"
  BY <1>1 DEF Passed
<1>12. ASSUME NEW n \in DOMAIN relocations'
       PROVE  /\ Placed(relocations'[n], segments)
              /\ \E k \in 1 .. nextEntry' - 1 : OfEntry(relocations'[n], elf.entries[k], segments, meta'.imports)
  <2>1. CASE n \in DOMAIN relocations
    <3>1. PICK k \in 1 .. nextEntry - 1 : OfEntry(relocations[n], elf.entries[k], segments, meta.imports)
      BY <1>6, <2>1
    <3>2. k \in 1 .. nextEntry' - 1
      BY <1>1, <1>10
    <3>3. OfEntry(relocations'[n], elf.entries[k], segments, meta'.imports)
      BY <1>5, <1>7, <2>1, <3>1
    <3>4. QED
      BY <1>6, <1>7, <2>1, <3>2, <3>3
  <2>2. CASE n = Len(relocations) + 1
    <3>1. nextEntry \in 1 .. nextEntry' - 1
      BY <1>1, <1>9, <1>10
    <3>2. relocations'[n] = r
      BY <1>7, <2>2
    <3>3. QED
      BY <1>11, <3>1, <3>2
  <2>3. QED
    BY <1>8, <2>1, <2>2
<1>13. ASSUME NEW k \in 1 .. nextEntry' - 1
       PROVE  \E n \in DOMAIN relocations' :
                 /\ OfEntry(relocations'[n], elf.entries[k], segments, meta'.imports)
                 /\ relocations'[n].kind = IF elf.entries[k].type = "relative" THEN "base" ELSE "import"
  <2>1. CASE k \in 1 .. nextEntry - 1
    <3>1. PICK n \in DOMAIN relocations :
             /\ OfEntry(relocations[n], elf.entries[k], segments, meta.imports)
             /\ relocations[n].kind = IF elf.entries[k].type = "relative" THEN "base" ELSE "import"
      BY <1>6, <2>1
    <3>2. n \in DOMAIN relocations' /\ relocations'[n] = relocations[n]
      BY <1>7, <1>8
    <3>3. QED
      BY <1>5, <3>1, <3>2
  <2>2. CASE k = nextEntry
    BY <1>7, <1>8, <1>11, <2>2
  <2>3. QED
    BY <1>10, <2>1, <2>2
<1>14. ASSUME NEW i \in DOMAIN meta'.imports, meta'.imports[i].slot = NoSymbol
       PROVE  \E n \in DOMAIN relocations' : relocations'[n].kind = "import" /\ relocations'[n].import = i
  <2>1. CASE i \in DOMAIN meta.imports
    <3>1. PICK n \in DOMAIN relocations : relocations[n].kind = "import" /\ relocations[n].import = i
      BY <1>3, <1>6, <1>14, <2>1
    <3>2. QED
      BY <1>7, <1>8, <3>1
  <2>2. CASE i \notin DOMAIN meta.imports
    BY <1>3, <1>7, <1>8, <2>2
  <2>3. QED
    BY <2>1, <2>2
<1>15. RelocationsInv'
  <2>1. nextEntry' \in 1 .. Len(elf.entries) + 1
    BY <1>1, <1>9
  <2>2. /\ DOMAIN relocations' = 1 .. Len(relocations') /\ Len(relocations') \in Nat
        /\ relocations' \in Seq(Entry(relocations'))
    <3>1. relocations \in Seq(Entry(relocations) \cup {r})
      BY <1>6
    <3>2. Append(relocations, r) \in Seq(Entry(relocations) \cup {r})
      BY <3>1
    <3>3. Append(relocations, r) \in Seq(Entry(Append(relocations, r)))
      BY <3>2, OwnItems
    <3>4. QED
      BY <1>1, <1>6, <1>7, <3>3
  <2>3. QED
    <3>1. \A n \in DOMAIN relocations' :
             /\ Placed(relocations'[n], segments')
             /\ \E k \in 1 .. nextEntry' - 1 : OfEntry(relocations'[n], elf'.entries[k], segments', meta'.imports)
      BY <1>1, <1>12
    <3>2. \A k \in 1 .. nextEntry' - 1 : \E n \in DOMAIN relocations' :
             /\ OfEntry(relocations'[n], elf'.entries[k], segments', meta'.imports)
             /\ relocations'[n].kind = IF elf'.entries[k].type = "relative" THEN "base" ELSE "import"
      BY <1>1, <1>13
    <3>3. \A i \in DOMAIN meta'.imports : meta'.imports[i].slot = NoSymbol =>
             \E n \in DOMAIN relocations' : relocations'[n].kind = "import" /\ relocations'[n].import = i
      BY <1>14
    <3>4. nextEntry' \in 1 .. Len(elf'.entries) + 1
      BY <1>1, <2>1
    <3>5. QED
      BY <1>1, <2>2, <3>1, <3>2, <3>3, <3>4 DEF RelocationsInv, Entry
<1>16. QED
  BY <1>1, <1>2, <1>4, <1>9, <1>15 DEF NativeInv, CollectedInv, ImageIs,
     LaidOut, Parsed, Retained, Relocating, Collected, ShownTo

LEMMA RelocateRelativeKeeps ==
    ASSUME NativeInv, RelocateRelative
    PROVE  NativeInv'
<1>1. /\ packing = "relocate" /\ packing' = "relocate" /\ packing \in LaidOut
      /\ UNCHANGED <<elf, records, segments, meta, eki>> /\ nextEntry' = nextEntry + 1
      /\ nextEntry <= Len(elf.entries) /\ RelativeValid(Here)
  BY DEF RelocateRelative, HasNext, LaidOut, Parsed, Retained, Relocating
<1>2. nextEntry \in 1 .. Len(elf.entries)
  BY <1>1, NativeAssumption DEF NativeInv, RelocationsInv, Relocating
<1>3. Here \in Dynamics
  BY <1>2, NativeAssumption DEF NativeInv, Here
<1>4. PICK x \in TargetsOf(Here.target) :
         relocations' = Append(relocations, Relocation("base", x, Here.target, 0, Here.addend))
  BY DEF RelocateRelative
<1>5. PICK r : r = Relocation("base", x, Here.target, 0, Here.addend)
  OBVIOUS
<1>6. Here.target \in Int
  BY <1>3 DEF Dynamics
<1>7. Placed(r, segments) /\ PlaceOf(r, segments) = Here.target /\ r.kind = "base" /\ r.addend = Here.addend
  BY <1>1, <1>5, <1>6, TargetPlaced
<1>8. Here.type = "relative" /\ Here.addend >= 0
  BY <1>1 DEF RelativeValid
<1>9. OfEntry(r, Here, segments, meta'.imports)
  BY <1>7, <1>8 DEF OfEntry
<1>10. Passed(r)
  BY <1>1, <1>2, <1>4, <1>5, <1>7, <1>8, <1>9 DEF Passed, Here
<1>11. Added(r)
  BY <1>1 DEF Added
<1>12. QED
  BY <1>10, <1>11, PassedKeeps

\* The least of the imports that serve a symbol is one of them.
LEMMA ServingFacts ==
    ASSUME NativeInv, packing = "relocate", NEW s, Serving(s) # {}
    PROVE  Least(Serving(s)) \in Serving(s)
<1>1. meta.imports \in Seq(Entry(meta.imports))
  BY DEF NativeInv, ImportsInv, Parsed, Retained, Relocating
<1>2. Serving(s) \in SUBSET Nat
  BY <1>1 DEF Serving
<1>3. PICK n \in Serving(s) : \A k \in Serving(s) : <<k, n>> \notin OpToRel(<, Nat)
  BY <1>2, NatLessThanWellFounded, WFMin
<1>4. n \in Nat /\ \A k \in Serving(s) : k \in Nat
  BY <1>2
<1>5. \A k \in Serving(s) : ~(k < n)
  BY <1>3, <1>4 DEF OpToRel
<1>6. \A k \in Serving(s) : n <= k
  BY <1>4, <1>5
<1>7. QED
  BY <1>6 DEF Least

LEMMA RelocateImportKeeps ==
    ASSUME NativeInv, RelocateImport
    PROVE  NativeInv'
<1>1. /\ packing = "relocate" /\ packing' = "relocate" /\ packing \in LaidOut
      /\ UNCHANGED <<elf, records, segments, eki>> /\ nextEntry' = nextEntry + 1
      /\ nextEntry <= Len(elf.entries) /\ AbsoluteValid(Here)
  BY DEF RelocateImport, HasNext, LaidOut, Parsed, Retained, Relocating
<1>2. nextEntry \in 1 .. Len(elf.entries)
  BY <1>1, NativeAssumption DEF NativeInv, RelocationsInv, Relocating
<1>3. Here \in Dynamics
  BY <1>2, NativeAssumption DEF NativeInv, Here
<1>4. PICK s : s = KernelSymbol[Here.symbol]
  OBVIOUS
<1>5. PICK x \in TargetsOf(Here.target) : relocations' =
         Append(relocations, Relocation("import", x, Here.target, ImportNumber(s), Here.addend))
  BY <1>4 DEF RelocateImport
<1>6. PICK r : r = Relocation("import", x, Here.target, ImportNumber(s), Here.addend)
  OBVIOUS
<1>7. Here.target \in Int
  BY <1>3 DEF Dynamics
<1>8. /\ Placed(r, segments) /\ PlaceOf(r, segments) = Here.target
      /\ r.kind = "import" /\ r.import = ImportNumber(s) /\ r.addend = Here.addend
  BY <1>1, <1>6, <1>7, TargetPlaced
<1>9. Here.type = "absolute" /\ Here.symbol \in DOMAIN KernelSymbol
  BY <1>1 DEF AbsoluteValid
<1>10. /\ meta = [imports |-> meta.imports, exports |-> meta.exports, providers |-> meta.providers,
                  points |-> meta.points, extensions |-> meta.extensions, mixins |-> meta.mixins,
                  payloads |-> meta.payloads, snapshots |-> meta.snapshots]
       /\ meta.imports \in Seq(Entry(meta.imports))
  BY <1>1 DEF NativeInv, ImportsInv, Parsed, Retained, Relocating
<1>11. Added(r) /\ r.import \in DOMAIN meta'.imports /\ Serves(meta'.imports[r.import], s)
  <2>1. CASE Serving(s) # {}
    <3>1. meta' = meta /\ ImportNumber(s) = Least(Serving(s))
      BY <1>4, <2>1 DEF RelocateImport, ImportNumber
    <3>2. ImportNumber(s) \in Serving(s)
      BY <1>1, <2>1, <3>1, ServingFacts
    <3>3. QED
      BY <1>8, <3>1, <3>2 DEF Added, Serving
  <2>2. CASE Serving(s) = {}
    <3>1. /\ meta' = [meta EXCEPT !.imports = Append(meta.imports, ImportOf(s))]
          /\ ImportNumber(s) = Len(meta.imports) + 1
      BY <1>4, <2>2 DEF RelocateImport, ImportNumber
    <3>2. ImportOf(s).slot = NoSymbol
      BY DEF ImportOf
    <3>3. Added(r)
      BY <1>8, <3>1, <3>2 DEF Added
    <3>4. meta'.imports = Append(meta.imports, ImportOf(s))
      BY <1>10, <3>1
    <3>5. /\ Len(meta.imports) + 1 \in DOMAIN Append(meta.imports, ImportOf(s))
          /\ Append(meta.imports, ImportOf(s))[Len(meta.imports) + 1] = ImportOf(s)
      BY <1>10
    <3>6. s.version \in Int
      BY <1>4, <1>9, NativeAssumption
    <3>7. Serves(ImportOf(s), s)
      BY <3>6 DEF Serves, ImportOf
    <3>8. QED
      BY <1>8, <3>1, <3>3, <3>4, <3>5, <3>7
  <2>3. QED
    BY <2>1, <2>2
<1>12. OfEntry(r, Here, segments, meta'.imports)
  BY <1>4, <1>8, <1>9, <1>11 DEF OfEntry
<1>13. Passed(r)
  BY <1>1, <1>2, <1>5, <1>6, <1>8, <1>9, <1>12 DEF Passed, Here
<1>14. QED
  BY <1>11, <1>13, PassedKeeps

-----------------------------------------------------------------------------
(* The relocations of slots, and the image.                                  *)

\* A sorted list without equal neighbours has no equal items.
KeyedBy(K, s, key) == \A m, n \in DOMAIN s : Arranged(s, key)[m] = s[n] => K[m] = key[n]
NeighboursDiffer(K, s) == \A n \in 1 .. Len(s) - 1 : K[n] # K[n + 1]
AllDiffer(K, s) == \A m, n \in DOMAIN s : K[m] = K[n] => m = n

LEMMA SortedApart ==
    ASSUME NEW X, NEW s \in Seq(X), NEW w \in Nat, NEW key \in [DOMAIN s -> [1 .. w -> Int]]
    PROVE  \A K : KeyedBy(K, s, key) /\ NeighboursDiffer(K, s) => AllDiffer(K, s)
<1>1. DOMAIN s = 1 .. Len(s) /\ Len(s) \in Nat
  OBVIOUS
<1>2. PICK order : Sorts(order, s, key)
  BY ArrangedFacts
<1>0. \A a, b, c \in [1 .. w -> Int] : KeyLess(a, b) /\ KeyLess(b, c) => KeyLess(a, c)
  BY KeyOrder
<1> SUFFICES ASSUME NEW K, \A m, n \in DOMAIN s : Arranged(s, key)[m] = s[n] => K[m] = key[n],
                    \A n \in 1 .. Len(s) - 1 : K[n] # K[n + 1]
             PROVE  \A m, n \in DOMAIN s : K[m] = K[n] => m = n
  BY DEF KeyedBy, NeighboursDiffer, AllDiffer
<1>3. ASSUME NEW n \in DOMAIN s PROVE K[n] = key[order[n]] /\ K[n] \in [1 .. w -> Int]
  <2>1. order[n] \in DOMAIN s
    BY <1>2 DEF Sorts
  <2>2. Arranged(s, key)[n] = s[order[n]]
    BY <1>2 DEF Sorts
  <2>3. K[n] = key[order[n]]
    BY <2>1, <2>2
  <2>4. QED
    BY <2>1, <2>3
<1>4. \A m, n \in DOMAIN s : m < n => KeyLess(K[m], K[n]) \/ K[m] = K[n]
  BY <1>2, <1>3 DEF Sorts
<1>5. ASSUME NEW m \in DOMAIN s, NEW n \in DOMAIN s, m < n PROVE K[m] # K[n]
  <2>1. m + 1 \in DOMAIN s /\ m \in 1 .. Len(s) - 1 /\ m < m + 1 /\ (m + 1 < n \/ m + 1 = n)
    BY <1>1, <1>5
  <2>2. KeyLess(K[m], K[m + 1])
    BY <1>4, <2>1
  <2>3. KeyLess(K[m + 1], K[n]) \/ K[m + 1] = K[n]
    BY <1>4, <2>1
  <2>4. KeyLess(K[m], K[n])
    <3>1. CASE K[m + 1] = K[n]
      BY <2>2, <3>1
    <3>2. CASE KeyLess(K[m + 1], K[n])
      <4>1. K[m] \in [1 .. w -> Int] /\ K[m + 1] \in [1 .. w -> Int] /\ K[n] \in [1 .. w -> Int]
        BY <1>3, <2>1
      <4>2. QED
        BY <1>0, <2>2, <3>2, <4>1
    <3>3. QED
      BY <2>3, <3>1, <3>2
  <2>5. ~KeyLess(K[m], K[m])
    BY <1>3, KeyOrder
  <2>6. QED
    BY <2>4, <2>5
<1>6. ASSUME NEW m \in DOMAIN s, NEW n \in DOMAIN s, K[m] = K[n] PROVE m = n
  <2>1. ~(m < n) /\ ~(n < m)
    BY <1>5, <1>6
  <2>2. m \in Int /\ n \in Int
    BY <1>1
  <2>3. QED
    BY <2>1, <2>2
<1>7. QED
  BY <1>6

\* Every slot has one relocation, for the import it belongs to and to its place.
LEMMA SlotFacts ==
    ASSUME NativeInv, packing = "relocate"
    PROVE  /\ SlotRelocations \in Seq(Entry(SlotRelocations))
           /\ DOMAIN SlotRelocations = 1 .. Len(SlotRelocations) /\ Len(SlotRelocations) \in Nat
           /\ \A k \in DOMAIN SlotRelocations :
                 /\ Placed(SlotRelocations[k], segments)
                 /\ \E i \in DOMAIN meta.imports : OfSlot(SlotRelocations[k], i)
           /\ \A i \in DOMAIN meta.imports : meta.imports[i].slot # NoSymbol =>
                 \E k \in DOMAIN SlotRelocations : OfSlot(SlotRelocations[k], i)
<1> DEFINE S == {i \in DOMAIN meta.imports : meta.imports[i].slot # NoSymbol}
           numbers == Ascending(S)
           For(i) == [kind |-> "import", segment |-> Location(meta.imports[i].slot).segment,
                      offset |-> Location(meta.imports[i].slot).offset, import |-> i, addend |-> 0]
<1>1. packing \in LaidOut /\ packing \in Relocating /\ packing \in Parsed
  BY DEF LaidOut, Parsed, Retained, Relocating
<1>2. /\ meta.imports \in Seq(Entry(meta.imports))
      /\ \A name \in SymbolNames(meta) : Located(name)
  BY <1>1 DEF NativeInv, ImportsInv
<1>3. DOMAIN meta.imports = 1 .. Len(meta.imports) /\ Len(meta.imports) \in Nat /\ S \in SUBSET (1 .. Len(meta.imports))
  BY <1>2
<1>4. /\ Cardinality(S) \in Nat /\ DOMAIN numbers = 1 .. Cardinality(S)
      /\ \A k \in 1 .. Cardinality(S) : numbers[k] \in S
      /\ \A i \in S : \E k \in 1 .. Cardinality(S) : numbers[k] = i
  <2> HIDE DEF S
  <2>1. QED
    BY <1>3, AscendingFacts
<1>5. SlotRelocations = [k \in DOMAIN numbers |-> For(numbers[k])]
  BY DEF SlotRelocations
<1>6. ASSUME NEW i \in S PROVE Placed(For(i), segments) /\ OfSlot(For(i), i)
  <2>1. PICK name : name = meta.imports[i].slot
    OBVIOUS
  <2>2. name \in SymbolNames(meta)
    BY <2>1 DEF SymbolNames, Slots, Entry
  <2>3. Located(name)
    BY <1>2, <2>2
  <2>4. PICK l : l = Location(name)
    OBVIOUS
  <2>5. /\ l.segment \in DOMAIN segments /\ l.offset \in Nat /\ l.offset < segments[l.segment].mem
        /\ PlaceOf(l, segments) = SymbolOf(name).value
    BY <1>1, <2>3, <2>4, LocationIs
  <2>6. For(i) = [kind |-> "import", segment |-> l.segment, offset |-> l.offset, import |-> i, addend |-> 0]
    BY <2>1, <2>4
  <2>7. PICK r : r = For(i)
    OBVIOUS
  <2> HIDE DEF For
  <2>8. r.kind = "import" /\ r.segment = l.segment /\ r.offset = l.offset /\ r.import = i
    BY <2>6, <2>7
  <2>9. PlaceOf(r, segments) = SymbolOf(name).value
    BY <2>5, <2>8 DEF PlaceOf
  <2>10. QED
    BY <2>1, <2>5, <2>7, <2>8, <2>9 DEF Placed, OfSlot
<1> HIDE DEF numbers, For
<1>7. DOMAIN SlotRelocations = 1 .. Cardinality(S) /\ Len(SlotRelocations) = Cardinality(S)
  BY <1>4, <1>5
<1>8. \A k \in 1 .. Cardinality(S) : SlotRelocations[k] = For(numbers[k])
  BY <1>4, <1>5
<1>9. ASSUME NEW k \in DOMAIN SlotRelocations
      PROVE  /\ Placed(SlotRelocations[k], segments)
             /\ \E i \in DOMAIN meta.imports : OfSlot(SlotRelocations[k], i)
  <2>1. SlotRelocations[k] = For(numbers[k]) /\ numbers[k] \in S
    BY <1>4, <1>7, <1>8
  <2>2. QED
    BY <1>6, <2>1
<1>10. ASSUME NEW i \in DOMAIN meta.imports, meta.imports[i].slot # NoSymbol
       PROVE  \E k \in DOMAIN SlotRelocations : OfSlot(SlotRelocations[k], i)
  <2>1. i \in S
    BY <1>10
  <2>2. PICK k \in 1 .. Cardinality(S) : numbers[k] = i
    BY <1>4, <2>1
  <2>3. SlotRelocations[k] = For(i) /\ k \in DOMAIN SlotRelocations
    BY <1>7, <1>8, <2>2
  <2>4. QED
    BY <1>6, <2>1, <2>3
<1>11. SlotRelocations \in Seq(Entry(SlotRelocations))
  <2>1. SlotRelocations = [k \in 1 .. Cardinality(S) |-> For(numbers[k])]
    BY <1>4, <1>5
  <2>2. \A k \in 1 .. Cardinality(S) : For(numbers[k]) \in Entry(SlotRelocations)
    BY <1>7, <1>8 DEF Entry
  <2>3. [k \in 1 .. Cardinality(S) |-> For(numbers[k])] \in Seq(Entry(SlotRelocations))
    BY <1>4, <2>2
  <2>4. QED
    BY <2>1, <2>3
<1>12. QED
  BY <1>4, <1>7, <1>9, <1>10, <1>11

\* The relocations there were and those of the slots.
LEMMA BothFacts ==
    ASSUME NativeInv, packing = "relocate", nextEntry > Len(elf.entries),
           NEW both, both = relocations \o SlotRelocations
    PROVE  /\ both \in Seq(Entry(both)) /\ Entry(both) = Entry(relocations) \cup Entry(SlotRelocations)
           /\ \A r \in Entry(both) : r.segment \in Int /\ r.offset \in Int
<1> DEFINE slots == SlotRelocations
<1>1. /\ relocations \in Seq(Entry(relocations))
      /\ DOMAIN relocations = 1 .. Len(relocations) /\ Len(relocations) \in Nat
      /\ \A n \in DOMAIN relocations : Placed(relocations[n], segments)
  BY DEF NativeInv, RelocationsInv, Relocating
<1>2. /\ slots \in Seq(Entry(slots))
      /\ DOMAIN slots = 1 .. Len(slots) /\ Len(slots) \in Nat
      /\ \A k \in DOMAIN slots : Placed(slots[k], segments)
  BY SlotFacts
<1>3. DOMAIN segments \subseteq Nat
  <2>1. packing \in LaidOut
    BY DEF LaidOut, Parsed, Retained, Relocating
  <2>2. DOMAIN segments = 1 .. Len(segments) /\ Len(segments) \in Nat
    BY <2>1, SegmentFacts
  <2>3. 1 .. Len(segments) \subseteq Nat
    OBVIOUS
  <2>4. QED
    BY <2>2, <2>3
<1>4. both = relocations \o slots
  OBVIOUS
<1> HIDE DEF slots
<1>5. /\ both \in Seq(Entry(relocations) \cup Entry(slots))
      /\ DOMAIN both = 1 .. Len(relocations) + Len(slots)
      /\ \A n \in 1 .. Len(relocations) : both[n] = relocations[n]
      /\ \A n \in 1 .. Len(slots) : both[Len(relocations) + n] = slots[n]
  <2>1. PICK X : X = Entry(relocations) \cup Entry(slots)
    OBVIOUS
  <2>2. relocations \in Seq(X) /\ slots \in Seq(X)
    BY <1>1, <1>2, <2>1
  <2>3. relocations \o slots \in Seq(X) /\ Len(relocations \o slots) = Len(relocations) + Len(slots)
    BY <2>2
  <2>4. \A n \in 1 .. Len(relocations) + Len(slots) : (relocations \o slots)[n] =
          IF n <= Len(relocations) THEN relocations[n] ELSE slots[n - Len(relocations)]
    BY <2>2
  <2>5. ASSUME NEW n \in 1 .. Len(slots) PROVE both[Len(relocations) + n] = slots[n]
    <3>1. Len(relocations) + n \in 1 .. Len(relocations) + Len(slots)
          /\ ~(Len(relocations) + n <= Len(relocations)) /\ Len(relocations) + n - Len(relocations) = n
      BY <1>1, <1>2
    <3>2. QED
      BY <1>4, <2>4, <3>1
  <2>6. ASSUME NEW n \in 1 .. Len(relocations) PROVE both[n] = relocations[n]
    <3>1. n \in 1 .. Len(relocations) + Len(slots) /\ n <= Len(relocations)
      BY <1>1, <1>2
    <3>2. QED
      BY <1>4, <2>4, <3>1
  <2>7. DOMAIN (relocations \o slots) = 1 .. Len(relocations) + Len(slots)
    BY <2>3
  <2>8. QED
    BY <1>4, <2>1, <2>3, <2>5, <2>6, <2>7
<1>6. Entry(both) = Entry(relocations) \cup Entry(slots)
  <2>1. ASSUME NEW n \in DOMAIN both PROVE both[n] \in Entry(relocations) \cup Entry(slots)
    <3>1. CASE n <= Len(relocations)
      <4>1. n \in 1 .. Len(relocations)
        BY <1>1, <1>5, <3>1
      <4>2. QED
        BY <1>1, <1>5, <4>1 DEF Entry
    <3>2. CASE n > Len(relocations)
      <4>1. n - Len(relocations) \in 1 .. Len(slots) /\ n = Len(relocations) + (n - Len(relocations))
        BY <1>1, <1>2, <1>5, <3>2
      <4>2. both[n] = slots[n - Len(relocations)]
        BY <1>5, <4>1
      <4>3. QED
        BY <1>2, <4>1, <4>2 DEF Entry
    <3>3. QED
      BY <1>1, <1>5, <3>1, <3>2
  <2>2. ASSUME NEW n \in DOMAIN relocations PROVE relocations[n] \in Entry(both)
    <3>1. n \in DOMAIN both /\ both[n] = relocations[n]
      BY <1>1, <1>2, <1>5
    <3>2. QED
      BY <3>1 DEF Entry
  <2>3. ASSUME NEW n \in DOMAIN slots PROVE slots[n] \in Entry(both)
    <3>1. Len(relocations) + n \in DOMAIN both /\ both[Len(relocations) + n] = slots[n]
      BY <1>1, <1>2, <1>5
    <3>2. QED
      BY <3>1 DEF Entry
  <2>4. QED
    BY <2>1, <2>2, <2>3 DEF Entry
<1>7. ASSUME NEW r \in Entry(both) PROVE r.segment \in Int /\ r.offset \in Int
  <2>1. Placed(r, segments)
    BY <1>1, <1>2, <1>6, <1>7 DEF Entry
  <2>2. QED
    BY <1>3, <2>1 DEF Placed
<1>8. both \in Seq(Entry(both)) /\ DOMAIN both = 1 .. Len(both) /\ Len(both) \in Nat
  BY <1>5, OwnItems
<1>9. QED
  BY <1>6, <1>7, <1>8 DEF slots


\* Arranged by place, the relocations are the same, and no place has two if no
\* neighbours have one.
Places(s) == [i \in DOMAIN s |-> <<s[i].segment, s[i].offset>>]

LEMMA PlacesFacts ==
    ASSUME NEW X, NEW s \in Seq(X), \A x \in X : x.segment \in Int /\ x.offset \in Int
    PROVE  /\ Places(s) \in [DOMAIN s -> [1 .. 2 -> Int]]
           /\ Arranged(s, Places(s)) \in Seq(X) /\ DOMAIN Arranged(s, Places(s)) = DOMAIN s
           /\ Entry(Arranged(s, Places(s))) = Entry(s)
<1>1. Places(s) \in [DOMAIN s -> [1 .. 2 -> Int]]
  <2> SUFFICES ASSUME NEW n \in DOMAIN s PROVE <<s[n].segment, s[n].offset>> \in [1 .. 2 -> Int]
    BY DEF Places
  <2>1. s[n] \in X
    OBVIOUS
  <2>2. s[n].segment \in Int /\ s[n].offset \in Int
    BY <2>1
  <2>3. QED
    BY <2>2
<1>2. QED
  BY <1>1, ArrangedFacts

LEMMA PlacesApart ==
    ASSUME NEW X, NEW s \in Seq(X), \A x \in X : x.segment \in Int /\ x.offset \in Int
    PROVE  NeighboursDiffer(Places(Arranged(s, Places(s))), s) => AllDiffer(Places(Arranged(s, Places(s))), s)
<1>1. Places(s) \in [DOMAIN s -> [1 .. 2 -> Int]] /\ DOMAIN Arranged(s, Places(s)) = DOMAIN s
  BY PlacesFacts
<1>2. KeyedBy(Places(Arranged(s, Places(s))), s, Places(s))
  <2>1. PICK all : all = Arranged(s, Places(s))
    OBVIOUS
  <2>2. \A m, n \in DOMAIN s : all[m] = s[n] => Places(all)[m] = Places(s)[n]
    BY <1>1, <2>1 DEF Places
  <2>3. QED
    BY <2>1, <2>2 DEF KeyedBy
<1>3. QED
  BY <1>1, <1>2, SortedApart

LEMMA RelocateSlotsKeeps ==
    ASSUME NativeInv, RelocateSlots
    PROVE  NativeInv'
<1>1. /\ packing = "relocate" /\ packing' \in {"write", "refused"} /\ nextEntry > Len(elf.entries)
      /\ packing \in LaidOut /\ packing \in Relocating /\ packing \in Parsed
      /\ UNCHANGED <<elf, records, segments, meta, nextEntry, eki>>
  BY DEF RelocateSlots, Proceed, LaidOut, Parsed, Retained, Relocating
<1>2. CASE packing' = "refused"
  BY <1>1, <1>2 DEF NativeInv, SegmentsInv, ImportsInv, RelocationsInv, CollectedInv, ImageIs,
     LaidOut, Parsed, Retained, Relocating, Collected, ShownTo
<1>3. CASE packing' = "write"
  <2>1. PICK both, all : both = relocations \o SlotRelocations /\ all = Arranged(both, Places(both))
    OBVIOUS
  <2>2. /\ \A i \in 1 .. (Len(all) - 1) :
              <<all[i].segment, all[i].offset>> # <<all[i + 1].segment, all[i + 1].offset>>
        /\ relocations' = all
    BY <1>3, <2>1 DEF RelocateSlots, Proceed, SortedBy, Repeats, Places
  <2>3. /\ all \in Seq(Entry(all)) /\ DOMAIN all = 1 .. Len(all) /\ Len(all) \in Nat
        /\ Entry(all) = Entry(relocations) \cup Entry(SlotRelocations)
        /\ \A m, n \in DOMAIN all :
              all[m].segment = all[n].segment /\ all[m].offset = all[n].offset => m = n
    <3>1. /\ both \in Seq(Entry(both)) /\ Entry(both) = Entry(relocations) \cup Entry(SlotRelocations)
          /\ \A r \in Entry(both) : r.segment \in Int /\ r.offset \in Int
      BY <1>1, <2>1, BothFacts
    <3>2. /\ all \in Seq(Entry(both)) /\ DOMAIN all = DOMAIN both /\ Entry(all) = Entry(both)
      BY <2>1, <3>1, PlacesFacts
    <3>3. all \in Seq(Entry(all)) /\ DOMAIN all = 1 .. Len(all) /\ Len(all) \in Nat
      BY <3>2, OwnItems
    <3>4. Len(all) = Len(both)
      <4>1. DOMAIN both = 1 .. Len(both) /\ Len(both) \in Nat
        BY <3>1
      <4>2. PICK a, b : a = Len(all) /\ b = Len(both)
        OBVIOUS
      <4>3. 1 .. a = 1 .. b /\ a \in Nat /\ b \in Nat
        BY <3>2, <3>3, <4>1, <4>2
      <4>4. a = b
        BY <4>3
      <4>5. QED
        BY <4>2, <4>4
    <3>5. NeighboursDiffer(Places(all), both)
      <4> SUFFICES ASSUME NEW i \in 1 .. Len(both) - 1 PROVE Places(all)[i] # Places(all)[i + 1]
        BY DEF NeighboursDiffer
      <4>1. i \in 1 .. (Len(all) - 1) /\ i \in DOMAIN all /\ i + 1 \in DOMAIN all
        BY <3>3, <3>4
      <4>2. /\ Places(all)[i] = <<all[i].segment, all[i].offset>>
            /\ Places(all)[i + 1] = <<all[i + 1].segment, all[i + 1].offset>>
        BY <4>1 DEF Places
      <4>3. QED
        BY <2>2, <4>1, <4>2
    <3>6. \A m, n \in DOMAIN both : Places(all)[m] = Places(all)[n] => m = n
      <4>1. PICK X : X = Entry(both)
        OBVIOUS
      <4>2. both \in Seq(X) /\ \A x \in X : x.segment \in Int /\ x.offset \in Int
        BY <3>1, <4>1
      <4>3. NeighboursDiffer(Places(Arranged(both, Places(both))), both)
        BY <2>1, <3>5
      <4>4. AllDiffer(Places(Arranged(both, Places(both))), both)
        BY <4>2, <4>3, PlacesApart
      <4>5. AllDiffer(Places(all), both)
        BY <2>1, <4>4
      <4>6. QED
        BY <4>5 DEF AllDiffer
    <3>7. ASSUME NEW m \in DOMAIN all, NEW n \in DOMAIN all,
                 all[m].segment = all[n].segment, all[m].offset = all[n].offset
          PROVE  m = n
      <4>1. Places(all)[m] = Places(all)[n]
        BY <3>7 DEF Places
      <4>2. QED
        BY <3>2, <3>6, <4>1
    <3>8. QED
      BY <3>1, <3>2, <3>3, <3>7
  <2>4. SegmentsInv'
    BY <1>1, SegmentsStay
  <2>5. packing' \in Relocating /\ packing' \in Parsed /\ packing' \in LaidOut /\ packing' \notin ShownTo
    BY <1>3 DEF LaidOut, Parsed, Retained, Relocating, Collected, ShownTo
  <2>6. ImportsInv'
    <3>1. SymbolNames(meta') = SymbolNames(meta)
      BY <1>1
    <3>2. \A name \in SymbolNames(meta) : Located(name)'
      BY <1>1, FileStays DEF NativeInv, ImportsInv
    <3>3. LinkedImports' = LinkedImports
      BY <1>1, FileStays
    <3>4. QED
      BY <1>1, <1>3, <3>1, <3>2, <3>3 DEF NativeInv, ImportsInv, Entry
  <2>7. /\ \A n \in DOMAIN relocations :
              /\ Placed(relocations[n], segments)
              /\ \/ \E k \in 1 .. nextEntry - 1 : OfEntry(relocations[n], elf.entries[k], segments, meta.imports)
                 \/ packing # "relocate" /\ \E i \in DOMAIN meta.imports : OfSlot(relocations[n], i)
        /\ \A k \in 1 .. nextEntry - 1 : \E n \in DOMAIN relocations :
              /\ OfEntry(relocations[n], elf.entries[k], segments, meta.imports)
              /\ relocations[n].kind = IF elf.entries[k].type = "relative" THEN "base" ELSE "import"
        /\ \A i \in DOMAIN meta.imports : meta.imports[i].slot = NoSymbol =>
              \E n \in DOMAIN relocations : relocations[n].kind = "import" /\ relocations[n].import = i
        /\ nextEntry \in 1 .. Len(elf.entries) + 1
    BY <1>1 DEF NativeInv, RelocationsInv
  <2>8. /\ \A k \in DOMAIN SlotRelocations :
                 /\ Placed(SlotRelocations[k], segments)
                 /\ \E i \in DOMAIN meta.imports : OfSlot(SlotRelocations[k], i)
        /\ \A i \in DOMAIN meta.imports : meta.imports[i].slot # NoSymbol =>
                 \E k \in DOMAIN SlotRelocations : OfSlot(SlotRelocations[k], i)
    BY <1>1, SlotFacts
  <2>9. \A r, i : OfSlot(r, i)' <=> OfSlot(r, i)
    BY <1>1, FileStays DEF OfSlot
  <2>10. \A n \in DOMAIN relocations : \E m \in DOMAIN all : all[m] = relocations[n]
    BY <2>3 DEF Entry
  <2>11. \A k \in DOMAIN SlotRelocations : \E m \in DOMAIN all : all[m] = SlotRelocations[k]
    BY <2>3 DEF Entry
  <2>12. ASSUME NEW n \in DOMAIN all
         PROVE  /\ Placed(all[n], segments)
                /\ \/ \E k \in 1 .. nextEntry - 1 : OfEntry(all[n], elf.entries[k], segments, meta.imports)
                   \/ \E i \in DOMAIN meta.imports : OfSlot(all[n], i)
    <3>1. (\E m \in DOMAIN relocations : relocations[m] = all[n])
          \/ (\E m \in DOMAIN SlotRelocations : SlotRelocations[m] = all[n])
      BY <2>3 DEF Entry
    <3>2. QED
      BY <2>7, <2>8, <3>1
  <2>13. ASSUME NEW k \in 1 .. nextEntry - 1
         PROVE  \E n \in DOMAIN all :
                   /\ OfEntry(all[n], elf.entries[k], segments, meta.imports)
                   /\ all[n].kind = IF elf.entries[k].type = "relative" THEN "base" ELSE "import"
    BY <2>7, <2>10
  <2>14. ASSUME NEW i \in DOMAIN meta.imports, meta.imports[i].slot = NoSymbol
         PROVE  \E n \in DOMAIN all : all[n].kind = "import" /\ all[n].import = i
    BY <2>7, <2>10, <2>14
  <2>15. ASSUME NEW i \in DOMAIN meta.imports, meta.imports[i].slot # NoSymbol
         PROVE  \E n \in DOMAIN all : OfSlot(all[n], i)
    BY <2>8, <2>11, <2>15
  <2>16. RelocationsInv'
    <3>1. /\ \A n \in DOMAIN relocations' :
                /\ Placed(relocations'[n], segments')
                /\ \/ \E k \in 1 .. nextEntry' - 1 : OfEntry(relocations'[n], elf'.entries[k], segments', meta'.imports)
                   \/ packing' # "relocate" /\ \E i \in DOMAIN meta'.imports : OfSlot(relocations[n], i)'
      <4>1. \A n \in DOMAIN all : \A i : OfSlot(relocations[n], i)' <=> OfSlot(all[n], i)
        <5>1. \A n \in DOMAIN all : relocations'[n] = all[n]
          BY <2>2
        <5>2. QED
          BY <1>1, <2>9, <5>1, FileStays DEF OfSlot
      <4>2. QED
        BY <1>1, <1>3, <2>2, <2>12, <4>1
    <3>2. \A k \in 1 .. nextEntry' - 1 : \E n \in DOMAIN relocations' :
             /\ OfEntry(relocations'[n], elf'.entries[k], segments', meta'.imports)
             /\ relocations'[n].kind = IF elf'.entries[k].type = "relative" THEN "base" ELSE "import"
      BY <1>1, <2>2, <2>13
    <3>3. \A i \in DOMAIN meta'.imports : meta'.imports[i].slot = NoSymbol =>
             \E n \in DOMAIN relocations' : relocations'[n].kind = "import" /\ relocations'[n].import = i
      BY <1>1, <2>2, <2>14
    <3>4. /\ nextEntry' \in 1 .. Len(elf'.entries) + 1
          /\ DOMAIN relocations' = 1 .. Len(relocations') /\ Len(relocations') \in Nat
          /\ relocations' \in Seq(Entry(relocations'))
      BY <1>1, <2>2, <2>3, <2>7
    <3>5. QED
      BY <3>1, <3>2, <3>3, <3>4 DEF RelocationsInv, Entry
  <2>17. CollectedInv'
    BY <1>1, <2>2, <2>3, <2>9, <2>15 DEF CollectedInv
  <2>18. ImageIs'
    BY <2>5 DEF ImageIs
  <2>19. QED
    BY <1>1, <1>3, <2>4, <2>5, <2>6, <2>16, <2>17, <2>18 DEF NativeInv
<1>4. QED
  BY <1>1, <1>2, <1>3

LEMMA WriteImageKeeps ==
    ASSUME NativeInv, WriteImage
    PROVE  NativeInv'
<1>1. /\ packing = "write" /\ packing' = "packed"
      /\ packing \in LaidOut /\ packing \in Relocating /\ packing \in Collected /\ packing \in Parsed
      /\ UNCHANGED <<elf, records, segments, meta, relocations, nextEntry>>
  BY DEF WriteImage, LaidOut, Parsed, Retained, Relocating, Collected
<1>2. SegmentsInv'
  BY <1>1, SegmentsStay
<1>3. ASSUME NEW name
      PROVE  /\ SymbolOf(name)' = SymbolOf(name) /\ Location(name)' = Location(name)
             /\ Located(name)' <=> Located(name)
  BY <1>1, FileStays
<1>4. SymbolNames(meta)' = SymbolNames(meta) /\ LinkedImports' = LinkedImports
  BY <1>1, FileStays
<1>5. ImportsInv'
  BY <1>1, <1>3, <1>4 DEF NativeInv, ImportsInv, Entry
<1>6. \A r, i : OfSlot(r, i)' <=> OfSlot(r, i)
  BY <1>1, <1>3 DEF OfSlot
<1>7. RelocationsInv'
  <2>1. \A n \in DOMAIN relocations : \A i : OfSlot(relocations[n], i)' <=> OfSlot(relocations[n], i)
    BY <1>1, <1>3 DEF OfSlot
  <2>2. RelocationsInv
    BY DEF NativeInv
  <2>3. QED
    BY <1>1, <2>1, <2>2 DEF RelocationsInv, Entry
<1>8. CollectedInv'
  <2>1. \A n \in DOMAIN relocations : \A i : OfSlot(relocations[n], i)' <=> OfSlot(relocations[n], i)
    BY <1>1, <1>3 DEF OfSlot
  <2>2. CollectedInv
    BY DEF NativeInv
  <2>3. QED
    BY <1>1, <2>1, <2>2 DEF CollectedInv
<1>9. ImageIs'
  <2>1. {Location(name) : name \in SymbolNames(meta)}' = {Location(name) : name \in SymbolNames(meta)}
    BY <1>3, <1>4
  <2>2. eki' = [segments |-> [i \in DOMAIN segments |->
                                [kind |-> segments[i].kind, mem |-> segments[i].mem,
                                 file |-> segments[i].file, bytes |-> segments[i].offset]],
                imports |-> meta.imports,
                locations |-> {Location(name) : name \in SymbolNames(meta)},
                relocations |-> relocations]
    BY DEF WriteImage
  <2>3. QED
    BY <1>1, <2>1, <2>2 DEF ImageIs
<1>10. QED
  BY <1>1, <1>2, <1>5, <1>7, <1>8, <1>9 DEF NativeInv, LaidOut, Parsed, Retained, Relocating, Collected, ShownTo

\* A step that leaves the file and the image alone.
LEMMA ImageStays ==
    ASSUME NativeInv, UNCHANGED <<elf, records, segments, meta, relocations, nextEntry, eki>>,
           \/ packing' = packing
           \/ packing = "packed" /\ packing' \in {"shown", "refused"}
    PROVE  NativeInv'
<1>1. CASE packing' = "refused"
  BY <1>1 DEF NativeInv, SegmentsInv, ImportsInv, RelocationsInv, CollectedInv, ImageIs,
     LaidOut, Parsed, Retained, Relocating, Collected, ShownTo
<1>2. CASE packing' # "refused"
  <2>1. \A S \in {ShownTo, Collected, Relocating, Parsed, LaidOut} : packing' \in S <=> packing \in S
    BY <1>2 DEF LaidOut, Parsed, Retained, Relocating, Collected, ShownTo
  <2>2. /\ packing' \in {"elf", "layout", "metadata", "retain", "symbols", "relocate"} => packing' = packing
        /\ packing \in {"elf", "layout", "metadata", "retain", "symbols", "relocate"} => packing' = packing
        /\ packing \in {"elf", "layout", "refused"} \cup LaidOut => packing' \in {"elf", "layout", "refused"} \cup LaidOut
    BY <1>2 DEF LaidOut, Parsed, Retained, Relocating, Collected, ShownTo
  <2>3. ASSUME NEW name
        PROVE  /\ SymbolOf(name)' = SymbolOf(name) /\ Location(name)' = Location(name)
               /\ Located(name)' <=> Located(name)
    BY FileStays
  <2>4. SymbolNames(meta)' = SymbolNames(meta) /\ LinkedImports' = LinkedImports /\ (LayoutValid' <=> LayoutValid)
    BY FileStays
  <2>5. \A n \in DOMAIN relocations : \A i : OfSlot(relocations[n], i)' <=> OfSlot(relocations[n], i)
    BY <2>3 DEF OfSlot
  <2>6. SegmentsInv'
    BY <2>1, <2>2, <2>4 DEF NativeInv, SegmentsInv, Entry
  <2>7. ImportsInv'
    BY <2>1, <2>2, <2>3, <2>4 DEF NativeInv, ImportsInv, Entry
  <2>8. RelocationsInv'
    BY <2>1, <2>2, <2>5 DEF NativeInv, RelocationsInv, Entry
  <2>9. CollectedInv'
    BY <2>1, <2>5 DEF NativeInv, CollectedInv
  <2>10. ImageIs'
    <3>1. {Location(name) : name \in SymbolNames(meta)}' = {Location(name) : name \in SymbolNames(meta)}
      BY <2>3, <2>4
    <3>2. QED
      BY <2>1, <3>1 DEF NativeInv, ImageIs
  <2>11. QED
    BY <2>1, <2>2, <2>6, <2>7, <2>8, <2>9, <2>10 DEF NativeInv
<1>3. QED
  BY <1>1, <1>2

\* The lists of an image are those of the ELF file, with every place a segment and
\* an offset in it, at every step of packing.
THEOREM NativeInductive == NativeSpec => []NativeInv
<1>1. NativeInit => NativeInv
  BY DEF NativeInit, NativeInv, SegmentsInv, ImportsInv, RelocationsInv, CollectedInv, ImageIs,
     LaidOut, Parsed, Retained, Relocating, Collected, ShownTo
<1>2. ASSUME NativeInv, [NativeNext]_nativeVars PROVE NativeInv'
  <2>1. CASE ReadElf
    BY <1>2, <2>1, ReadElfKeeps
  <2>2. CASE CheckLayout
    BY <1>2, <2>2, CheckLayoutKeeps
  <2>3. CASE ReadMetadata
    BY <1>2, <2>3, ReadMetadataKeeps
  <2>4. CASE RetainLinked
    BY <1>2, <2>4, RetainLinkedKeeps
  <2>5. CASE CheckSymbols
    BY <1>2, <2>5, CheckSymbolsKeeps
  <2>6. CASE RelocateRelative
    BY <1>2, <2>6, RelocateRelativeKeeps
  <2>7. CASE RelocateImport
    BY <1>2, <2>7, RelocateImportKeeps
  <2>8. CASE RefuseEntry
    BY <1>2, <2>8, RefuseEntryKeeps
  <2>9. CASE RelocateSlots
    BY <1>2, <2>9, RelocateSlotsKeeps
  <2>10. CASE WriteImage
    BY <1>2, <2>10, WriteImageKeeps
  <2>11. CASE Show
    BY <1>2, <2>11, ImageStays DEF Show, Proceed
  <2>12. CASE UNCHANGED nativeVars
    BY <1>2, <2>12, ImageStays DEF nativeVars
  <2>13. QED
    BY <1>2, <2>1, <2>2, <2>3, <2>4, <2>5, <2>6, <2>7, <2>8, <2>9, <2>10, <2>11, <2>12 DEF NativeNext
<1>3. QED
  BY <1>1, <1>2, PTL DEF NativeSpec

-----------------------------------------------------------------------------
(* What the invariant says of an image.                                      *)

\* The lists of a packed image.
LEMMA PackedFacts ==
    ASSUME NativeInv, Packed
    PROVE  /\ packing \in LaidOut /\ packing \in Relocating /\ packing \in Collected
           /\ DOMAIN segments = 1 .. Len(segments) /\ Len(segments) \in Nat
           /\ DOMAIN eki.segments = DOMAIN segments
           /\ \A i \in DOMAIN segments :
                 eki.segments[i] = [kind |-> segments[i].kind, mem |-> segments[i].mem,
                                    file |-> segments[i].file, bytes |-> segments[i].offset]
           /\ eki.imports = meta.imports /\ eki.relocations = relocations
           /\ eki.locations = {Location(name) : name \in SymbolNames(meta)}
<1>1. packing \in LaidOut /\ packing \in Relocating /\ packing \in Collected /\ packing \in ShownTo
  BY DEF Packed, LaidOut, Parsed, Retained, Relocating, Collected, ShownTo
<1>2. eki = [segments |-> [i \in DOMAIN segments |->
                                [kind |-> segments[i].kind, mem |-> segments[i].mem,
                                 file |-> segments[i].file, bytes |-> segments[i].offset]],
               imports |-> meta.imports,
               locations |-> {Location(name) : name \in SymbolNames(meta)},
               relocations |-> relocations]
  BY <1>1 DEF NativeInv, ImageIs
<1>3. eki.segments = [i \in DOMAIN segments |->
                                [kind |-> segments[i].kind, mem |-> segments[i].mem,
                                 file |-> segments[i].file, bytes |-> segments[i].offset]]
  BY <1>2
<1>4. eki.imports = meta.imports /\ eki.relocations = relocations
  BY <1>2
<1>5. eki.locations = {Location(name) : name \in SymbolNames(meta)}
  BY <1>2
<1>6. QED
  BY <1>1, <1>3, <1>4, <1>5, SegmentFacts

\* Laid out again, a segment is where it was.
LEMMA AddressOfSegment ==
    ASSUME NativeInv, Packed, NEW i \in DOMAIN segments
    PROVE  RuntimeOffset(i) = segments[i].vaddr /\ segments[i].vaddr \in Nat
<1>1. /\ packing \in LaidOut
      /\ DOMAIN segments = 1 .. Len(segments) /\ Len(segments) \in Nat
      /\ \A k \in DOMAIN segments :
            eki.segments[k] = [kind |-> segments[k].kind, mem |-> segments[k].mem,
                               file |-> segments[k].file, bytes |-> segments[k].offset]
  BY PackedFacts
<1>2. /\ \A k \in 1 .. Len(segments) : segments[k].vaddr \in Nat /\ segments[k].mem \in Nat
      /\ LayoutValid
  BY <1>1, SegmentFacts DEF Packed
<1>3. ASSUME NEW k \in 1 .. Len(segments) PROVE eki.segments[k].mem = segments[k].mem
  <2>1. eki.segments[k] = [kind |-> segments[k].kind, mem |-> segments[k].mem,
                           file |-> segments[k].file, bytes |-> segments[k].offset]
    BY <1>1
  <2>2. QED
    BY <2>1
<1>4. QED
  BY <1>1, <1>2, <1>3, OffsetsReturn

\* So is what is in a segment.
LEMMA AddressOfPlace ==
    ASSUME NativeInv, Packed, NEW r, Placed(r, segments)
    PROVE  Address(r) = PlaceOf(r, segments) /\ Address(r) \in Nat
<1>1. r.segment \in DOMAIN segments /\ r.offset \in Nat
  BY DEF Placed
<1>2. QED
  BY <1>1, AddressOfSegment DEF Address, PlaceOf

LEMMA AddressOfLocation ==
    ASSUME NativeInv, Packed, NEW l \in eki.locations
    PROVE  /\ \E name \in SymbolNames(meta) : l = Location(name) /\ l.name = name
           /\ l.segment \in DOMAIN segments /\ l.offset \in Nat
           /\ RuntimeOffset(l.segment) + l.offset = SymbolOf(l.name).value
<1>1. packing \in LaidOut /\ packing \in Relocating
      /\ eki.locations = {Location(name) : name \in SymbolNames(meta)}
  BY PackedFacts
<1>2. PICK name \in SymbolNames(meta) : l = Location(name)
  BY <1>1
<1>3. Located(name)
  BY <1>1 DEF NativeInv, ImportsInv, Parsed, Retained
<1>4. /\ l.segment \in DOMAIN segments /\ l.offset \in Nat /\ l.name = name
      /\ PlaceOf(l, segments) = SymbolOf(name).value
  BY <1>1, <1>2, <1>3, LocationIs
<1>5. QED
  BY <1>2, <1>4, AddressOfSegment DEF PlaceOf

\* Each relocation is that of a dynamic one or of a slot.
LEMMA RelocationIs ==
    ASSUME NativeInv, Packed, NEW n \in DOMAIN relocations
    PROVE  /\ Placed(relocations[n], segments)
           /\ \/ \E e \in Entry(elf.entries) : OfEntry(relocations[n], e, segments, meta.imports)
              \/ \E i \in DOMAIN meta.imports : OfSlot(relocations[n], i)
<1>1. packing \in Relocating
  BY PackedFacts
<1>2. /\ Placed(relocations[n], segments) /\ nextEntry \in 1 .. Len(elf.entries) + 1
      /\ \/ \E k \in 1 .. nextEntry - 1 : OfEntry(relocations[n], elf.entries[k], segments, meta.imports)
         \/ \E i \in DOMAIN meta.imports : OfSlot(relocations[n], i)
  BY <1>1 DEF NativeInv, RelocationsInv
<1>3. elf.entries \in Seq(Dynamics)
  BY NativeAssumption DEF NativeInv
<1>4. ASSUME NEW k \in 1 .. nextEntry - 1 PROVE elf.entries[k] \in Entry(elf.entries)
  <2>1. k \in DOMAIN elf.entries
    BY <1>2, <1>3
  <2>2. QED
    BY <2>1 DEF Entry
<1>5. QED
  BY <1>2, <1>4

\* And each dynamic relocation has one.
LEMMA EntryRelocated ==
    ASSUME NativeInv, Packed, NEW e \in Entry(elf.entries)
    PROVE  \E n \in DOMAIN relocations :
              /\ OfEntry(relocations[n], e, segments, meta.imports)
              /\ relocations[n].kind = IF e.type = "relative" THEN "base" ELSE "import"
<1>1. packing \in Relocating /\ packing \in Collected
  BY PackedFacts
<1>2. elf.entries \in Seq(Dynamics)
  BY NativeAssumption DEF NativeInv
<1>3. PICK k \in DOMAIN elf.entries : e = elf.entries[k]
  BY DEF Entry
<1>4. nextEntry > Len(elf.entries) /\ nextEntry \in 1 .. Len(elf.entries) + 1
  BY <1>1 DEF NativeInv, CollectedInv, RelocationsInv
<1>5. k \in 1 .. nextEntry - 1
  BY <1>2, <1>4
<1>6. QED
  BY <1>1, <1>3, <1>5 DEF NativeInv, RelocationsInv

LEMMA PackedReferences ==
    ASSUME NativeInv
    PROVE  ReferencesKept
<1> SUFFICES ASSUME Packed PROVE ReferencesKept
  BY DEF ReferencesKept
<1>1. /\ packing \in LaidOut /\ packing \in Relocating /\ packing \in Collected
      /\ DOMAIN segments = 1 .. Len(segments) /\ Len(segments) \in Nat
      /\ eki.imports = meta.imports /\ eki.relocations = relocations
  BY PackedFacts
<1>2. meta.imports[1] = ApiRoot /\ {x \in Entry(meta.imports) : x.slot # NoSymbol} = LinkedImports
  BY <1>1 DEF NativeInv, ImportsInv, Parsed, Retained
<1>3. ASSUME NEW r \in Entry(relocations), r.kind = "import"
      PROVE  \/ \E e \in Dynamic("absolute") :
                   /\ e.target = Address(r) /\ e.addend = r.addend
                   /\ Serves(meta.imports[r.import], KernelSymbol[e.symbol])
             \/ /\ meta.imports[r.import] \in LinkedImports
                /\ Address(r) = SymbolOf(meta.imports[r.import].slot).value
  <2>1. PICK n \in DOMAIN relocations : r = relocations[n]
    BY DEF Entry
  <2>2. Address(r) = PlaceOf(r, segments)
    BY <2>1, RelocationIs, AddressOfPlace
  <2>3. CASE \E e \in Entry(elf.entries) : OfEntry(r, e, segments, meta.imports)
    BY <1>3, <2>2, <2>3 DEF OfEntry, Dynamic
  <2>4. CASE \E i \in DOMAIN meta.imports : OfSlot(r, i)
    <3>1. PICK i \in DOMAIN meta.imports : OfSlot(r, i)
      BY <2>4
    <3>2. r.import = i /\ meta.imports[i].slot # NoSymbol /\ PlaceOf(r, segments) = SymbolOf(meta.imports[i].slot).value
      BY <3>1 DEF OfSlot
    <3>3. meta.imports[i] \in LinkedImports
      BY <1>2, <3>2 DEF Entry
    <3>4. QED
      BY <2>2, <3>2, <3>3
  <2>5. QED
    BY <2>1, <2>3, <2>4, RelocationIs
<1>4. ASSUME NEW i \in DOMAIN relocations, NEW j \in DOMAIN relocations,
             Address(relocations[i]) = Address(relocations[j])
      PROVE  i = j
  <2>1. PICK q, r : q = relocations[i] /\ r = relocations[j]
    OBVIOUS
  <2>2. Placed(q, segments) /\ Placed(r, segments)
    BY <2>1, RelocationIs
  <2>3. PlaceOf(q, segments) = PlaceOf(r, segments)
    BY <1>4, <2>1, <2>2, AddressOfPlace
  <2>4. /\ q.segment \in DOMAIN segments /\ q.offset \in Nat /\ q.offset < segments[q.segment].mem
        /\ r.segment \in DOMAIN segments /\ r.offset \in Nat /\ r.offset < segments[r.segment].mem
        /\ segments[q.segment].vaddr + q.offset = segments[r.segment].vaddr + r.offset
    BY <2>2, <2>3 DEF Placed, PlaceOf
  <2>5. \A k \in DOMAIN segments : segments[k].vaddr \in Nat /\ segments[k].mem \in Nat
    BY <1>1, SegmentFacts
  <2>6. PICK a : a = segments[q.segment].vaddr + q.offset
    OBVIOUS
  <2>7. /\ a \in Int
        /\ segments[q.segment].vaddr <= a /\ a < segments[q.segment].vaddr + segments[q.segment].mem
        /\ segments[r.segment].vaddr <= a /\ a < segments[r.segment].vaddr + segments[r.segment].mem
    BY <2>4, <2>5, <2>6
  <2>8. q.segment = r.segment
    BY <1>1, <2>4, <2>7, HoldingIsOne
  <2>9. q.offset = r.offset
    BY <2>4, <2>5, <2>8
  <2>10. \A m, n \in DOMAIN relocations :
            relocations[m].segment = relocations[n].segment
            /\ relocations[m].offset = relocations[n].offset => m = n
    BY <1>1 DEF NativeInv, CollectedInv
  <2>11. QED
    BY <2>1, <2>8, <2>9, <2>10
<1>5. ASSUME NEW i \in DOMAIN meta.imports
      PROVE  \E r \in Entry(relocations) : r.kind = "import" /\ r.import = i
  <2>1. \E n \in DOMAIN relocations : relocations[n].kind = "import" /\ relocations[n].import = i
    <3>1. CASE meta.imports[i].slot = NoSymbol
      BY <1>1, <3>1 DEF NativeInv, RelocationsInv
    <3>2. CASE meta.imports[i].slot # NoSymbol
      BY <1>1, <3>2 DEF NativeInv, CollectedInv, OfSlot
    <3>3. QED
      BY <3>1, <3>2
  <2>2. QED
    BY <2>1 DEF Entry
<1>6. QED
  BY <1>1, <1>2, <1>3, <1>4, <1>5 DEF ReferencesKept

\* ReferencesKept: every relocation of the packed image has the number of the import
\* that its place in the ELF file asks for, whatever was sorted, dropped and added,
\* no place has two, and no import of a kernel symbol is without a relocation.
THEOREM ReferencesKeptHolds == NativeSpec => []ReferencesKept
BY NativeInductive, PackedReferences, PTL

\* The relocations of a packed image are where the ELF file asks for them.
BaseKept ==
    {<<Address(r), r.addend>> : r \in {r \in Entry(eki.relocations) : r.kind = "base"}}
    = {<<e.target, e.addend>> : e \in Dynamic("relative")}
ImportsKept ==
    {Address(r) : r \in {r \in Entry(eki.relocations) : r.kind = "import"}}
    = {e.target : e \in Dynamic("absolute")} \cup {SymbolOf(x.slot).value : x \in LinkedImports}

LEMMA PackedAddresses ==
    ASSUME NativeInv, Packed
    PROVE  BaseKept /\ ImportsKept
<1>1. /\ packing \in Relocating /\ packing \in Collected /\ eki.relocations = relocations
  BY PackedFacts
<1>2. {x \in Entry(meta.imports) : x.slot # NoSymbol} = LinkedImports
  BY <1>1 DEF NativeInv, ImportsInv, Parsed, Retained
<1>3. ASSUME NEW r \in Entry(relocations)
      PROVE  /\ r.kind = "base" => \E e \in Dynamic("relative") : e.target = Address(r) /\ e.addend = r.addend
             /\ r.kind = "import" =>
                   \/ \E e \in Dynamic("absolute") : e.target = Address(r)
                   \/ \E x \in LinkedImports : Address(r) = SymbolOf(x.slot).value
  <2>1. PICK n \in DOMAIN relocations : r = relocations[n]
    BY DEF Entry
  <2>2. Address(r) = PlaceOf(r, segments)
    BY <2>1, RelocationIs, AddressOfPlace
  <2>3. CASE \E e \in Entry(elf.entries) : OfEntry(r, e, segments, meta.imports)
    BY <2>2, <2>3 DEF OfEntry, Dynamic
  <2>4. CASE \E i \in DOMAIN meta.imports : OfSlot(r, i)
    <3>1. PICK i \in DOMAIN meta.imports : OfSlot(r, i)
      BY <2>4
    <3>2. /\ r.kind = "import" /\ meta.imports[i].slot # NoSymbol
          /\ PlaceOf(r, segments) = SymbolOf(meta.imports[i].slot).value
      BY <3>1 DEF OfSlot
    <3>3. meta.imports[i] \in LinkedImports
      BY <1>2, <3>2 DEF Entry
    <3>4. QED
      BY <2>2, <3>2, <3>3
  <2>5. QED
    BY <2>1, <2>3, <2>4, RelocationIs
<1>4. ASSUME NEW e \in Entry(elf.entries)
      PROVE  \E r \in Entry(relocations) :
                /\ Address(r) = e.target /\ r.addend = e.addend
                /\ r.kind = IF e.type = "relative" THEN "base" ELSE "import"
  <2>1. PICK n \in DOMAIN relocations :
           /\ OfEntry(relocations[n], e, segments, meta.imports)
           /\ relocations[n].kind = IF e.type = "relative" THEN "base" ELSE "import"
    BY EntryRelocated
  <2>2. PICK r : r = relocations[n]
    OBVIOUS
  <2>3. Address(r) = PlaceOf(r, segments) /\ r \in Entry(relocations)
    BY <2>2, RelocationIs, AddressOfPlace DEF Entry
  <2>4. PlaceOf(r, segments) = e.target /\ r.addend = e.addend
    BY <2>1, <2>2 DEF OfEntry
  <2>5. QED
    BY <2>1, <2>2, <2>3, <2>4
<1>5. ASSUME NEW x \in LinkedImports
      PROVE  \E r \in Entry(relocations) : r.kind = "import" /\ Address(r) = SymbolOf(x.slot).value
  <2>1. PICK i \in DOMAIN meta.imports : x = meta.imports[i] /\ meta.imports[i].slot # NoSymbol
    BY <1>2 DEF Entry
  <2>2. PICK n \in DOMAIN relocations : OfSlot(relocations[n], i)
    BY <1>1, <2>1 DEF NativeInv, CollectedInv
  <2>3. PICK r : r = relocations[n]
    OBVIOUS
  <2>4. Address(r) = PlaceOf(r, segments) /\ r \in Entry(relocations)
    BY <2>3, RelocationIs, AddressOfPlace DEF Entry
  <2>5. r.kind = "import" /\ PlaceOf(r, segments) = SymbolOf(x.slot).value
    BY <2>1, <2>2, <2>3 DEF OfSlot
  <2>6. QED
    BY <2>4, <2>5
<1>6. BaseKept
  <2>1. ASSUME NEW r \in Entry(relocations), r.kind = "base"
        PROVE  <<Address(r), r.addend>> \in {<<e.target, e.addend>> : e \in Dynamic("relative")}
    BY <1>3, <2>1
  <2>2. ASSUME NEW e \in Dynamic("relative")
        PROVE  <<e.target, e.addend>> \in {<<Address(r), r.addend>> : r \in {r \in Entry(relocations) : r.kind = "base"}}
    <3>1. e \in Entry(elf.entries) /\ e.type = "relative"
      BY DEF Dynamic
    <3>2. PICK r \in Entry(relocations) : Address(r) = e.target /\ r.addend = e.addend /\ r.kind = "base"
      BY <1>4, <3>1
    <3>3. QED
      BY <3>2
  <2>3. QED
    BY <1>1, <2>1, <2>2 DEF BaseKept
<1>7. ImportsKept
  <2>1. ASSUME NEW r \in Entry(relocations), r.kind = "import"
        PROVE  Address(r) \in {e.target : e \in Dynamic("absolute")} \cup {SymbolOf(x.slot).value : x \in LinkedImports}
    BY <1>3, <2>1
  <2>2. ASSUME NEW e \in Dynamic("absolute")
        PROVE  e.target \in {Address(r) : r \in {r \in Entry(relocations) : r.kind = "import"}}
    <3>1. e \in Entry(elf.entries) /\ e.type = "absolute"
      BY DEF Dynamic
    <3>2. PICK r \in Entry(relocations) : Address(r) = e.target /\ r.kind = "import"
      BY <1>4, <3>1
    <3>3. QED
      BY <3>2
  <2>3. ASSUME NEW x \in LinkedImports
        PROVE  SymbolOf(x.slot).value \in {Address(r) : r \in {r \in Entry(relocations) : r.kind = "import"}}
    BY <1>5
  <2>4. QED
    BY <1>1, <2>1, <2>2, <2>3 DEF ImportsKept
<1>8. QED
  BY <1>6, <1>7

\* What objdump shows, v, is right.
LabelFits(s, listed) ==
    /\ \E k \in DOMAIN Lifecycle, e \in Dynamic("relative") :
          /\ s.name = Lifecycle[k] /\ s.value = e.addend
          /\ e.target = SymbolOf(Descriptor).value + PointerOffset + WordSize * (k - 1)
    /\ \A t \in listed : t.value > s.value => s.value + s.size <= t.value
SectionFits(x) == \E load \in Entry(elf.loads) :
    /\ load.flags = "rx" /\ x.start = load.vaddr
    /\ x.bytes = load.offset /\ x.size = load.file
ShownRight(v) ==
    /\ \A x \in Entry(v.sections) : SectionFits(x)
    /\ \A s \in v.symbols :
          IF \E l \in InSections(v.sections) : l.name = s.name
          THEN s.value = SymbolOf(s.name).value ELSE LabelFits(s, v.symbols)

\* A section has the code of an executable load, from its address on.
LEMMA SectionFacts ==
    ASSUME NativeInv, Packed, NEW only
    PROVE  \A x \in Entry(CodeSections(only)) :
              /\ SectionFits(x) /\ x.start \in Nat /\ x.size \in Nat
              /\ x.segment \in DOMAIN segments
<1> DEFINE S == {i \in DOMAIN eki.segments : eki.segments[i].kind = "code" /\ only \in {0, i}}
           numbers == Ascending(S)
<1>1. /\ packing \in LaidOut /\ DOMAIN segments = 1 .. Len(segments) /\ Len(segments) \in Nat
      /\ DOMAIN eki.segments = DOMAIN segments
      /\ \A i \in DOMAIN segments :
            eki.segments[i] = [kind |-> segments[i].kind, mem |-> segments[i].mem,
                               file |-> segments[i].file, bytes |-> segments[i].offset]
  BY PackedFacts
<1>2. S \in SUBSET (1 .. Len(segments))
  BY <1>1
<1>3. /\ DOMAIN numbers = 1 .. Cardinality(S)
      /\ \A k \in 1 .. Cardinality(S) : numbers[k] \in S
  <2> HIDE DEF S
  <2>1. QED
    BY <1>1, <1>2, AscendingFacts
<1>4. CodeSections(only) =
         [k \in DOMAIN numbers |->
            [segment |-> numbers[k], start |-> RuntimeOffset(numbers[k]),
             bytes |-> eki.segments[numbers[k]].bytes, size |-> eki.segments[numbers[k]].file]]
  BY DEF CodeSections
<1> HIDE DEF numbers
<1> SUFFICES ASSUME NEW x \in Entry(CodeSections(only))
             PROVE  /\ SectionFits(x) /\ x.start \in Nat /\ x.size \in Nat
                    /\ x.segment \in DOMAIN segments
  OBVIOUS
<1>5. PICK i \in S : x = [segment |-> i, start |-> RuntimeOffset(i),
                          bytes |-> eki.segments[i].bytes, size |-> eki.segments[i].file]
  BY <1>3, <1>4 DEF Entry
<1>6. i \in DOMAIN segments /\ eki.segments[i].kind = "code"
  BY <1>1
<1>7. /\ segments[i].kind = "code" /\ eki.segments[i].bytes = segments[i].offset
      /\ eki.segments[i].file = segments[i].file
  <2>1. eki.segments[i] = [kind |-> segments[i].kind, mem |-> segments[i].mem,
                           file |-> segments[i].file, bytes |-> segments[i].offset]
    BY <1>1, <1>6
  <2>2. QED
    BY <1>6, <2>1
<1>8. RuntimeOffset(i) = segments[i].vaddr
  BY <1>6, AddressOfSegment
<1>9. x.segment = i /\ x.start = segments[i].vaddr /\ x.bytes = segments[i].offset /\ x.size = segments[i].file
  BY <1>5, <1>7, <1>8
<1>10. /\ {segments[i].vaddr, segments[i].file} \subseteq Nat
       /\ \E load \in Entry(elf.loads) :
             /\ load.flags = "rx" /\ segments[i].vaddr = load.vaddr
             /\ segments[i].offset = load.offset /\ segments[i].file = load.file
  BY <1>1, <1>6, <1>7 DEF NativeInv, SegmentsInv
<1>11. QED
  BY <1>6, <1>9, <1>10 DEF SectionFits

\* A label ends before whatever follows it.
LEMMA LabelSizeFacts ==
    ASSUME NEW sections, \A x \in Entry(sections) : x.start \in Nat /\ x.size \in Nat,
           NEW known \in SUBSET Nat, NEW value \in Nat, NEW t \in known, t > value,
           NEW x \in Entry(sections), Inside(x, value)
    PROVE  value + LabelSize(value, known, sections) <= t
<1> DEFINE later == {v \in known : v > value /\ \E y \in Entry(sections) : Inside(y, v) /\ Inside(y, value)}
<1>1. LabelSize(value, known, sections) = IF later = {} THEN 1 ELSE Least(later) - value
  BY DEF LabelSize
<1>2. CASE later = {}
  BY <1>1, <1>2
<1>3. CASE later # {}
  <2>1. later \in SUBSET Nat
    OBVIOUS
  <2>2. PICK v \in later : \A w \in later : <<w, v>> \notin OpToRel(<, Nat)
    BY <1>3, <2>1, NatLessThanWellFounded, WFMin
  <2>3. v \in Nat /\ \A w \in later : w \in Nat /\ v <= w
    <3>1. v \in Nat /\ \A w \in later : w \in Nat
      BY <2>1, <2>2
    <3>2. \A w \in later : ~(w < v)
      BY <2>2, <3>1 DEF OpToRel
    <3>3. QED
      BY <3>1, <3>2
  <2>4. PICK m : m = Least(later)
    OBVIOUS
  <2> HIDE DEF later
  <2>5. m \in later /\ \A w \in later : m <= w
    BY <2>2, <2>3, <2>4 DEF Least
  <2>6. m \in Nat /\ value + LabelSize(value, known, sections) = m
    BY <1>1, <1>3, <2>3, <2>4, <2>5
  <2> USE DEF later
  <2>7. PICK y \in Entry(sections) : Inside(y, m) /\ Inside(y, value)
    BY <2>5
  <2>8. m <= t
    <3>1. CASE Inside(y, t)
      <4>1. t \in later
        BY <2>7, <3>1
      <4>2. QED
        BY <2>5, <4>1
    <3>2. CASE ~Inside(y, t)
      <4>1. y.start <= value /\ m < y.start + y.size /\ y.start \in Nat /\ y.size \in Nat /\ t \in Nat
        BY <2>7 DEF Inside
      <4>2. t >= y.start + y.size
        BY <3>2, <4>1 DEF Inside
      <4>3. QED
        BY <2>6, <4>1, <4>2
    <3>3. QED
      BY <3>1, <3>2
  <2>9. QED
    BY <2>6, <2>8
<1>4. QED
  BY <1>2, <1>3

\* The pointer to a function is the relative relocation at its place in the descriptor.
LEMMA LabelIsPointer ==
    ASSUME NativeInv, Packed, NEW sections, NEW k \in Labelled(sections)
    PROVE  /\ k \in DOMAIN Lifecycle
           /\ LabelValue(k) \in Nat /\ \E x \in Entry(sections) : Inside(x, LabelValue(k))
           /\ \E e \in Dynamic("relative") :
                 /\ LabelValue(k) = e.addend
                 /\ e.target = SymbolOf(Descriptor).value + PointerOffset + WordSize * (k - 1)
<1>1. k \in DOMAIN Lifecycle /\ k \in Int /\ PointerOffset \in Nat
  BY NativeAssumption DEF Labelled
<1>2. Cardinality(PointerPlaces(k)) = 1 /\ \E r \in PointerPlaces(k), x \in Entry(sections) : Inside(x, r.addend)
  BY DEF Labelled
<1>3. PICK q \in PointerPlaces(k) : PointerPlaces(k) = {q}
  <2>1. IsFiniteSet(PointerPlaces(k))
    <3>1. packing \in Relocating /\ eki.relocations = relocations
      BY PackedFacts
    <3>2. DOMAIN relocations = 1 .. Len(relocations) /\ Len(relocations) \in Nat
      BY <3>1 DEF NativeInv, RelocationsInv
    <3>3. IsFiniteSet(DOMAIN relocations)
      BY <3>2, FS_Interval
    <3>4. IsFiniteSet(Entry(relocations))
      <4>1. PICK f : f = [n \in DOMAIN relocations |-> relocations[n]]
        OBVIOUS
      <4>2. f \in Surjection(DOMAIN relocations, Entry(relocations))
        BY <4>1 DEF Surjection, Entry
      <4>3. QED
        BY <3>3, <4>2, FS_Surjection
    <3>5. PointerPlaces(k) \subseteq Entry(relocations)
      BY <3>1 DEF PointerPlaces
    <3>6. QED
      BY <3>4, <3>5, FS_Subset
  <2>2. \E q : PointerPlaces(k) = {q}
    BY <1>2, <2>1, FS_Singleton
  <2>3. QED
    BY <2>2
<1>4. LabelValue(k) = q.addend
  BY <1>3 DEF LabelValue
<1>5. PICK d \in eki.locations :
         /\ d.name = Descriptor /\ q \in Entry(eki.relocations)
         /\ q.kind = "base" /\ q.segment = d.segment
         /\ q.offset = d.offset + PointerOffset + WordSize * (k - 1)
  BY <1>3 DEF PointerPlaces
<1>6. PICK n \in DOMAIN relocations : q = relocations[n]
  BY <1>5, PackedFacts DEF Entry
<1>7. PICK e \in Entry(elf.entries) : OfEntry(q, e, segments, meta.imports)
  BY <1>5, <1>6, RelocationIs DEF OfSlot
<1>8. PlaceOf(q, segments) = e.target /\ q.addend = e.addend /\ e.type = "relative" /\ e.addend >= 0
  BY <1>5, <1>7 DEF OfEntry
<1>9. e.addend \in Int
  <2>1. elf.entries \in Seq(Dynamics)
    BY NativeAssumption DEF NativeInv
  <2>2. e \in Dynamics
    BY <1>7, <2>1 DEF Entry
  <2>3. QED
    BY <2>2 DEF Dynamics
<1>10. /\ d.segment \in DOMAIN segments /\ d.offset \in Nat
       /\ RuntimeOffset(d.segment) + d.offset = SymbolOf(Descriptor).value
  BY <1>5, AddressOfLocation
<1>11. RuntimeOffset(d.segment) = segments[d.segment].vaddr /\ segments[d.segment].vaddr \in Nat
  BY <1>10, AddressOfSegment
<1>12. e.target = SymbolOf(Descriptor).value + PointerOffset + WordSize * (k - 1)
  <2>1. e.target = segments[d.segment].vaddr + (d.offset + PointerOffset + WordSize * (k - 1))
    BY <1>5, <1>8 DEF PlaceOf
  <2>2. PICK v, o, w : v = segments[d.segment].vaddr /\ o = d.offset /\ w = WordSize * (k - 1)
    OBVIOUS
  <2>3. w \in Int
    BY <1>1, <2>2 DEF WordSize
  <2>4. e.target = v + (o + PointerOffset + w) /\ SymbolOf(Descriptor).value = v + o
    BY <1>10, <1>11, <2>1, <2>2
  <2>5. v \in Int /\ o \in Int
    BY <1>10, <1>11, <2>2
  <2>6. QED
    BY <1>1, <2>2, <2>3, <2>4, <2>5
<1>13. \E x \in Entry(sections) : Inside(x, LabelValue(k))
  BY <1>2, <1>3, <1>4
<1>14. QED
  BY <1>1, <1>4, <1>7, <1>8, <1>9, <1>12, <1>13 DEF Dynamic

\* All that is shown is right.
LEMMA ShownFacts ==
    ASSUME NativeInv, packing = "packed", NEW only,
           NEW sections, sections = CodeSections(only),
           NEW listed, listed = NamedSymbols(sections) \cup Labels(sections)
    PROVE  ShownRight([sections |-> sections, symbols |-> listed])
<1>1. Packed
  BY DEF Packed
<1>2. \A x \in Entry(sections) : SectionFits(x) /\ x.start \in Nat /\ x.size \in Nat
  BY <1>1, SectionFacts
<1>3. ASSUME NEW s \in NamedSymbols(sections)
      PROVE  /\ \E l \in InSections(sections) : l.name = s.name
             /\ s.value = SymbolOf(s.name).value /\ s.value \in Nat
  <2>1. PICK l \in InSections(sections) :
           s = [name |-> l.name, value |-> RuntimeOffset(l.segment) + l.offset, size |-> l.size]
    BY DEF NamedSymbols
  <2>2. l \in eki.locations
    BY DEF InSections
  <2>3. /\ l.segment \in DOMAIN segments /\ l.offset \in Nat
        /\ RuntimeOffset(l.segment) + l.offset = SymbolOf(l.name).value
    BY <1>1, <2>2, AddressOfLocation
  <2>4. RuntimeOffset(l.segment) \in Nat
    BY <1>1, <2>3, AddressOfSegment
  <2>5. s.name = l.name /\ s.value = RuntimeOffset(l.segment) + l.offset
    BY <2>1
  <2>6. RuntimeOffset(l.segment) + l.offset \in Nat
    BY <2>3, <2>4
  <2>7. QED
    BY <2>3, <2>5, <2>6
<1>4. ASSUME NEW l \in InSections(sections)
      PROVE  \E s \in NamedSymbols(sections) : s.name = l.name
  <2>1. PICK s : s = [name |-> l.name, value |-> RuntimeOffset(l.segment) + l.offset, size |-> l.size]
    OBVIOUS
  <2>2. s \in NamedSymbols(sections) /\ s.name = l.name
    BY <2>1 DEF NamedSymbols
  <2>3. QED
    BY <2>2
<1> DEFINE known == {s.value : s \in NamedSymbols(sections)} \cup {LabelValue(k) : k \in Labelled(sections)}
<1>5. known \in SUBSET Nat
  <2>1. \A k \in Labelled(sections) : LabelValue(k) \in Nat
    BY <1>1, LabelIsPointer
  <2>2. QED
    BY <1>3, <2>1
<1>6. ASSUME NEW s \in Labels(sections)
      PROVE  \E k \in Labelled(sections) :
                /\ s.name = Lifecycle[k] /\ s.value = LabelValue(k)
                /\ s.size = LabelSize(LabelValue(k), known, sections)
                /\ \A t \in NamedSymbols(sections) : t.name # Lifecycle[k]
  <2>1. Labels(sections) = {[name |-> Lifecycle[k], value |-> LabelValue(k),
                             size |-> LabelSize(LabelValue(k), known, sections)] :
            k \in {k \in Labelled(sections) : \A t \in NamedSymbols(sections) : t.name # Lifecycle[k]}}
    BY DEF Labels
  <2> HIDE DEF known
  <2>2. QED
    BY <2>1
<1> HIDE DEF known
<1>7. ASSUME NEW t \in listed PROVE t.value \in known
  <2>1. CASE t \in NamedSymbols(sections)
    BY <2>1 DEF known
  <2>2. CASE t \in Labels(sections)
    BY <1>6, <2>2 DEF known
  <2>3. QED
    BY <2>1, <2>2
<1>8. ASSUME NEW s \in Labels(sections)
      PROVE  /\ ~\E l \in InSections(sections) : l.name = s.name
             /\ LabelFits(s, listed)
  <2>1. PICK k \in Labelled(sections) :
           /\ s.name = Lifecycle[k] /\ s.value = LabelValue(k)
           /\ s.size = LabelSize(LabelValue(k), known, sections)
           /\ \A t \in NamedSymbols(sections) : t.name # Lifecycle[k]
    BY <1>6
  <2>2. ~\E l \in InSections(sections) : l.name = s.name
    BY <1>4, <2>1
  <2>3. /\ k \in DOMAIN Lifecycle
        /\ LabelValue(k) \in Nat /\ \E x \in Entry(sections) : Inside(x, LabelValue(k))
        /\ \E e \in Dynamic("relative") :
              /\ LabelValue(k) = e.addend
              /\ e.target = SymbolOf(Descriptor).value + PointerOffset + WordSize * (k - 1)
    BY <1>1, LabelIsPointer
  <2>4. ASSUME NEW t \in listed, t.value > s.value PROVE s.value + s.size <= t.value
    <3>1. PICK value, u : value = LabelValue(k) /\ u = t.value
      OBVIOUS
    <3>2. value \in Nat /\ u \in known /\ u > value /\ \E x \in Entry(sections) : Inside(x, value)
      BY <1>7, <2>1, <2>3, <2>4, <3>1
    <3>3. value + LabelSize(value, known, sections) <= u
      BY <1>2, <1>5, <3>2, LabelSizeFacts
    <3>4. QED
      BY <2>1, <3>1, <3>3
  <2>5. QED
    BY <2>1, <2>2, <2>3, <2>4 DEF LabelFits
<1>9. ASSUME NEW s \in listed
      PROVE  IF \E l \in InSections(sections) : l.name = s.name
             THEN s.value = SymbolOf(s.name).value ELSE LabelFits(s, listed)
  <2>1. CASE s \in NamedSymbols(sections)
    BY <1>3, <2>1
  <2>2. CASE s \in Labels(sections)
    BY <1>8, <2>2
  <2>3. QED
    BY <2>1, <2>2
<1>10. PICK v : v = [sections |-> sections, symbols |-> listed]
  OBVIOUS
<1>11. v.sections = sections /\ v.symbols = listed
  BY <1>10
<1>12. ShownRight(v)
  BY <1>2, <1>9, <1>11 DEF ShownRight
<1>13. QED
  BY <1>10, <1>12

\* AddressesKept: the image has the places of the ELF file whatever their addresses
\* were, and objdump shows the code and its symbols where the file had them.
THEOREM AddressesKeptHolds == NativeSpec => []AddressesKept
<1> DEFINE Right == NativeInv /\ (packing = "shown" => ShownRight(view))
<1>1. NativeInit => Right
  <2> SUFFICES ASSUME NativeInit PROVE Right
    OBVIOUS
  <2>1. NativeInv /\ packing = "elf"
    BY DEF NativeInit, NativeInv, SegmentsInv, ImportsInv, RelocationsInv, CollectedInv, ImageIs,
       LaidOut, Parsed, Retained, Relocating, Collected, ShownTo
  <2>2. QED
    BY <2>1
<1>2. ASSUME NativeInv, NativeInv', packing = "shown" => ShownRight(view), [NativeNext]_nativeVars,
             packing' = "shown"
      PROVE  ShownRight(view)'
  <2>1. ASSUME UNCHANGED <<elf, eki>> PROVE ShownRight(view)' <=> ShownRight(view')
    BY <2>1 DEF ShownRight, SectionFits, LabelFits, InSections, Dynamic, SymbolOf, Named, Entry
  <2>2. CASE Show
    <3>1. packing = "packed" /\ UNCHANGED <<elf, eki>>
      BY <2>2 DEF Show
    <3>2. PICK only : view' = [sections |-> CodeSections(only),
                               symbols |-> NamedSymbols(CodeSections(only)) \cup Labels(CodeSections(only))]
      BY <1>2, <2>2 DEF Show, Proceed
    <3>3. ShownRight(view')
      BY <1>2, <3>1, <3>2, ShownFacts
    <3>4. QED
      BY <2>1, <3>1, <3>3
  <2>3. CASE UNCHANGED nativeVars
    <3>1. UNCHANGED <<elf, eki, view, packing>>
      BY <2>3 DEF nativeVars
    <3>2. ShownRight(view)
      BY <1>2, <3>1
    <3>3. QED
      BY <2>1, <3>1, <3>2
  <2>4. CASE ReadElf \/ CheckLayout \/ ReadMetadata \/ RetainLinked \/ CheckSymbols
             \/ RelocateRelative \/ RelocateImport \/ RefuseEntry \/ RelocateSlots \/ WriteImage
    BY <1>2, <2>4 DEF ReadElf, CheckLayout, ReadMetadata, RetainLinked, CheckSymbols, RelocateRelative,
       RelocateImport, RefuseEntry, RelocateSlots, WriteImage, Proceed, HasNext
  <2>5. QED
    BY <1>2, <2>2, <2>3, <2>4 DEF NativeNext
<1>3. Right => AddressesKept
  <2> SUFFICES ASSUME NativeInv, packing = "shown" => ShownRight(view) PROVE AddressesKept
    OBVIOUS
  <2>1. Packed => /\ \A l \in eki.locations : RuntimeOffset(l.segment) + l.offset = SymbolOf(l.name).value
                  /\ BaseKept /\ ImportsKept
    BY AddressOfLocation, PackedAddresses
  <2>2. \A s : LabelFits(s, view.symbols) <=> LabelRight(s)
    BY DEF LabelFits, LabelRight
  <2>3. packing = "shown" =>
          /\ \A x \in Entry(view.sections) : \E load \in Entry(elf.loads) :
                /\ load.flags = "rx" /\ x.start = load.vaddr
                /\ x.bytes = load.offset /\ x.size = load.file
          /\ \A s \in view.symbols :
                IF \E l \in InSections(view.sections) : l.name = s.name
                THEN s.value = SymbolOf(s.name).value ELSE LabelRight(s)
    BY <2>2 DEF ShownRight, SectionFits
  <2>4. QED
    BY <2>1, <2>3 DEF AddressesKept, BaseKept, ImportsKept
<1>4. Right /\ NativeInv' /\ [NativeNext]_nativeVars => Right'
  BY <1>2
<1>5. QED
  BY <1>1, <1>3, <1>4, NativeInductive, PTL DEF NativeSpec
=============================================================================
