----------------------------- MODULE WireTypes -----------------------------
(***************************************************************************)
(* The type graph of a language bridge, src/language_package.rs:           *)
(* validate_type_graph checks the types of LanguageBridge.toml one by one, *)
(* each against the layout of the types it names, wherever they stand in   *)
(* the file, and then walks the graph for cycles (visit_type).             *)
(*                                                                         *)
(* Names are numbers, in the order the map of types gives the strings of   *)
(* the file.  Versions, endianness, ownership, limits, variants and the    *)
(* spelling of names are left out.                                         *)
(***************************************************************************)
EXTENDS Integers, Sequences, FiniteSets

CONSTANTS
    Lists,     \* the lists of types that files declare, in file order
    MaxSize,   \* MAX_WIRE_SIZE
    Word       \* 2^32, the bound of the code's unsigned integers

Align == {1, 2, 4, 8, 16, 32, 64}

\* What parse_bridge reads: shape fields a kind does not have are empty.
Kind == {"integer", "boolean", "bytes", "array", "struct", "enum", "handle"}
TypeDef == [name : Nat, kind : Kind, size : Nat, align : Nat, ref : Nat,
            length : Nat, stride : Nat, fields : Seq([type : Nat, offset : Nat])]

ASSUME TypesAssumption ==
    Word \in Nat /\ MaxSize \in Nat /\ Lists \subseteq Seq(TypeDef)

VARIABLES
    types,     \* the list being validated
    at,        \* the type validate_type_graph is at
    names,     \* the names met so far
    stack,     \* the calls of visit_type: the type and the child it goes to next
    visited,   \* the types visit_type has finished, in that order
    judgement    \* "checking", "walking", "accepted", "refused", "cycle" or "panic"

typesVars == <<types, at, names, stack, visited, judgement>>

TypesIn(s) == {s[i] : i \in DOMAIN s}

-----------------------------------------------------------------------------
(* The layout of one type. *)

Names == {types[i].name : i \in DOMAIN types}

\* types.iter().find: the first type of the name.
TypeOf(n) == types[CHOOSE i \in DOMAIN types :
                      types[i].name = n /\ \A j \in 1 .. (i - 1) : types[j].name # n]

\* The types whose codecs the codec of t calls.
Children(t) == CASE t.kind = "array"  -> <<t.ref>>
                 [] t.kind = "struct" -> [k \in DOMAIN t.fields |-> t.fields[k].type]
                 [] OTHER             -> <<>>

\* Where the part of a struct before the k-th field ends.
EndBefore(t, k) == IF k = 1 THEN 0 ELSE t.fields[k - 1].offset + TypeOf(t.fields[k - 1].type).size

\* validate_type_graph, before the match on the kind.
BasicsOK(t) == t.name \notin names /\ t.size \in 1 .. MaxSize /\ t.align \in Align

\* Mutant: the product of length and stride wraps around.
ArrayFitsWrapped(t) ==
    /\ t.length # 0 /\ t.stride >= TypeOf(t.ref).size
    /\ t.stride % TypeOf(t.ref).align = 0
    /\ (t.length * t.stride) % Word = t.size
    /\ t.align = TypeOf(t.ref).align

ArrayFits(t) ==
    /\ t.length # 0 /\ t.stride >= TypeOf(t.ref).size
    /\ t.stride % TypeOf(t.ref).align = 0
    /\ t.length * t.stride < Word /\ t.length * t.stride = t.size
    /\ t.align = TypeOf(t.ref).align

\* The checks of one field, in the order of the fields.
FieldFits(t, k) ==
    LET part == TypeOf(t.fields[k].type) IN
    /\ t.fields[k].offset >= EndBefore(t, k)
    /\ t.fields[k].offset % part.align = 0
    /\ t.fields[k].offset + part.size < Word
    /\ t.fields[k].offset + part.size <= t.size

StructFits(t) ==
    LET aligns == {1} \cup {TypeOf(n).align : n \in TypesIn(Children(t))} IN
    /\ t.fields # <<>>
    /\ \A k \in DOMAIN t.fields : FieldFits(t, k)
    /\ t.align = CHOOSE a \in aligns : \A b \in aligns : b <= a
    /\ t.size % t.align = 0

\* require_layout and validate_integer_type, validate_array_type,
\* validate_struct_type and validate_enum_type.
LayoutFits(t) ==
    CASE t.kind = "integer" -> t.size \in {1, 2, 4, 8} /\ t.align = t.size
      [] t.kind = "boolean" -> t.size = 1 /\ t.align = 1
      [] t.kind = "handle"  -> t.size = 8 /\ t.align = 8
      [] t.kind = "bytes"   -> t.align = 1 /\ t.length = t.size
      [] t.kind = "array"   -> ArrayFits(t)
      [] t.kind = "struct"  -> StructFits(t)
      [] t.kind = "enum"    -> LET repr == TypeOf(t.ref) IN
                                  repr.kind = "integer" /\ repr.size = t.size /\ repr.align = t.align

NamesKnown(t) == TypesIn(Children(t)) \subseteq Names /\ (t.kind = "enum" => t.ref \in Names)

\* A remainder by the alignment of a part that has not been checked yet: the
\* checks before it in validate_array_type and validate_struct_type succeed.
DividesByZero(t) ==
    \/ /\ t.kind = "array" /\ t.ref \in Names
       /\ TypeOf(t.ref).align = 0
       /\ t.length # 0 /\ t.stride >= TypeOf(t.ref).size
    \/ /\ t.kind = "struct"
       /\ \E k \in DOMAIN t.fields :
             /\ \A i \in 1 .. k : t.fields[i].type \in Names
             /\ \A i \in 1 .. (k - 1) : TypeOf(t.fields[i].type).align # 0 /\ FieldFits(t, i)
             /\ TypeOf(t.fields[k].type).align = 0 /\ t.fields[k].offset >= EndBefore(t, k)

-----------------------------------------------------------------------------
(* validate_type_graph. *)

\* One type is in order.
CheckType ==
    /\ judgement = "checking" /\ at <= Len(types)
    /\ LET t == types[at] IN
          /\ BasicsOK(t) /\ ~DividesByZero(t) /\ NamesKnown(t) /\ LayoutFits(t)
          /\ names' = names \cup {t.name}
    /\ at' = at + 1
    /\ UNCHANGED <<types, stack, visited, judgement>>

\* One type is not, and the file is refused.
RefuseType ==
    /\ judgement = "checking" /\ at <= Len(types)
    /\ LET t == types[at] IN
          \/ ~BasicsOK(t)
          \/ ~DividesByZero(t) /\ ~(NamesKnown(t) /\ LayoutFits(t))
    /\ judgement' = "refused"
    /\ UNCHANGED <<types, at, names, stack, visited>>

\* The alignment of a part is zero and has not been looked at yet.
Panic ==
    /\ judgement = "checking" /\ at <= Len(types)
    /\ BasicsOK(types[at]) /\ DividesByZero(types[at])
    /\ judgement' = "panic"
    /\ UNCHANGED <<types, at, names, stack, visited>>

\* All types are in order, and there is one.
StartWalk ==
    /\ judgement = "checking" /\ at > Len(types)
    /\ judgement' = IF types = <<>> THEN "refused" ELSE "walking"
    /\ UNCHANGED <<types, at, names, stack, visited>>

\* visit_type of the next name of the map that has not been visited.
VisitRoot ==
    /\ judgement = "walking" /\ stack = <<>>
    /\ \E n \in names \ TypesIn(visited) :
          /\ \A other \in names \ TypesIn(visited) : n <= other
          /\ stack' = <<[type |-> n, next |-> 1]>>
    /\ UNCHANGED <<types, at, names, visited, judgement>>

Top == stack[Len(stack)]
NextChild == Children(TypeOf(Top.type))[Top.next]
OnStack == {stack[i].type : i \in DOMAIN stack}
AtChild == /\ judgement = "walking" /\ stack # <<>>
           /\ Top.next <= Len(Children(TypeOf(Top.type)))

\* The child has been visited: on to the one after it.
SkipVisited ==
    /\ AtChild /\ NextChild \in TypesIn(visited)
    /\ stack' = [stack EXCEPT ![Len(stack)].next = Top.next + 1]
    /\ UNCHANGED <<types, at, names, visited, judgement>>

\* Mutant: a child that is being visited counts as visited.
VisitChildAnyway ==
    /\ AtChild /\ NextChild \notin TypesIn(visited)
    /\ stack' = IF NextChild \in OnStack
                THEN [stack EXCEPT ![Len(stack)].next = Top.next + 1]
                ELSE Append([stack EXCEPT ![Len(stack)].next = Top.next + 1],
                            [type |-> NextChild, next |-> 1])
    /\ UNCHANGED <<types, at, names, visited, judgement>>

\* visit_type calls itself for the child.
VisitChild ==
    /\ AtChild /\ NextChild \notin TypesIn(visited) \cup OnStack
    /\ stack' = Append([stack EXCEPT ![Len(stack)].next = Top.next + 1],
                       [type |-> NextChild, next |-> 1])
    /\ UNCHANGED <<types, at, names, visited, judgement>>

\* Mutant: types stay in visiting, and it is looked at before visited.
MeetCycleTooEarly ==
    /\ AtChild /\ NextChild \in OnStack \cup TypesIn(visited)
    /\ judgement' = "cycle"
    /\ UNCHANGED <<types, at, names, stack, visited>>

\* The child is being visited.
MeetCycle ==
    /\ AtChild /\ NextChild \in OnStack
    /\ judgement' = "cycle"
    /\ UNCHANGED <<types, at, names, stack, visited>>

\* visit_type returns: the type is no longer being visited, but visited.
Return ==
    /\ judgement = "walking" /\ stack # <<>>
    /\ Top.next > Len(Children(TypeOf(Top.type)))
    /\ visited' = Append(visited, Top.type)
    /\ stack' = SubSeq(stack, 1, Len(stack) - 1)
    /\ UNCHANGED <<types, at, names, judgement>>

Accept ==
    /\ judgement = "walking" /\ stack = <<>> /\ names \subseteq TypesIn(visited)
    /\ judgement' = "accepted"
    /\ UNCHANGED <<types, at, names, stack, visited>>

TypesInit ==
    /\ types \in Lists
    /\ at = 1 /\ names = {} /\ stack = <<>> /\ visited = <<>> /\ judgement = "checking"

Check == CheckType \/ RefuseType \/ Panic \/ StartWalk
Walk == VisitRoot \/ SkipVisited \/ VisitChild \/ MeetCycle \/ Return \/ Accept
TypesNext == Check \/ Walk

TypesSpec == TypesInit /\ [][TypesNext]_typesVars

-----------------------------------------------------------------------------
(* Properties. *)

Done == {"accepted", "refused", "cycle", "panic"}

GraphTypeOK ==
    /\ types \in Seq(TypeDef) /\ at \in 1 .. (Len(types) + 1)
    /\ names = {types[i].name : i \in 1 .. (at - 1)}
    /\ stack \in Seq([type : names, next : Nat \ {0}])
    /\ visited \in Seq(names)
    /\ judgement \in {"checking", "walking"} \cup Done

\* Each of the types S has a part that is one of S: a layout of S has no end.
Endless(S) == \A n \in S : TypesIn(Children(TypeOf(n))) \cap S # {}

\* validate_type_graph: in an accepted graph no types contain one another, so
\* the recursive fingerprints and codecs end.  Layout checks alone admit a
\* struct that is its own only field.
AcceptedEnds ==
    judgement = "accepted" => \A S \in SUBSET Names : S # {} => ~Endless(S)

\* visit_type refuses a graph only for types that really contain one another.
RecursionIsReal ==
    judgement = "cycle" => \E S \in SUBSET Names : S # {} /\ Endless(S)

\* validate_type_graph and visit_type: types are refused as recursive just when
\* some of them contain one another.
CyclesFound == AcceptedEnds /\ RecursionIsReal
=============================================================================
