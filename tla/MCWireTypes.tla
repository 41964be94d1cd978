---------------------------- MODULE MCWireTypes ----------------------------
(* Two integers, the type under test and one that may be built of it.       *)
(* Types name types before and after themselves.  Words are 16, so that     *)
(* offsets and products can overflow; a wire type has up to eight bytes.    *)
EXTENDS WireCodecs

Plain(name, kind, size, align) ==
    [name |-> name, kind |-> kind, size |-> size, align |-> align, ref |-> 0,
     length |-> 0, stride |-> 0, fields |-> <<>>]
Array(name, size, align, ref, length, stride) ==
    [Plain(name, "array", size, align) EXCEPT !.ref = ref, !.length = length, !.stride = stride]
Struct(name, size, align, fields) == [Plain(name, "struct", size, align) EXCEPT !.fields = fields]
Enum(name, size, align, ref) == [Plain(name, "enum", size, align) EXCEPT !.ref = ref]
Bytes(name, size, align) == [Plain(name, "bytes", size, align) EXCEPT !.length = size]
Field(type, offset) == [type |-> type, offset |-> offset]

U8 == Plain(1, "integer", 1, 1)
U16 == Plain(2, "integer", 2, 2)

Refs == {1, 2, 4}
Fields == {Field(type, offset) : type \in Refs, offset \in {0, 1, 2, 3, 15}} \cup {Field(9, 0)}

\* The type under test: any array, any struct of up to two fields.
Tested ==
    {Array(3, size, align, ref, length, stride) :
        size \in {1, 2, 4, 6}, align \in {1, 2}, ref \in Refs, length \in {0, 1, 2, 6}, stride \in 0 .. 3}
    \cup {Struct(3, size, align, fields) :
        size \in 2 .. 6, align \in {1, 2}, fields \in {<<>>} \cup {<<f>> : f \in Fields} \cup (Fields \X Fields)}

\* The type after it: nothing wrong with it, or what a file may get wrong.
Fourth == {Bytes(4, 3, 1), Enum(4, 2, 2, 2), Enum(4, 2, 2, 1), Bytes(4, 2, 0),
           Bytes(3, 2, 1), Array(4, 4, 2, 3, 2, 2),
           Struct(4, 4, 2, <<Field(3, 0), Field(3, 2)>>), Struct(4, 2, 1, <<Field(3, 0)>>),
           Struct(4, 2, 2, <<Field(4, 0)>>), Plain(4, "integer", 6, 2),
           Plain(4, "boolean", 1, 1), Plain(4, "handle", 8, 8), Struct(4, 8, 4, <<Field(3, 4)>>)}

MCLists == {<<>>} \cup {<<U8, t, f, U16>> : t \in Tested, f \in Fourth}
=============================================================================
