----------------------------- MODULE WireCodecs -----------------------------
(***************************************************************************)
(* The codecs that generate_rust_sdk makes of an accepted type graph,      *)
(* render_type_validator of src/language_package.rs: each decodes its      *)
(* parts at fixed offsets and compares the padding between them with zero. *)
(* A codec goes over its bytes from the front.  A span is one step of it.  *)
(***************************************************************************)
EXTENDS WireTypes, SequencesExt

\* The bytes a step takes and the alignment of the scalar it decodes, which is
\* 0 for padding: bytes that have to be zero.
Span(from, to, part) == [from |-> from, to |-> to, part |-> part]
Padding(from, to) == IF from < to THEN <<Span(from, to, 0)>> ELSE <<>>

\* The spans of a codec called at an offset.
Shift(spans, by) == [i \in DOMAIN spans |-> Span(spans[i].from + by, spans[i].to + by, spans[i].part)]

\* The element at index k - 1 and what its stride leaves over.
ElementSpans(t, spans, k) ==
    LET start == (k - 1) * t.stride  end == start + TypeOf(t.ref).size
    IN  Shift(spans[t.ref], start) \o Padding(end, start + t.stride)

\* The padding before the k-th field, and the field.
FieldSpans(t, spans, k) ==
    Padding(EndBefore(t, k), t.fields[k].offset) \o Shift(spans[t.fields[k].type], t.fields[k].offset)

\* spans[n]: the spans of the codec of n, where those of its children are known.
SpansOf(t, spans) ==
    CASE t.kind = "array"  -> FlattenSeq([k \in 1 .. t.length |-> ElementSpans(t, spans, k)])
      [] t.kind = "struct" -> FlattenSeq([k \in DOMAIN t.fields |-> FieldSpans(t, spans, k)])
                              \o Padding(EndBefore(t, Len(t.fields) + 1), t.size)
      [] OTHER             -> <<Span(0, t.size, t.align)>>

\* The spans of every codec, children before parents.
Spans ==
    LET upTo[i \in 0 .. Len(visited)] ==
          IF i = 0 THEN [n \in Names |-> <<>>]
          ELSE [upTo[i - 1] EXCEPT ![visited[i]] = SpansOf(TypeOf(visited[i]), upTo[i - 1])]
    IN  upTo[Len(visited)]

\* LANGUAGE-PACKAGE.md on struct, array and padding: the codec of an accepted
\* type reads every byte of it exactly once, as a scalar at a multiple of its
\* alignment or as padding that has to be zero.
EveryByteOnce ==
    judgement = "accepted" =>
        \A n \in Names :
            LET spans == Spans[n] IN
            /\ spans # <<>> /\ spans[1].from = 0 /\ spans[Len(spans)].to = TypeOf(n).size
            /\ \A i \in 1 .. (Len(spans) - 1) : spans[i].to = spans[i + 1].from
            /\ \A i \in DOMAIN spans :
                  spans[i].from < spans[i].to
                  /\ (spans[i].part # 0 => spans[i].from % spans[i].part = 0)
=============================================================================
