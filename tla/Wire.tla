-------------------------------- MODULE Wire --------------------------------
(***************************************************************************)
(* The wire format between the k3c client and the daemon: the generated    *)
(* code of pkg/remote/apis/k3c/v1alpha1/api.pb.go.                         *)
(*                                                                         *)
(* The generator writes Size, MarshalToSizedBuffer and Unmarshal once per  *)
(* message, always the same code around a different list of fields.  Here  *)
(* the three functions are written once, over a schema.                    *)
(***************************************************************************)
EXTENDS Schema

-----------------------------------------------------------------------------
(* Numbers.                                                                *)

\* uint64(v) of a signed v.
Unsigned(v) == IF v < 0 THEN v + 2 ^ WordBits ELSE v

\* math_bits.Len64 of x|1, and the bytes of a varint.
Len64(x) == CHOOSE n \in 1 .. WordBits : 2 ^ (n - 1) <= x /\ x < 2 ^ n
sovApi(x) == (Len64(IF x = 0 THEN 1 ELSE x) + 6) \div 7

\* The bytes that encodeVarintApi puts at offset - sovApi(v).
encodeVarintApi(v) ==
    [k \in 1 .. sovApi(v) |->
        LET rest == v \div 128 ^ (k - 1) IN
        IF rest >= 128 THEN 128 + (rest % 128) ELSE rest]

Fail(i) == [v |-> 0, i |-> i, err |-> TRUE]

\* The loop "for shift := uint(0); ; shift += 7" on the bytes d at index i
\* (from 0): the value, the index after it and whether it failed.
RECURSIVE Uvarint(_, _, _, _)
Uvarint(d, i, shift, acc) ==
    IF shift >= WordBits \/ i >= Len(d)
    THEN Fail(i)
    ELSE LET b == d[i + 1]
             v == acc + ((b % 128) % 2 ^ (WordBits - shift)) * 2 ^ shift
         IN  IF b < 128 THEN [v |-> v, i |-> i + 1, err |-> FALSE]
                        ELSE Uvarint(d, i + 1, shift + 7, v)
ReadVarint(d, i) == Uvarint(d, i, 0, 0)

\* A length and the bytes it announces: v is the bytes, i the index after them.
ReadBytes(d, i) ==
    LET n == ReadVarint(d, i)
        len == Signed(n.v, WordBits)
    IN  IF n.err \/ len < 0 \/ n.i + len > Len(d)
        THEN Fail(i)
        ELSE [v |-> SubSeq(d, n.i + 1, n.i + len), i |-> n.i + len, err |-> FALSE]

-----------------------------------------------------------------------------
(* Encoding.                                                               *)

WireType(kind) == IF kind \in VarintKinds THEN 0 ELSE 2

\* The word a varint field is written as.
Word(kind, v) == IF kind = "bool" THEN (IF v THEN 1 ELSE 0) ELSE Unsigned(v)

\* The tag bytes the generator writes as literals (0x12; 0xb2 0x1), and the
\* number of them it counts in Size.
Tag(field) == encodeVarintApi(field.num * 8 + WireType(field.kind))
TagSize(field) == IF field.num < 16 THEN 1 ELSE 2

Delimited(bytes) == encodeVarintApi(Len(bytes)) \o bytes
DelimitedSize(n) == n + sovApi(n)

EntryKey == F(1, "string")
EntryValue == F(2, "string")
SumSeq(s) == FoldLeft(LAMBDA a, b : a + b, 0, s)

RECURSIVE Size(_, _)

\* What Size adds for one element of a field.
ElementSize(field, v) ==
    TagSize(field) +
      CASE field.kind \in VarintKinds -> sovApi(Word(field.kind, v))
        [] field.kind \in {"message", "messages"} -> DelimitedSize(Size(field.of, v))
        [] OTHER -> DelimitedSize(Len(v))
EntrySize(field, k, v) ==
    TagSize(field) + DelimitedSize(ElementSize(EntryKey, k) + ElementSize(EntryValue, v))

\* The elements a field writes: none for a zero value, one for a scalar or a
\* pointer, all of a repeated field.
Written(field, v) ==
    CASE v = ZeroOf(field.kind) -> <<>>
      [] field.kind \in RepeatedKinds \cup {"message", "extern"} -> v
      [] OTHER -> <<v>>

FieldSize(field, v) ==
    IF field.kind = "map"
    THEN SumSeq([k \in 1 .. Cardinality(DOMAIN v) |->
                    LET key == SetToSeq(DOMAIN v)[k] IN EntrySize(field, key, v[key])])
    ELSE LET e == Written(field, v) IN SumSeq([k \in DOMAIN e |-> ElementSize(field, e[k])])

\* The names of the fields in the order of their numbers.
LastField == 22
Numbered(schema, n) == {f \in DOMAIN schema : schema[f].num = n}
InOrderOf(schema) ==
    LET nums == SelectSeq([n \in 1 .. LastField |-> n], LAMBDA n : Numbered(schema, n) # {})
    IN  [k \in DOMAIN nums |-> CHOOSE f \in Numbered(schema, nums[k]) : TRUE]

Size(schema, m) ==
    LET names == InOrderOf(schema)
    IN  SumSeq([k \in DOMAIN names |-> FieldSize(schema[names[k]], m[names[k]])])

RECURSIVE MarshalToSizedBuffer(_, _, _)

MarshalElement(field, v, down) ==
    Tag(field) \o
      CASE field.kind \in VarintKinds -> encodeVarintApi(Word(field.kind, v))
        [] field.kind \in {"message", "messages"} ->
             Delimited(MarshalToSizedBuffer(field.of, v, down))
        [] OTHER -> Delimited(v)

\* Maps are written in the order of Go's range, which is any: down is TRUE
\* for one order of the keys and FALSE for the reverse.
MarshalMap(field, v, down) ==
    LET keys == SetToSeq(DOMAIN v)
        entry(k) == Tag(field) \o Delimited(MarshalElement(EntryKey, k, down)
                                              \o MarshalElement(EntryValue, v[k], down))
    IN  FlattenSeq([n \in DOMAIN keys |-> entry(IF down THEN keys[n] ELSE Reverse(keys)[n])])

\* The generated code writes the fields from the last to the first, towards
\* the front of the buffer: in memory they are in the order of their numbers.
MarshalToSizedBuffer(schema, m, down) ==
    LET names == InOrderOf(schema)
        bytes(f) ==
            IF schema[f].kind = "map"
            THEN MarshalMap(schema[f], m[f], down)
            ELSE LET e == Written(schema[f], m[f])
                 IN  FlattenSeq([k \in DOMAIN e |-> MarshalElement(schema[f], e[k], down)])
    IN  FlattenSeq([k \in DOMAIN names |-> bytes(names[k])])

\* Marshal allocates Size() bytes, has the message written at their end and
\* returns the first n of them: a Size that is too large yields zeroes and
\* loses the end.
Marshal(schema, m, down) ==
    LET body == MarshalToSizedBuffer(schema, m, down)
        gap == Size(schema, m) - Len(body)
    IN  [k \in 1 .. Len(body) |-> IF k <= gap THEN 0 ELSE body[k - gap]]

-----------------------------------------------------------------------------
(* Decoding.                                                               *)

\* skipApi from index i: the index after the field there, nested groups
\* included.  It may lie beyond the end: the callers look.
RECURSIVE skipApi(_, _, _)
skipApi(d, i, depth) ==
    LET tag == ReadVarint(d, i)
        wireType == tag.v % 8
        num == ReadVarint(d, tag.i)
        len == Signed(num.v, WordBits)
        after == CASE wireType = 0 -> num.i
                   [] wireType = 1 -> tag.i + 8
                   [] wireType = 2 -> num.i + len
                   [] wireType = 5 -> tag.i + 4
                   [] OTHER -> tag.i
        nesting == CASE wireType = 3 -> depth + 1
                     [] wireType = 4 -> depth - 1
                     [] OTHER -> depth
    IN  IF \/ i >= Len(d)
           \/ tag.err
           \/ wireType \in {0, 2} /\ num.err
           \/ wireType = 2 /\ len < 0
           \/ wireType = 4 /\ depth = 0
           \/ wireType \in {6, 7}
        THEN Fail(i)
        ELSE IF nesting = 0
             THEN [v |-> 0, i |-> after, err |-> FALSE]
             ELSE skipApi(d, after, nesting)

\* The loop over one entry of a map, up to the index post.
RECURSIVE Entry(_, _, _, _)
Entry(d, i, post, kv) ==
    LET tag == ReadVarint(d, i)
        fieldNum == Signed(tag.v \div 8, Int32Bits)
        err(b) == [kv |-> kv, err |-> b]
        go(r, set) == IF r.err \/ (r.i > post /\ set = {}) THEN err(TRUE)
                      ELSE Entry(d, r.i, post, [n \in {1, 2} |-> IF n \in set THEN r.v ELSE kv[n]])
    IN  IF i >= post THEN err(FALSE)
        ELSE IF tag.err THEN err(TRUE)
        ELSE IF fieldNum \in {1, 2} THEN go(ReadBytes(d, tag.i), {fieldNum})
        ELSE go(skipApi(d, i, 0), {})

RECURSIVE Unmarshal(_, _, _, _)

\* Mutant: int64 fields are read as the word they were written as.
VarintFieldUnsigned(field, d, i) ==
    LET n == ReadVarint(d, i) IN
    [n EXCEPT !.v = CASE field.kind = "bool" -> n.v # 0
                      [] field.kind = "uint32" -> n.v % 2 ^ Int32Bits
                      [] field.kind = "enum" -> Signed(n.v, Int32Bits)
                      [] OTHER -> n.v]

\* A field of the schema with wire type 0: "m.F |= T(b&0x7F) << shift".
VarintField(field, d, i) ==
    LET n == ReadVarint(d, i) IN
    [n EXCEPT !.v = CASE field.kind = "bool" -> n.v # 0
                      [] field.kind = "int64" -> Signed(n.v, WordBits)
                      [] field.kind = "uint32" -> n.v % 2 ^ Int32Bits
                      [] field.kind = "enum" -> Signed(n.v, Int32Bits)
                      [] OTHER -> n.v]

\* A field with wire type 2 whose value was old: a scalar is replaced, a
\* repeated field grows, the message behind a pointer is merged into, an
\* entry of a map is set.
BytesField(field, old, d, i) ==
    LET bytes == ReadBytes(d, i)
        start == IF field.kind = "message" /\ old # <<>> THEN old[1] ELSE Zero(field.of)
        put(v) == [bytes EXCEPT !.v = v]
        message(inner) ==
            IF inner.err THEN Fail(i)
            ELSE put(IF field.kind = "message" THEN <<inner.m>> ELSE Append(old, inner.m))
        entry(e) ==
            IF e.err THEN Fail(i)
            ELSE put([k \in DOMAIN old \cup {e.kv[1]} |->
                         IF k = e.kv[1] THEN e.kv[2] ELSE old[k]])
    IN  IF bytes.err THEN bytes
        ELSE CASE field.kind \in {"string", "bytes"} -> bytes
               [] field.kind \in {"strings", "externs"} -> put(Append(old, bytes.v))
               [] field.kind = "extern" -> put(<<FlattenSeq(old) \o bytes.v>>)
               [] field.kind \in {"message", "messages"} ->
                    message(Unmarshal(field.of, start, bytes.v, 0))
               [] field.kind = "map" ->
                    entry(Entry(d, ReadVarint(d, i).i, bytes.i, <<<<>>, <<>>>>))

\* One iteration of "for iNdEx < l": the message after the field at index i.
UnmarshalField(schema, m, d, i) ==
    LET tag == ReadVarint(d, i)
        wireType == tag.v % 8
        fieldNum == Signed(tag.v \div 8, Int32Bits)
        error == [m |-> m, i |-> i, err |-> TRUE]
        set(name, value) ==
            IF value.err THEN error
            ELSE [m |-> [m EXCEPT ![name] = value.v], i |-> value.i, err |-> FALSE]
        read(name) ==
            IF wireType # WireType(schema[name].kind) THEN error
            ELSE set(name, IF wireType = 0 THEN VarintField(schema[name], d, tag.i)
                                           ELSE BytesField(schema[name], m[name], d, tag.i))
        skip(to) == IF to.err \/ to.i > Len(d) THEN error
                    ELSE [m |-> m, i |-> to.i, err |-> FALSE]
    IN  IF tag.err \/ wireType = 4 \/ fieldNum <= 0 THEN error
        ELSE IF Numbered(schema, fieldNum) = {} THEN skip(skipApi(d, i, 0))
        ELSE read(CHOOSE f \in Numbered(schema, fieldNum) : TRUE)

Unmarshal(schema, m, d, i) ==
    LET go(r) == IF r.err THEN [m |-> m, err |-> TRUE] ELSE Unmarshal(schema, r.m, d, r.i)
    IN  IF i >= Len(d) THEN [m |-> m, err |-> FALSE] ELSE go(UnmarshalField(schema, m, d, i))
=============================================================================
