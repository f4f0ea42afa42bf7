------------------------------- MODULE MsgPack -------------------------------
(***************************************************************************)
(* The serializer of RPC and Lua arguments (src/msgpack): Packer writes a  *)
(* typed C++ value or a Lua value as bytes, Unpacker reads bytes as values *)
(* of the types its caller asks for, or as Lua values.                     *)
(*                                                                         *)
(* An integer is the word of its 8 bytes, high byte first, in two's        *)
(* complement, so every width keeps its boundaries.  A double (float) is   *)
(* <<"whole", word>> when it equals an int64 (int32), else <<"frac", its 8 *)
(* (4) bytes>>.  A C++ type is a tuple:                                    *)
(*   <<"int", bytes>>, <<"uint", bytes>>, <<"float">>, <<"double">>,       *)
(*   <<"bool">>, <<"nil">>, <<"string">>, <<"bin">>, <<"vector", t>>,      *)
(*   <<"map", kt, vt>> (a value is the sequence of its pairs, in order).   *)
(* A Lua value is its type and its content.                                *)
(***************************************************************************)
EXTENDS Integers, Sequences, SequencesExt

Low(w, n) == SubSeq(w, 9 - n, 8)

Fill(n, b)   == [i \in 1 .. n |-> b]
ZeroFill(bs) == Fill(8 - Len(bs), 0) \o bs
SignFill(bs) == Fill(8 - Len(bs), IF bs[1] >= 128 THEN 255 ELSE 0) \o bs

FitsSigned(w, n)   == w = SignFill(Low(w, n))
FitsUnsigned(w, n) == w = ZeroFill(Low(w, n))

\* The n bytes of a size below 2^31.
SizeBytes(s, n) == [i \in 1 .. n |-> IF n - i > 3 THEN 0 ELSE (s \div (256 ^ (n - i))) % 256]

\* format_t, whose table is an addition to MessagePack: its byte is also the
\* one of the negative fixint -32.
F == [nil |-> 192, false |-> 194, true |-> 195, bin8 |-> 196, bin16 |-> 197, bin32 |-> 198,
      float32 |-> 202, float64 |-> 203, uint8 |-> 204, uint16 |-> 205, uint32 |-> 206, uint64 |-> 207,
      int8 |-> 208, int16 |-> 209, int32 |-> 210, int64 |-> 211, str8 |-> 217, str16 |-> 218, str32 |-> 219,
      array16 |-> 220, array32 |-> 221, map16 |-> 222, map32 |-> 223, table |-> 224]

----------------------------------------------------------------------------
(* Packer.                                                                 *)

\* One byte from -32 to 127.
pack_int8(w) == IF w[8] \in 128 .. 223 THEN <<F.int8, w[8]>> ELSE <<w[8]>>

pack_int16(w) == IF FitsSigned(w, 1) THEN pack_int8(w)  ELSE <<F.int16>> \o Low(w, 2)
pack_int32(w) == IF FitsSigned(w, 2) THEN pack_int16(w) ELSE <<F.int32>> \o Low(w, 4)
pack_int64(w) == IF FitsSigned(w, 4) THEN pack_int32(w) ELSE <<F.int64>> \o w

pack_uint8(w)  == IF w[8] <= 127 THEN <<w[8]>> ELSE <<F.uint8, w[8]>>
pack_uint16(w) == IF FitsUnsigned(w, 1) THEN pack_uint8(w)  ELSE <<F.uint16>> \o Low(w, 2)
pack_uint32(w) == IF FitsUnsigned(w, 2) THEN pack_uint16(w) ELSE <<F.uint32>> \o Low(w, 4)
pack_uint64(w) == IF FitsUnsigned(w, 4) THEN pack_uint32(w) ELSE <<F.uint64>> \o w

pack_float(x)  == IF x[1] = "whole" THEN pack_int32(x[2]) ELSE <<F.float32>> \o x[2]
pack_double(x) == IF x[1] = "whole" THEN pack_int64(x[2]) ELSE <<F.float64>> \o x[2]
pack_nil       == <<F.nil>>
pack_bool(b)   == IF b THEN <<F.true>> ELSE <<F.false>>

pack_string(s) ==
    LET n == Len(s) IN
    (CASE n <= 31    -> <<160 + n>>
       [] n \in 32 .. 255 -> <<F.str8, n>>
       [] n \in 256 .. 65535 -> <<F.str16>> \o SizeBytes(n, 2)
       [] OTHER      -> <<F.str32>> \o SizeBytes(n, 4)) \o s

pack_bin(s) ==
    LET n == Len(s) IN
    (CASE n < 255    -> <<F.bin8, n>>
       [] n \in 255 .. 65534 -> <<F.bin16>> \o SizeBytes(n, 2)
       [] OTHER      -> <<F.bin32>> \o SizeBytes(n, 4)) \o s

\* The head of an array and of a map of n items.
pack_array(n) ==
    CASE n <= 15            -> <<144 + n>>
      [] n \in 16 .. 65535 -> <<F.array16>> \o SizeBytes(n, 2)
      [] OTHER              -> <<F.array32>> \o SizeBytes(n, 4)
pack_map(n) ==
    CASE n <= 15            -> <<128 + n>>
      [] n \in 16 .. 65535 -> <<F.map16>> \o SizeBytes(n, 2)
      [] OTHER              -> <<F.map32>> \o SizeBytes(n, 4)

\* Mutant: keys and values are counted.
pack_table_Both(n) == <<F.table>> \o SizeBytes(2 * n, 4)

\* The count is patched in once the pairs are written.
pack_table(n) == <<F.table>> \o SizeBytes(n, 4)

RECURSIVE pack_type(_, _)
pack_type(t, v) ==
    CASE t = <<"int", 1>>  -> pack_int8(v)   [] t = <<"int", 2>>  -> pack_int16(v)
      [] t = <<"int", 4>>  -> pack_int32(v)  [] t = <<"int", 8>>  -> pack_int64(v)
      [] t = <<"uint", 1>> -> pack_uint8(v)  [] t = <<"uint", 2>> -> pack_uint16(v)
      [] t = <<"uint", 4>> -> pack_uint32(v) [] t = <<"uint", 8>> -> pack_uint64(v)
      [] t[1] = "float"    -> pack_float(v)
      [] t[1] = "double"   -> pack_double(v)
      [] t[1] = "nil"      -> pack_nil
      [] t[1] = "bool"     -> pack_bool(v)
      [] t[1] = "string"   -> pack_string(v)
      [] t[1] = "bin"      -> pack_bin(v)
      [] t[1] = "vector"   -> pack_array(Len(v)) \o FlattenSeq([i \in DOMAIN v |-> pack_type(t[2], v[i])])
      [] t[1] = "map"      -> pack_map(Len(v)) \o FlattenSeq([i \in DOMAIN v |->
                                                pack_type(t[2], v[i][1]) \o pack_type(t[3], v[i][2])])

RECURSIVE pack_stack_proxy(_)
pack_stack_proxy(x) ==
    CASE x[1] = "nil"     -> pack_nil
      [] x[1] = "integer" -> pack_int64(x[2])
      [] x[1] = "number"  -> pack_double(x[2])
      [] x[1] = "string"  -> pack_string(x[2])
      [] x[1] = "boolean" -> pack_bool(x[2])
      [] x[1] = "table"   -> pack_table(Len(x[2])) \o FlattenSeq([i \in DOMAIN x[2] |->
                                pack_stack_proxy(x[2][i][1]) \o pack_stack_proxy(x[2][i][2])])
      [] OTHER            -> <<>>

\* pack(args...): the arguments one after the other, of C++ and of Lua.
pack(ts, vs)   == FlattenSeq([i \in DOMAIN vs |-> pack_type(ts[i], vs[i])])
pack_args(xs)  == FlattenSeq([i \in DOMAIN xs |-> pack_stack_proxy(xs[i])])

----------------------------------------------------------------------------
(* Unpacker: d is the data, u the position of the next byte and ec.  A read *)
(* yields its value v and the new u.                                       *)

safe_data(d, u) == IF u.p <= Len(d) THEN d[u.p] ELSE 0
\* ec of safe_data.
Seen(d, u) == [u EXCEPT !.ec = @ \/ u.p > Len(d)]

safe_incremen(d, u, n) ==
    IF u.p + n <= Len(d) + 1 THEN [u EXCEPT !.p = @ + n] ELSE [p |-> Len(d) + 1, ec |-> TRUE]

Bytes(d, u, n) == [i \in 1 .. n |-> safe_data(d, [u EXCEPT !.p = @ + i - 1])]

read_be_unsigned(d, u, n) == [v |-> ZeroFill(Bytes(d, u, n)), u |-> safe_incremen(d, u, n)]
read_be_signed(d, u, n)   == [v |-> SignFill(Bytes(d, u, n)), u |-> safe_incremen(d, u, n)]

\* A word as a size; HugeSize is any that exceeds the data and the memory.
HugeSize == 2147483647
SizeOf(w) == IF (\A i \in 1 .. 4 : w[i] = 0) /\ w[5] < 128
             THEN ((w[5] * 256 + w[6]) * 256 + w[7]) * 256 + w[8] ELSE HugeSize

\* static_cast of a number to the type t.
Cast(t, w) ==
    CASE t[1] = "int"    -> SignFill(Low(w, t[2]))
      [] t[1] = "uint"   -> ZeroFill(Low(w, t[2]))
      [] t[1] = "bool"   -> w # Fill(8, 0)
      [] OTHER           -> <<"whole", w>>

\* A fraction read as another type than it was packed is not told apart.
unpack_number(t, d, u) ==
    LET b    == safe_data(d, u)
        next == safe_incremen(d, Seen(d, u), 1)
        As(r) == [v |-> Cast(t, r.v), u |-> r.u]
    IN CASE b <= 127       -> [v |-> Cast(t, ZeroFill(<<b>>)), u |-> next]
         [] b >= 224       -> [v |-> Cast(t, SignFill(<<b>>)), u |-> next]
         [] b \in {F.uint8, F.uint16, F.uint32, F.uint64} -> As(read_be_unsigned(d, next, 2 ^ (b - F.uint8)))
         [] b \in {F.int8, F.int16, F.int32, F.int64}     -> As(read_be_signed(d, next, 2 ^ (b - F.int8)))
         [] b = F.float32  -> [v |-> <<"frac", Bytes(d, next, 4)>>, u |-> safe_incremen(d, next, 4)]
         [] b = F.float64  -> [v |-> <<"frac", Bytes(d, next, 8)>>, u |-> safe_incremen(d, next, 8)]
         [] OTHER          -> [v |-> Cast(t, Fill(8, 0)), u |-> [u EXCEPT !.ec = TRUE]]

unpack_bool(d, u) ==
    CASE safe_data(d, u) = F.false -> [v |-> FALSE, u |-> safe_incremen(d, u, 1)]
      [] safe_data(d, u) = F.true  -> [v |-> TRUE, u |-> safe_incremen(d, u, 1)]
      [] OTHER                     -> unpack_number(<<"bool">>, d, u)

\* The n characters at u, or an error that leaves the position there.
Take(d, u, n) ==
    IF n # HugeSize /\ u.p + n <= Len(d) + 1
    THEN [v |-> SubSeq(d, u.p, u.p + n - 1), u |-> safe_incremen(d, u, n)]
    ELSE [v |-> <<>>, u |-> [u EXCEPT !.ec = TRUE]]

Sized(r, d) == Take(d, r.u, SizeOf(r.v))

\* strSize is a size_t: the lengths of str16 and str32 are read as 8 bytes.
unpack_string(d, u) ==
    LET b == safe_data(d, u)
        next == safe_incremen(d, Seen(d, u), 1)
    IN CASE b \in 160 .. 191         -> Take(d, next, b - 160)
         [] b \in {F.str16, F.str32} -> Sized(read_be_unsigned(d, next, 8), d)
         [] b = F.str8               -> Sized(read_be_unsigned(d, next, 1), d)
         [] OTHER                    -> [v |-> <<>>, u |-> [u EXCEPT !.ec = TRUE]]

\* Likewise binSize.
unpack_bin(d, u) ==
    LET b == safe_data(d, u)
        next == safe_incremen(d, Seen(d, u), 1)
    IN CASE b \in {F.bin16, F.bin32} -> Sized(read_be_unsigned(d, next, 8), d)
         [] b = F.bin8               -> Sized(read_be_unsigned(d, next, 1), d)
         [] OTHER                    -> [v |-> <<>>, u |-> [u EXCEPT !.ec = TRUE]]

RECURSIVE unpack_type(_, _, _)
RECURSIVE Items(_, _, _, _)

\* n reads of the types ts, in turn; what they yield is grouped by Len(ts).
Items(ts, n, d, u) ==
    IF n = 0 THEN [v |-> <<>>, u |-> u]
    ELSE LET row[i \in 0 .. Len(ts)] ==
               IF i = 0 THEN [v |-> <<>>, u |-> u]
               ELSE LET r == unpack_type(ts[i], d, row[i - 1].u)
                    IN  [v |-> Append(row[i - 1].v, r.v), u |-> r.u]
             rest == Items(ts, n - 1, d, row[Len(ts)].u)
         IN  [v |-> <<row[Len(ts)].v>> \o rest.v, u |-> rest.u]

\* Where reserve or resize of a huge size throws.
Thrown(u) == [v |-> <<"thrown">>, u |-> [u EXCEPT !.ec = TRUE]]

\* array_size and table_size are size_t too.  A table fills the places its keys
\* name; its keys are those of a Lua sequence.
unpack_array(t, d, u) ==
    LET b    == safe_data(d, u)
        next == safe_incremen(d, Seen(d, u), 1)
        Flat(r) == [v |-> FlattenSeq(r.v), u |-> r.u]
        n    == SizeOf(read_be_unsigned(d, next, 8).v)
        wide == read_be_unsigned(d, next, 8).u
    IN CASE b \in 144 .. 159 -> Flat(Items(<<t[2]>>, b - 144, d, next))
         [] b \in {F.array16, F.array32} ->
               IF n = HugeSize THEN Thrown(wide) ELSE Flat(Items(<<t[2]>>, n, d, wide))
         [] b = F.table ->
               IF n = HugeSize THEN Thrown(wide)
               ELSE LET r == Items(<<<<"int", 8>>, t[2]>>, n, d, wide)
                    IN  [v |-> [i \in 1 .. n |-> r.v[i][2]], u |-> r.u]
         [] OTHER -> [v |-> <<>>, u |-> [u EXCEPT !.ec = TRUE]]

\* And map_size; a byte that is no map leaves the map empty and no error.
unpack_map(t, d, u) ==
    LET b    == safe_data(d, u)
        next == safe_incremen(d, Seen(d, u), 1)
        n    == SizeOf(read_be_unsigned(d, next, 8).v)
        wide == read_be_unsigned(d, next, 8).u
    IN CASE b \in 128 .. 143 -> Items(<<t[2], t[3]>>, b - 128, d, next)
         [] b \in {F.map16, F.map32, F.table} ->
               IF n = HugeSize THEN Thrown(wide) ELSE Items(<<t[2], t[3]>>, n, d, wide)
         [] OTHER -> [v |-> <<>>, u |-> Seen(d, u)]

unpack_type(t, d, u) ==
    CASE t[1] \in {"int", "uint", "float", "double"} -> unpack_number(t, d, u)
      [] t[1] = "nil"    -> [v |-> 0, u |-> safe_incremen(d, u, 1)]
      [] t[1] = "bool"   -> unpack_bool(d, u)
      [] t[1] = "string" -> unpack_string(d, u)
      [] t[1] = "bin"    -> unpack_bin(d, u)
      [] t[1] = "vector" -> unpack_array(t, d, u)
      [] t[1] = "map"    -> unpack_map(t, d, u)

\* unpack<Args...>(data, ec): one value of each type.
unpack(ts, d) ==
    LET r == Items(ts, 1, d, [p |-> 1, ec |-> FALSE]) IN [vs |-> r.v[1], ec |-> r.u.ec]

----------------------------------------------------------------------------
(* Unpacker into Lua.                                                      *)

NotPushed == <<"none", 0>>

RECURSIVE unpack_stack_proxy(_, _)
RECURSIVE LuaItems(_, _, _, _)

LuaItems(k, n, d, u) ==
    IF n = 0 THEN [v |-> <<>>, u |-> u]
    ELSE LET a == unpack_stack_proxy(d, u)
             b == IF k = 2 THEN unpack_stack_proxy(d, a.u) ELSE a
             rest == LuaItems(k, n - 1, d, b.u)
         IN  [v |-> <<IF k = 2 THEN <<a.v, b.v>> ELSE a.v>> \o rest.v, u |-> rest.u]

\* Here the lengths are read as 2 and 4 bytes.  The items of a count that the
\* data cannot hold are read to its end, with an error.
unpack_table(d, u) ==
    LET b    == safe_data(d, u)
        next == safe_incremen(d, u, 1)
        w    == IF b \in {F.array16, F.map16} THEN 2 ELSE 4
        size == read_be_unsigned(d, next, w)
        k    == IF b \in {F.array16, F.array32} \cup 144 .. 159 THEN 1 ELSE 2
        r    == CASE b \in 128 .. 159           -> LuaItems(k, b % 16, d, next)
                  [] SizeOf(size.v) <= Len(d) -> LuaItems(k, SizeOf(size.v), d, size.u)
                  [] OTHER                    -> [v |-> <<>>, u |-> [p |-> Len(d) + 1, ec |-> TRUE]]
    IN  [v |-> <<"table", IF k = 2 THEN r.v ELSE [i \in DOMAIN r.v |-> <<<<"integer", ZeroFill(SizeBytes(i, 4))>>, r.v[i]>>]>>,
         u |-> r.u]

unpack_stack_proxy(d, u) ==
    LET b == safe_data(d, u)
        next == safe_incremen(d, Seen(d, u), 1)
        As(type, r) == [v |-> <<type, r.v>>, u |-> r.u]
    IN CASE b = F.nil -> [v |-> <<"nil", 0>>, u |-> next]
         [] b \in {F.false, F.true} -> [v |-> <<"boolean", b = F.true>>, u |-> next]
         [] b \in {F.bin8, F.bin16, F.bin32} -> As("string", unpack_bin(d, u))
         [] b \in {F.float32, F.float64}     -> As("number", unpack_number(<<"double">>, d, u))
         [] b \in F.uint8 .. F.uint64        -> As("integer", unpack_number(<<"uint", 8>>, d, u))
         [] b \in F.int8 .. F.int64          -> As("integer", unpack_number(<<"int", 8>>, d, u))
         [] b \in {F.str8, F.str16, F.str32} -> As("string", unpack_string(d, u))
         [] b \in F.array16 .. F.table \cup 128 .. 159 -> unpack_table(d, Seen(d, u))
         [] b <= 127 -> [v |-> <<"integer", ZeroFill(<<b>>)>>, u |-> next]
         [] b > F.table -> [v |-> <<"integer", SignFill(<<b>>)>>, u |-> next]
         [] b \in 160 .. 191 -> LET r == Take(d, next, b - 160) IN
                                IF r.u.ec THEN [v |-> NotPushed, u |-> r.u] ELSE As("string", r)
         [] OTHER -> [v |-> NotPushed, u |-> [u EXCEPT !.ec = TRUE]]

RECURSIVE UnpackAll(_, _)

\* while (!unpacker.empty()) unpacker(state): a byte of no known format is not
\* passed over, so the loop does not end.  What follows an error is not told
\* apart.
UnpackAll(d, u) ==
    IF u.p > Len(d) THEN [vs |-> <<>>, ec |-> u.ec]
    ELSE LET r == unpack_stack_proxy(d, u) IN
         IF r.u.p = u.p THEN [vs |-> <<<<"loops", 0>>>>, ec |-> TRUE]
         ELSE IF r.u.ec THEN [vs |-> <<r.v>>, ec |-> TRUE]
         ELSE LET rest == UnpackAll(d, r.u) IN [vs |-> <<r.v>> \o rest.vs, ec |-> rest.ec]

unpack_args(d) == UnpackAll(d, [p |-> 1, ec |-> FALSE])
==============================================================================
