----------------------------- MODULE Compressed -----------------------------
(***************************************************************************)
(* The compressing streams of src/buffer: GzipOutputStream and             *)
(* GzipInputStream over zlib, LZ4OutputStream and LZ4InputStream over      *)
(* blocks with a length in front.  zlib, LZ4 and the streams of protobuf   *)
(* are external: a compressed run of bytes is two bytes that stand for it, *)
(* and it is inflated when the second one has been read.                   *)
(*                                                                         *)
(* A stream is written and read as protobuf does it: a region is taken     *)
(* with Next, used, and the rest of it given back with BackUp.             *)
(***************************************************************************)
EXTENDS Integers, Sequences, SequencesExt

CONSTANTS BLOCKSIZE,           \* of LZ4's input and output buffers
          kDefaultBufferSize   \* of zlib's

CompressTypes == {"None", "Gzip", "Zlib", "LZ4"}

Chunk(type, data)  == <<<<type, 1, data>>, <<type, 2, data>>>>
Varint(n)          == <<"varint", n>>
EndOf(type)        == <<type, "end">>
IsChunk(type, s)   == Len(s) >= 2 /\ s[1][1] = type /\ SubSeq(s, 1, 2) = Chunk(type, s[1][3])
Least(a, b)        == IF a < b THEN a ELSE b
From(s, n)         == SubSeq(s, n, Len(s))

----------------------------------------------------------------------------
(* BlockCompressionOutputStream.  free is _backed_up_bytes, open says that *)
(* there is an _input_buffer.                                              *)

LzOutput == [type |-> "LZ4", buf |-> <<>>, open |-> FALSE, free |-> 0, out |-> <<>>]

LzFlush(o) ==
    IF ~o.open \/ o.buf = <<>> THEN o
    ELSE [o EXCEPT !.out = @ \o <<Varint(2)>> \o Chunk("LZ4", o.buf), !.buf = <<>>, !.open = FALSE, !.free = 0]

\* Next, with the region it returns given back untouched.
LzNext(o) == IF o.free > 0 THEN o ELSE [LzFlush(o) EXCEPT !.open = TRUE, !.free = BLOCKSIZE]

RECURSIVE LzWrite(_, _)
LzWrite(o, data) ==
    LET x == LzNext(o)
        n == Least(Len(data), x.free)
        y == [x EXCEPT !.buf = @ \o SubSeq(data, 1, n), !.free = @ - n]
    IN  IF n = Len(data) THEN y ELSE LzWrite(y, From(data, n + 1))

----------------------------------------------------------------------------
(* GzipOutputStream.  buf is what the caller wrote to input_buffer_, held  *)
(* what deflate has taken and not given out.                               *)

GzOutput(type) == [type |-> type, buf |-> <<>>, held |-> <<>>, out |-> <<>>]

RECURSIVE GzWrite(_, _)
GzWrite(o, data) ==
    LET n == Least(Len(data), kDefaultBufferSize)
        y == [o EXCEPT !.held = @ \o o.buf, !.buf = SubSeq(data, 1, n)]
    IN  IF n = Len(data) THEN y ELSE GzWrite(y, From(data, n + 1))

Deflate(o)  == [o EXCEPT !.out = @ \o Chunk(o.type, o.held \o o.buf), !.held = <<>>, !.buf = <<>>]
GzFlush(o)  == Deflate(o)
GzClose(o)  == [(IF o.held \o o.buf = <<>> THEN o ELSE Deflate(o)) EXCEPT !.out = Append(@, EndOf(o.type))]

----------------------------------------------------------------------------
(* The streams by type.                                                    *)

get_compressed_output_stream(type) == IF type = "LZ4" THEN LzOutput ELSE GzOutput(type)
Write(o, data) == IF o.type = "LZ4" THEN LzWrite(o, data) ELSE GzWrite(o, data)
Flush(o)       == IF o.type = "LZ4" THEN LzFlush(o) ELSE GzFlush(o)

\* What has reached the stream below when the compressing one is destroyed:
\* GzipOutputStream closes, LZ4OutputStream trims its CodedOutputStream.
Destroyed(o) == IF o.type = "LZ4" THEN o.out ELSE GzClose(o).out

\* What has reached it before: the CodedOutputStream has not copied its last
\* bytes, which are those the stream below was created with.
Pending(o) == IF o.type = "LZ4" THEN [o.out EXCEPT ![Len(o.out)] = <<"unset">>] ELSE o.out

----------------------------------------------------------------------------
(* BlockCompressionInputStream over the bytes in.                          *)

LzInput(in) == [type |-> "LZ4", in |-> in, buf |-> <<>>, backed |-> 0, ok |-> TRUE, region |-> <<>>]

LzReadNext(s) ==
    CASE s.backed > 0 ->
           [s EXCEPT !.backed = 0, !.region = From(s.buf, Len(s.buf) - s.backed + 1)]
      [] s.backed = 0 /\ s.in # <<>> /\ s.in[1] = Varint(2) /\ IsChunk("LZ4", From(s.in, 2)) ->
           [s EXCEPT !.in = From(@, 4), !.buf = s.in[2][3], !.region = s.in[2][3]]
      [] OTHER -> [s EXCEPT !.ok = FALSE, !.region = <<>>]

LzReadBackUp(s, count) == IF count <= 0 THEN s ELSE [s EXCEPT !.backed = @ + count]

----------------------------------------------------------------------------
(* GzipInputStream over the regions in.  avail is the input that inflate   *)
(* has not read, pend what it has inflated and found no room for, out the  *)
(* output buffer up to next_out and pos the output_position_ in it.        *)

GzInput(type, in) ==
    [type |-> type, in |-> in, avail |-> <<>>, pend |-> <<>>, out |-> <<>>, pos |-> 0, null |-> FALSE,
     err |-> "OK", ok |-> TRUE, region |-> <<>>]

\* inflate: to the end of the input, of the room or of the stream.
RECURSIVE Inflated(_)
Inflated(s) ==
    CASE s.pend # <<>> /\ Len(s.out) < kDefaultBufferSize ->
           Inflated([s EXCEPT !.out = Append(@, s.pend[1]), !.pend = Tail(@), !.err = "OK"])
      [] s.pend = <<>> /\ s.avail # <<>> /\ s.avail[1] = EndOf(s.type) ->
           [s EXCEPT !.avail = Tail(@), !.err = "STREAM_END"]
      [] s.pend = <<>> /\ s.avail # <<>> /\ s.avail[1] # EndOf(s.type) ->
           Inflated(IF s.avail[1][1] = s.type
                    THEN [s EXCEPT !.avail = Tail(@), !.err = "OK",
                                   !.pend = IF s.avail[1][2] = 2 THEN s.avail[1][3] ELSE <<>>]
                    ELSE [s EXCEPT !.avail = <<>>, !.err = "DATA_ERROR"])
      [] OTHER -> s

Inflate(s) ==
    LET full == s.err = "OK" /\ Len(s.out) = kDefaultBufferSize
        Run(x) == Inflated([x EXCEPT !.out = <<>>, !.pos = 0, !.err = "BUF_ERROR"])
    IN  CASE full \/ s.avail # <<>> -> Run(s)
          [] ~full /\ s.avail = <<>> /\ s.in # <<>> -> Run([s EXCEPT !.avail = s.in[1], !.in = Tail(@)])
          [] ~full /\ s.avail = <<>> /\ s.in = <<>> -> [s EXCEPT !.null = TRUE, !.err = "STREAM_END"]

DoNextOutput(s) == [s EXCEPT !.region = From(s.out, s.pos + 1), !.pos = Len(s.out)]

GzReadNext(s) ==
    LET Fails(x) == [x EXCEPT !.ok = FALSE, !.region = <<>>]
        \* After the end of a stream another may follow.
        x == Inflate(IF s.err = "STREAM_END" THEN [s EXCEPT !.err = "OK"] ELSE s)
    IN  CASE s.null \/ s.err = "DATA_ERROR"   -> Fails(s)
          [] ~s.null /\ s.pos < Len(s.out)    -> DoNextOutput(s)
          [] OTHER -> IF x.null \/ x.err = "DATA_ERROR" THEN Fails(x) ELSE DoNextOutput(x)

GzReadBackUp(s, count) == [s EXCEPT !.pos = @ - count]

----------------------------------------------------------------------------
get_compressed_input_stream(type, in) ==
    IF type = "LZ4" THEN LzInput(FlattenSeq(in)) ELSE GzInput(type, in)

Next(s)          == IF s.type = "LZ4" THEN LzReadNext(s) ELSE GzReadNext(s)
BackUp(s, count) == IF s.type = "LZ4" THEN LzReadBackUp(s, count) ELSE GzReadBackUp(s, count)

\* All that a reader sees that takes one byte of a region and gives the rest
\* back.
RECURSIVE ReadAll(_)
ReadAll(s) ==
    LET x == Next(s) IN
    CASE ~x.ok                    -> <<>>
      [] x.ok /\ x.region = <<>>  -> ReadAll(x)
      [] OTHER                    -> <<x.region[1]>> \o ReadAll(BackUp(x, Len(x.region) - 1))
=============================================================================
