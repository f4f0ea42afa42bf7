------------------------------ MODULE Messages ------------------------------
(***************************************************************************)
(* A message from the call that sends it to the handler that gets it:      *)
(* Session::Send lays header, meta and data out in a WriteBuffer, the peer *)
(* cuts header and message from the blocks it receives (MessageStream),    *)
(* NetworkManager reads the meta and the handler the data.                 *)
(*                                                                         *)
(* A header and a meta are as many bytes as HeaderSize and MetaSize, each  *)
(* naming its place and what the whole says.  A protobuf message is the    *)
(* bytes it is serialized to.                                              *)
(***************************************************************************)
EXTENDS Integers, Sequences, SequencesExt

CONSTANTS BlockBaseSize, Overhead, MaxFactor, BaseFactor,  \* of Buffers
          BLOCKSIZE, kDefaultBufferSize,                   \* of Compressed
          HeaderSize, MetaSize                             \* sizeof MessageHeader, sizeof Meta

B == INSTANCE Buffers
C == INSTANCE Compressed

Header(meta_size, data_size) == [i \in 1 .. HeaderSize |-> <<"header", i, meta_size, data_size>>]
Meta(compress)               == [i \in 1 .. MetaSize |-> <<"meta", i, compress>>]
Garbled                      == <<<<"garbled">>>>

----------------------------------------------------------------------------
(* Session::Send.  Every variant reserves the header, appends the meta,    *)
(* adds its data and fills in the header last.                             *)

Begin(compress) == B!WriteAppend(B!Reserve(B!NewWriteBuffer, HeaderSize), Meta(compress))

Finish(w, meta_size) ==
    B!SwapOut(B!SetData(w, 0, Header(meta_size, w.written - HeaderSize - meta_size)))

Heartbeat          == Finish(B!Reserve(B!NewWriteBuffer, HeaderSize), 0)
SendMeta(compress) == Finish(Begin(compress), MetaSize)

\* A protobuf message is serialized into the buffer itself; a compressing
\* stream is destroyed before the data is counted.
SendMessage(compress, message) ==
    Finish(IF compress = "None"
           THEN B!Serialize(Begin(compress), message)
           ELSE B!WriteAppend(Begin(compress),
                    C!Destroyed(C!Flush(C!Write(C!get_compressed_output_stream(compress), message)))),
           MetaSize)

\* Bytes are compressed with their size in front into a string, which is
\* appended when the compressing stream has been flushed.
SendBytes(compress, data) ==
    Finish(IF compress = "None"
           THEN B!WriteAppend(Begin(compress), data)
           ELSE B!WriteAppend(Begin(compress),
                    C!Pending(C!Flush(C!Write(C!get_compressed_output_stream(compress),
                                              <<<<"size", Len(data)>>>> \o data)))),
           MetaSize)

\* The data of another buffer, which a call that packs nothing does not have.
SendBuffer(compress, buffer) == SendBytes(compress, B!AsString(buffer))

----------------------------------------------------------------------------
(* What callers give to Send.                                              *)

\* A protobuf message or the bytes of msgpack in a buffer of their own.
PackBuffer(kind, data) ==
    B!SwapOut(IF kind = "proto" THEN B!Serialize(B!NewWriteBuffer, data)
                                ELSE B!WriteAppend(B!NewWriteBuffer, data))

\* CallImpl passes the buffer on only if there is something in it.
CallImpl(compress, buffer) ==
    IF B!TotalCount(buffer) > 0 THEN SendBuffer(compress, buffer) ELSE SendMeta(compress)

\* Call packs arguments if there are any, and so do net.Call and rpc.Await.
Call(compress, data) ==
    IF data = <<>> THEN SendMeta(compress) ELSE CallImpl(compress, PackBuffer("args", data))
LuaCall(compress, data) == Call(compress, data)

\* RpcReply keeps the meta of the request, its compression included.
Reply(compress, data) == SendBytes(compress, data)

Sent(how, compress, data) ==
    CASE how = "heartbeat"           -> Heartbeat
      [] how = "message"             -> SendMessage(compress, data)
      [] how = "bytes"               -> SendBytes(compress, data)
      [] how = "reply"               -> Reply(compress, data)
      [] how = "luamessage"          -> SendMessage(compress, data)
      [] how = "call"                -> Call(compress, data)
      [] how = "lua"                 -> LuaCall(compress, data)
      [] how = "callproto"           -> CallImpl(compress, PackBuffer("proto", data))

----------------------------------------------------------------------------
(* The other side.                                                         *)

\* The bytes received in two blocks, the first of them cut bytes long; the
\* header is left out of the message.
Arrived(bytes, cut) ==
    LET parts == <<SubSeq(bytes, 1, cut), SubSeq(bytes, cut + 1, Len(bytes))>>
        heap  == [i \in 1 .. 2 |-> [capacity |-> Len(parts[i]), ref |-> 1, bytes |-> parts[i]]]
        Part(i) == LET before == IF i = 1 THEN 0 ELSE cut
                       skip   == IF HeaderSize > before THEN HeaderSize - before ELSE 0
                       offset == IF skip < Len(parts[i]) THEN skip ELSE Len(parts[i])
                   IN  B!Handle(i, Len(parts[i]) - offset, offset)
        r == FoldLeft(B!ReadAppend, B!NewReadBuffer(heap),
                      SelectSeq(<<Part(1), Part(2)>>, LAMBDA h : h.size > 0))
    IN  [r EXCEPT !.heap = FoldLeft(B!Free, @, <<1, 2>>)]

\* Mutant: what follows the meta in its block is not given back.
ReadMeta_KeepsBlock(r, meta_size) ==
    LET x == B!ReadNext(r) IN
    [meta |-> IF Len(x.out) < meta_size THEN Garbled ELSE (x.out \o Meta("None"))[1], rest |-> x]

\* The meta is copied from the first block of the message; a heartbeat has none
\* and leaves it as it was constructed.
ReadMeta(r, meta_size) ==
    LET x == B!ReadNext(r)
        n == Len(x.out)
    IN  [meta |-> CASE meta_size = 0 -> Meta("None")[1]
                   [] n < meta_size -> Garbled
                   [] OTHER         -> x.out[1],
         rest |-> IF n > meta_size THEN B!ReadBackUp(x, n - meta_size) ELSE x]

\* What is left of a buffer, block by block.
RECURSIVE Regions(_)
Regions(r) == LET x == B!ReadNext(r) IN IF x.ok THEN <<x.out>> \o Regions(x) ELSE <<>>

\* MakeNetHandler: parsed, through a decompressing stream if the meta says so.
NetHandler(r, compress) ==
    IF compress = "None" THEN B!Rest(r) ELSE C!ReadAll(C!get_compressed_input_stream(compress, Regions(r)))

\* A Lua handler gets a message of the type it was registered with.
LuaNetHandler(r, compress) == NetHandler(r, compress)

\* MakeRpcHandler with a protobuf argument: parsed as it stands.
RpcProtoHandler(r) == B!Rest(r)

\* The arguments of a request and the values of a reply.
GetMsgData(r, compress, meta_size, data_size) ==
    LET bytes == SubSeq(B!AsString(r), meta_size + 1, meta_size + data_size)
        plain == C!ReadAll(C!get_compressed_input_stream(compress, <<bytes>>))
    IN  CASE compress = "None" -> bytes
          [] compress # "None" /\ Contains(bytes, B!Unset) -> Garbled
          [] compress # "None" /\ ~Contains(bytes, B!Unset) /\ plain # <<>> -> SubSeq(plain, 2, 1 + plain[1][2])
          [] OTHER -> <<>>

\* A Lua handler unpacks only what is there.
LuaData(r, compress, meta_size, data_size) ==
    IF data_size > 0 THEN GetMsgData(r, compress, meta_size, data_size) ELSE <<>>

\* What the handler of a message gets that is received with a header.
Handled(how, r, header) ==
    LET m    == ReadMeta(r, header[3])
        type == m.meta[3]
    IN  IF m.meta = Garbled THEN Garbled
        ELSE CASE how \in {"message", "heartbeat"} -> NetHandler(m.rest, type)
               [] how = "luamessage"                 -> LuaNetHandler(m.rest, type)
               [] how = "callproto"                  -> RpcProtoHandler(m.rest)
               [] how \in {"bytes", "reply", "call"} -> GetMsgData(r, type, header[3], header[4])
               [] how = "lua"                        -> LuaData(r, type, header[3], header[4])

\* The receiver's buffer when the bytes sent arrive in two blocks.
Received(sent, cut) ==
    LET bytes == B!AsString(sent) IN Arrived(bytes, C!Least(cut, Len(bytes)))

\* What the handler gets, whether skipping leads to where it should in what
\* arrived, and whether every block came back to the pool.
Delivered(how, sent, arrived) ==
    [got      |-> Handled(how, arrived, B!AsString(sent)[1]),
     skips    |-> LET all == B!AsString(arrived) IN
                  \A k \in 0 .. Len(all) : B!Rest(B!Skip(arrived, k)) = C!From(all, k + 1),
     returned |-> B!AllReturned(B!ReadDestroy(sent)) /\ B!AllReturned(B!ReadDestroy(arrived))]
=============================================================================
