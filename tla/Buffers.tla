------------------------------ MODULE Buffers ------------------------------
(***************************************************************************)
(* WriteBuffer and ReadBuffer over the reference-counted blocks of         *)
(* TranBufPool (src/buffer).  A message is written into blocks that are    *)
(* handed to a ReadBuffer without a copy; a ReadBuffer is read through the *)
(* ZeroCopyInputStream interface, which may give part of a block back.     *)
(*                                                                         *)
(* A buffer carries the heap of blocks it works on.  An operation that     *)
(* returns a region leaves its bytes in out; ::malloc does not fail.       *)
(***************************************************************************)
EXTENDS Integers, Sequences, SequencesExt

CONSTANTS BlockBaseSize,  \* TRAN_BUF_BLOCK_BASE_SIZE
          Overhead,       \* the two ints in front of the data
          MaxFactor,      \* TRAN_BUF_BLOCK_MAX_FACTOR
          BaseFactor      \* _base_block_factor

\* A byte that nobody has written.
Unset == <<"unset">>

----------------------------------------------------------------------------
(* TranBufPool.                                                            *)

Capacity(factor) == BlockBaseSize * 2 ^ factor - Overhead

Malloc(heap, factor) ==
    Append(heap, [capacity |-> Capacity(factor), ref |-> 1,
                  bytes |-> [i \in 1 .. Capacity(factor) |-> Unset]])
AddRef(heap, b) == [heap EXCEPT ![b].ref = @ + 1]
Free(heap, b)   == [heap EXCEPT ![b].ref = @ - 1]

\* Every block is referenced by nobody: it has been returned exactly once.
AllReturned(heap) == \A b \in DOMAIN heap : heap[b].ref = 0

----------------------------------------------------------------------------
(* WriteBuffer.                                                            *)

NewWriteBuffer == [heap |-> <<>>, list |-> <<>>, last |-> 0, written |-> 0]

Extend(w) ==
    LET factor == IF Len(w.list) + BaseFactor < MaxFactor THEN Len(w.list) + BaseFactor ELSE MaxFactor
        heap   == Malloc(w.heap, factor)
    IN  [w EXCEPT !.heap = heap,
                  !.list = Append(@, [block |-> Len(heap), size |-> 0, capacity |-> Capacity(factor)])]

\* The rest of the last block, or a new one.
WriteNext(w) ==
    LET x    == IF w.list = <<>> \/ Last(w.list).size = Last(w.list).capacity THEN Extend(w) ELSE w
        size == Last(x.list).capacity - Last(x.list).size
    IN  [x EXCEPT !.list[Len(x.list)].size = @ + size, !.last = size, !.written = @ + size]

WriteBackUp(w, count) ==
    [w EXCEPT !.list[Len(w.list)].size = @ - count, !.last = 0, !.written = @ - count]

RECURSIVE Reserve(_, _)
Reserve(w, count) ==
    IF count = 0 THEN w
    ELSE LET x == WriteNext(w) IN
         IF x.last > count THEN WriteBackUp(x, x.last - count) ELSE Reserve(x, count - x.last)

\* The position in the buffer of the first byte of the i-th block.
StartOf(w, i) == FoldLeft(LAMBDA n, h : n + h.size, 0, SubSeq(w.list, 1, i - 1))

SetData(w, pos, data) ==
    [w EXCEPT !.heap = [b \in DOMAIN w.heap |->
        LET i  == CHOOSE i \in DOMAIN w.list : w.list[i].block = b
            at == StartOf(w, i) - pos
        IN  [w.heap[b] EXCEPT !.bytes = [k \in DOMAIN @ |->
                IF k <= w.list[i].size /\ at + k \in DOMAIN data THEN data[at + k] ELSE @[k]]]]]

WriteAppend(w, data) ==
    IF data = <<>> THEN w ELSE SetData(Reserve(w, Len(data)), w.written, data)

\* A protobuf message serialized to the buffer as a ZeroCopyOutputStream: regions
\* are filled and the rest of the last one is given back.
RECURSIVE Serialize(_, _)
Serialize(w, data) ==
    LET x == WriteNext(w)
        n == IF Len(data) < x.last THEN Len(data) ELSE x.last
        y == SetData(x, w.written, SubSeq(data, 1, n))
    IN  CASE n < x.last    -> WriteBackUp(y, x.last - n)
          [] n = Len(data) -> y
          [] OTHER         -> Serialize(y, SubSeq(data, n + 1, Len(data)))

----------------------------------------------------------------------------
(* ReadBuffer.                                                             *)

NewReadBuffer(heap) ==
    [heap |-> heap, list |-> <<>>, cur |-> 1, pos |-> 0, last |-> 0, read |-> 0, ok |-> TRUE, out |-> <<>>]

Handle(b, size, offset) == [block |-> b, size |-> size, offset |-> offset]

ReadAppend(r, h) ==
    [r EXCEPT !.list = Append(@, h), !.heap = AddRef(@, h.block), !.cur = 1]

Bytes(r, h) == SubSeq(r.heap[h.block].bytes, h.offset + 1, h.offset + h.size)

TotalCount(r) == FoldLeft(LAMBDA n, h : n + h.size, 0, r.list)
AsString(r)   == FlattenSeq([i \in DOMAIN r.list |-> Bytes(r, r.list[i])])

ReadNext(r) ==
    IF r.cur > Len(r.list) THEN [r EXCEPT !.last = 0, !.ok = FALSE, !.out = <<>>]
    ELSE LET h == r.list[r.cur] IN
         [r EXCEPT !.cur = @ + 1, !.pos = 0, !.last = h.size - r.pos, !.read = @ + h.size - r.pos,
                   !.ok = TRUE, !.out = SubSeq(Bytes(r, h), r.pos + 1, h.size)]

ReadBackUp(r, count) ==
    [r EXCEPT !.cur = IF count > 0 THEN @ - 1 ELSE @,
              !.pos = IF count > 0 THEN r.list[r.cur - 1].size - count ELSE @,
              !.last = 0, !.read = @ - count]

RECURSIVE Skip(_, _)
Skip(r, count) ==
    IF count = 0 THEN [r EXCEPT !.last = 0]
    ELSE LET x == ReadNext(r) IN
         CASE ~x.ok          -> [x EXCEPT !.last = 0]
           [] x.last > count -> [ReadBackUp(x, x.last - count) EXCEPT !.last = 0]
           [] OTHER          -> Skip(x, count - x.last)

\* What a reader sees that takes one byte of every region and gives the rest
\* back, to the end: the most backing up that a parser can do.
RECURSIVE Rest(_)
Rest(r) ==
    LET x == ReadNext(r) IN
    IF ~x.ok THEN <<>>
    ELSE <<x.out[1]>> \o Rest(IF x.last > 1 THEN ReadBackUp(x, x.last - 1) ELSE x)

ReadDestroy(r) == FoldLeft(Free, r.heap, [i \in DOMAIN r.list |-> r.list[i].block])

\* The blocks that hold something go to the reader; the writer returns all.
SwapOut(w) ==
    LET full == SelectSeq(w.list, LAMBDA h : h.size > 0)
        r    == FoldLeft(ReadAppend, NewReadBuffer(w.heap),
                         [i \in DOMAIN full |-> Handle(full[i].block, full[i].size, 0)])
    IN  [r EXCEPT !.heap = FoldLeft(Free, @, [i \in DOMAIN w.list |-> w.list[i].block])]
============================================================================
