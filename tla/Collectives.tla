---------------------------- MODULE Collectives ----------------------------
(***************************************************************************)
(* The host's calls as sequences of data movements, rank by rank, and what *)
(* each call is to leave in the destination buffers. src is the call's     *)
(* first buffer, dst the one it is to fill (the second, if there is one).  *)
(***************************************************************************)
EXTENDS RankEngine, SequencesExt

CONSTANT OperandWidth  \* arith_number_of_bytes_per: bytes of an operand

ASSUME WidthAssumption == OperandWidth \in Nat \ {0}

NextInRing(r) == (r + 1) % Size
PrevInRing(r) == (r + Size - 1) % Size

Others(r) == SelectSeq([i \in 1 .. Size |-> i - 1], LAMBDA i : i # r)

SendTo(c, r) == IF r = c.root THEN <<Transmit(c.peer, c.len, At("src", 0))>> ELSE <<>>
RecvFrom(c, r) == IF r = c.peer THEN <<Receive(c.root, c.len, At("dst", 0))>> ELSE <<>>

(* Mutant of RoundRobin: the root does not move on in the buffer.          *)
RoundRobinFirst(c, r, stride) ==
  FlattenSeq([k \in 1 .. Segs(c.len) |->
    LET Send(d) == Single(d, SegLen(c.len, k - 1), At("src", d * stride))
    IN [j \in 1 .. Size - 1 |-> Send(Others(r)[j])]
       \o [j \in 1 .. Size - 1 |-> AckPacketizer(Others(r)[j])]])

(* Segment by segment the root sends to every other rank, then waits for   *)
(* the packetizer's statuses; rank d gets what starts at d * stride.       *)
RoundRobin(c, r, stride) ==
  FlattenSeq([k \in 1 .. Segs(c.len) |->
    LET Send(d) == Single(d, SegLen(c.len, k - 1),
                          At("src", d * stride + (k - 1) * TxnSize))
    IN [j \in 1 .. Size - 1 |-> Send(Others(r)[j])]
       \o [j \in 1 .. Size - 1 |-> AckPacketizer(Others(r)[j])]])

Broadcast(c, r) ==
  IF r = c.root THEN <<CfgSwitch>> \o RoundRobin(c, r, 0)
  ELSE <<Receive(c.root, c.len, At("dst", 0))>>

Scatter(c, r) ==
  IF r = c.root
  THEN <<CfgSwitch>> \o RoundRobin(c, r, c.len)
       \o <<Copy(c.len, At("src", r * c.len), At("dst", 0))>>
  ELSE <<Receive(c.root, c.len, At("dst", 0))>>

(* The root receives from its predecessor what comes from ever farther     *)
(* ranks, and copies its own part last.                                    *)
Gather(c, r) ==
  IF r = c.root
  THEN [i \in 1 .. Size |->
          LET p == (r + Size - i) % Size
          IN IF p = r THEN Copy(c.len, At("src", 0), At("dst", c.len * p))
             ELSE Receive(PrevInRing(r), c.len, At("dst", c.len * p))]
  ELSE <<Transmit(NextInRing(r), c.len, At("src", 0))>>
       \o [i \in 1 .. ((Size + r - c.root) % Size) - 1 |->
             Relay(PrevInRing(r), NextInRing(r), c.len)]

AllGather(c, r) ==
  <<Transmit(NextInRing(r), c.len, At("src", 0)),
    Copy(c.len, At("src", 0), At("dst", c.len * r))>>
  \o FlattenSeq([i \in 1 .. Size - 1 |->
       LET p == (r + Size - i) % Size
           receive == <<Receive(PrevInRing(r), c.len, At("dst", c.len * p))>>
       IN IF i + 1 < Size
          THEN Append(receive, Transmit(NextInRing(r), c.len, At("dst", c.len * p)))
          ELSE receive])

Reduce(c, r) ==
  IF PrevInRing(r) = c.root THEN <<Transmit(NextInRing(r), c.len, At("src", 0))>>
  ELSE IF r # c.root
       THEN <<ReceiveAndReduce(PrevInRing(r), NextInRing(r), c.len, At("src", 0))>>
       ELSE <<ReceiveAndAccumulate(PrevInRing(r), c.len, At("src", 0), At("dst", 0))>>

(* len is the size of a chunk, of which every rank has Size.               *)
ScatterReduce(len, r) ==
  LET Chunk(buf, i) == At(buf, len * ((r + 2 * Size - 1 - i) % Size))
  IN <<Transmit(NextInRing(r), len, Chunk("src", 0))>>
     \o [i \in 1 .. Size - 2 |->
           ReceiveAndReduce(PrevInRing(r), NextInRing(r), len, Chunk("src", i))]
     \o <<ReceiveAndAccumulate(PrevInRing(r), len, Chunk("src", Size - 1),
                               Chunk("dst", Size - 1))>>

(* The chunk of an allreduce, in operands: len/size bytes, rounded down,   *)
(* then up to whole operands.                                              *)
ChunkLen(len) == CeilDiv((len * OperandWidth) \div Size, OperandWidth)

(* The chunks are reduced, then passed round the ring in place.            *)
AllReduce(c, r) ==
  LET len == ChunkLen(c.len)
      Chunk(i) == At("dst", len * ((r + Size - i) % Size))
  IN ScatterReduce(len, r)
     \o FlattenSeq([i \in 1 .. Size - 1 |->
          <<Transmit(NextInRing(r), len, Chunk(i - 1)),
            Receive(PrevInRing(r), len, Chunk(i))>>])

(* main's dispatch of the scenarios that move data.                        *)
CollectiveProgram(c, r) ==
  CASE c.op = "SEND_RECV" -> SendTo(c, r) \o RecvFrom(c, r)
    [] c.op = "BCAST" -> Broadcast(c, r)
    [] c.op = "SCATTER" -> Scatter(c, r)
    [] c.op = "GATHER" -> Gather(c, r)
    [] c.op = "ALLGATHER" -> AllGather(c, r)
    [] c.op = "REDUCE" -> Reduce(c, r)
    [] c.op = "REDUCE_SCATTER" -> ScatterReduce(c.len, r)
    [] c.op = "ALLREDUCE" -> AllReduce(c, r)
    [] c.op = "COPY" -> <<Copy(c.len, At("src", 0), At("dst", 0))>>
    [] c.op = "ACC" -> <<Accumulate(c.len, At("src", 0), At("dst", 0), At("dst", 0))>>
    [] c.op = "EXT_STREAM_KRNL" -> <<ExtKernelStream(c.len, At("src", 0), At("dst", 0))>>
    [] c.op = "EXT_REDUCE" ->
         <<ReduceExt(c.len, At("src", 0), At("src", c.len), At("dst", 0))>>

-----------------------------------------------------------------------------

SumOfAll(o) == {<<q, o>> : q \in Ranks}

(* What a call puts in cell o of the destination of rank r, or {} when it  *)
(* is to leave the cell alone: the collectives as MPI defines them.        *)
Result(c, r, o) ==
  CASE c.op = "SEND_RECV" -> IF r = c.peer /\ o < c.len THEN Src(c.root, o) ELSE {}
    [] c.op = "BCAST" -> IF r # c.root /\ o < c.len THEN Src(c.root, o) ELSE {}
    [] c.op = "SCATTER" -> IF o < c.len THEN Src(c.root, r * c.len + o) ELSE {}
    [] c.op = "GATHER" ->
         IF r = c.root /\ o < Size * c.len THEN Src(o \div c.len, o % c.len) ELSE {}
    [] c.op = "ALLGATHER" -> IF o < Size * c.len THEN Src(o \div c.len, o % c.len) ELSE {}
    [] c.op = "REDUCE" -> IF r = c.root /\ o < c.len THEN SumOfAll(o) ELSE {}
    [] c.op = "REDUCE_SCATTER" -> IF o \div c.len = r THEN SumOfAll(o) ELSE {}
    [] c.op = "ALLREDUCE" -> IF o < c.len THEN SumOfAll(o) ELSE {}
    [] c.op \in {"COPY", "EXT_STREAM_KRNL"} -> IF o < c.len THEN Src(r, o) ELSE {}
    [] c.op = "ACC" -> IF o < c.len THEN Src(r, o) \cup Old(r, o) ELSE {}
    [] c.op = "EXT_REDUCE" -> IF o < c.len THEN Src(r, o) \cup Src(r, c.len + o) ELSE {}

(* A call that returned has filled exactly its destination, with the right *)
(* values, however far the other ranks are, in this call or the next.      *)
ResultsRight ==
  \A r \in Ranks : pc[r] = 0 /\ calls[r] > 0 =>
    \A o \in 0 .. MemSize - 1 :
      LET v == Result(Calls[calls[r]], r, o)
      IN dst[r][o] = IF v = {} THEN Old(r, o) ELSE v

(* An allreduce that returned has reduced every operand of the buffer      *)
(* (test.py compares the whole of it).                                     *)
AllReduceCovers ==
  \A r \in Ranks : pc[r] = 0 /\ calls[r] > 0 =>
    \A o \in 0 .. Calls[calls[r]].len - 1 : dst[r][o] = SumOfAll(o)

=============================================================================
