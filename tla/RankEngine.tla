---------------------------- MODULE RankEngine ----------------------------
(***************************************************************************)
(* The ranks of a communicator at work on the host's calls. The firmware   *)
(* of a rank runs a call as a sequence of data movements; each sets the    *)
(* stream switches, then moves its data in segments of dma_transaction_    *)
(* size, reading up to two operands and feeding either memory or the       *)
(* packetizer. All of them share the loop of dma_movement: issue while     *)
(* fewer than max_dma_in_flight segments are out, otherwise acknowledge    *)
(* the oldest one.                                                         *)
(*                                                                         *)
(* What a call consists of is the parameter Program. Lengths and addresses *)
(* count operands, of which a memory cell holds one. A value is the set of *)
(* cells that it is the sum of, {} when it is nothing sensible.            *)
(*                                                                         *)
(* The spare buffers are what RxBuffers promises: a pool whose segments    *)
(* are claimed source by source in order, and held until released. The     *)
(* network is reliable; transfers do not fail and no timeout is set.       *)
(***************************************************************************)
EXTENDS Integers, Sequences, FiniteSets

CONSTANTS
  Size,          \* ranks of the communicator
  Scripts,       \* the scripts to choose from: sequences of calls that the
                 \* hosts of all ranks make
  Program(_, _), \* the data movements of a call at a rank
  TxnSize,       \* dma_transaction_size
  WordSize,      \* operands per word of the streams (64 bytes)
  MaxInFlight,   \* max_dma_in_flight
  NBufs,         \* spare buffers of a rank
  Window,        \* segments the network holds from one rank to another
  MemSize,       \* cells of a destination buffer
  TxPort,        \* the packetizer in use, "TCP_TX" or "UDP_TX"
  Nobody         \* no rank

ASSUME EngineAssumption ==
  /\ Size \in Nat \ {0} /\ TxnSize \in Nat \ {0} /\ WordSize \in Nat \ {0}
  /\ MaxInFlight \in Nat \ {0} /\ NBufs \in Nat \ {0} /\ Window \in Nat \ {0}
  /\ MemSize \in Nat /\ Nobody \notin 0 .. Size - 1
  /\ TxPort \in {"TCP_TX", "UDP_TX"}

Ranks == 0 .. Size - 1

VARIABLES
  script,    \* number of the script of this behaviour
  calls,     \* calls that returned, by rank
  pc,        \* data movement in progress, by rank; 0 between calls
  taken,     \* its segments given to the DMAs
  moved,     \* its segments executed
  acked,     \* its segments acknowledged
  main,      \* main switch: the input that feeds each output
  asw,       \* arithmetic switch: the unit that gets the operands
  words,     \* words reduce_arith has still to process
  held,      \* spare buffers in use by the movement, oldest first
  pool,      \* spare buffers with a received segment, in order of arrival
  sts,       \* packetizer statuses not yet read: destinations
  link,      \* the network, from rank to rank
  dst        \* destination buffer of the call, by rank

fwVars  == <<script, calls, pc, taken, acked>>
vars    == <<fwVars, moved, main, asw, words, held, pool, sts, link, dst>>

Src(r, o) == {<<r, o>>}         \* the operand o of rank r's source buffer
Old(r, o) == {<<r, 0 - 1 - o>>} \* what a destination held before the call
Plus(u, v) == IF u = {} \/ v = {} \/ u \cap v # {} THEN {} ELSE u \cup v

CeilDiv(n, d) == (n + d - 1) \div d

-----------------------------------------------------------------------------
(* The stream switches.                                                    *)

MainOutputs == {"ARITH_OP0", "ARITH_OP1", "DMA1_TX", "UDP_TX", "TCP_TX", "EXT_KRNL"}

(* The output of the main switch that each scenario of cfg_switch          *)
(* connects, and to which input; every other output is disabled.           *)
Datapaths(scenario) ==
  CASE scenario = "DMA_LOOPBACK" -> {<<"DMA1_TX", "DMA1_RX">>}
    [] scenario = "OFFCHIP_TX" -> {<<TxPort, "DMA1_RX">>}
    [] scenario = "DMA_REDUCTION" ->
         {<<"ARITH_OP0", "DMA0_RX">>, <<"ARITH_OP1", "DMA1_RX">>, <<"DMA1_TX", "ARITH_RES">>}
    [] scenario = "OFFCHIP_REDUCTION" ->
         {<<"ARITH_OP0", "DMA0_RX">>, <<"ARITH_OP1", "DMA1_RX">>, <<TxPort, "ARITH_RES">>}
    [] scenario = "DMA_EXT_LOOPBACK" -> {<<"EXT_KRNL", "DMA1_RX">>, <<"DMA1_TX", "EXT_KRNL">>}

Routes(paths) ==
  [p \in MainOutputs |->
     IF \E d \in paths : d[1] = p THEN (CHOOSE d \in paths : d[1] = p)[2] ELSE "none"]

(* cfg_switch writes every output of the main switch.                      *)
SwitchTo(now, scenario) ==
  IF scenario = "KEEP" THEN now ELSE Routes(Datapaths(scenario))

(* Mutant of StartArith: the words of the message, segments disregarded.   *)
StartArithWhole(len) == CeilDiv(len, WordSize)

(* start_arith: words of the full segments and of the last one.            *)
StartArith(len) ==
  (len \div TxnSize) * CeilDiv(TxnSize, WordSize) + CeilDiv(len % TxnSize, WordSize)

(* What the DMAs' reads a (DMA0) and b (DMA1) become at output p.          *)
Fed(routes, p, a, b) ==
  CASE routes[p] = "DMA0_RX" -> a
    [] routes[p] = "DMA1_RX" -> b
    [] OTHER -> <<>>

(* elementwise_sum of two streams.                                         *)
Sum(a, b) == [i \in DOMAIN a |-> IF i \in DOMAIN b THEN Plus(a[i], b[i]) ELSE {}]

Delivered(routes, p, a, b) ==
  CASE routes[p] = "ARITH_RES" ->
         Sum(Fed(routes, "ARITH_OP0", a, b), Fed(routes, "ARITH_OP1", a, b))
    [] routes[p] = "EXT_KRNL" -> Fed(routes, "EXT_KRNL", a, b)
    [] OTHER -> Fed(routes, p, a, b)

-----------------------------------------------------------------------------
(* The data movements. op0 and op1 are the addresses that DMA0 and DMA1    *)
(* read; with a rank in from, DMA1 reads spare buffers instead; with a     *)
(* rank in to the result goes to the packetizer, otherwise to out.         *)

NoAddr == [buf |-> "none", at |-> 0]
At(buf, o) == [buf |-> buf, at |-> o]

Movement(kind, scenario, unit, from, to, len, op0, op1, out) ==
  [kind |-> kind, scenario |-> scenario, unit |-> unit, from |-> from, to |-> to,
   len |-> len, op0 |-> op0, op1 |-> op1, out |-> out]

Copy(len, a, b) ==
  Movement("move", "DMA_LOOPBACK", "KEEP", Nobody, Nobody, len, NoAddr, a, b)
Accumulate(len, a, b, c) ==
  Movement("move", "DMA_REDUCTION", "INTERNAL", Nobody, Nobody, len, a, b, c)
ReduceExt(len, a, b, c) ==
  Movement("move", "DMA_REDUCTION", "EXTERNAL", Nobody, Nobody, len, a, b, c)
ExtKernelStream(len, a, b) ==
  Movement("move", "DMA_EXT_LOOPBACK", "KEEP", Nobody, Nobody, len, NoAddr, a, b)
Transmit(d, len, a) ==
  Movement("move", "OFFCHIP_TX", "KEEP", Nobody, d, len, NoAddr, a, NoAddr)
Receive(s, len, b) ==
  Movement("move", "DMA_LOOPBACK", "KEEP", s, Nobody, len, NoAddr, NoAddr, b)
ReceiveAndAccumulate(s, len, a, b) ==
  Movement("move", "DMA_REDUCTION", "INTERNAL", s, Nobody, len, a, NoAddr, b)
ReceiveAndReduce(s, d, len, a) ==
  Movement("move", "OFFCHIP_REDUCTION", "INTERNAL", s, d, len, a, NoAddr, NoAddr)
Relay(s, d, len) ==
  Movement("move", "OFFCHIP_TX", "KEEP", s, d, len, NoAddr, NoAddr, NoAddr)

(* Steps of broadcast and scatter: configure the switch, send one segment  *)
(* without waiting for the packetizer, wait for it.                        *)
CfgSwitch == Movement("cfg", "OFFCHIP_TX", "KEEP", Nobody, Nobody, 0, NoAddr, NoAddr, NoAddr)
Single(d, len, a) == Movement("single", "KEEP", "KEEP", Nobody, d, len, NoAddr, a, NoAddr)
AckPacketizer(d) == Movement("ack", "KEEP", "KEEP", Nobody, d, 0, NoAddr, NoAddr, NoAddr)

-----------------------------------------------------------------------------

(* What dma_movement and the steps beside it are told. A sum of the        *)
(* internal unit goes where the result goes.                               *)
SumScenario(to) == IF to = Nobody THEN "DMA_REDUCTION" ELSE "OFFCHIP_REDUCTION"

Movements ==
  {m \in [kind : {"move", "cfg", "single", "ack"},
          scenario : {"KEEP", "DMA_LOOPBACK", "OFFCHIP_TX", "DMA_REDUCTION",
                      "OFFCHIP_REDUCTION", "DMA_EXT_LOOPBACK"},
          unit : {"KEEP", "INTERNAL", "EXTERNAL"},
          from : Ranks \cup {Nobody}, to : Ranks \cup {Nobody}, len : Nat,
          op0 : [buf : {"none", "src", "dst"}, at : Nat],
          op1 : [buf : {"none", "src", "dst"}, at : Nat],
          out : [buf : {"none", "src", "dst"}, at : Nat]] :
     m.unit = "INTERNAL" => m.scenario = SumScenario(m.to)}

(* The hosts' calls are finite, and so is what a rank does for each.       *)
ASSUME ProgramAssumption ==
  \A n \in DOMAIN Scripts :
    /\ Len(Scripts[n]) \in Nat /\ DOMAIN Scripts[n] = 1 .. Len(Scripts[n])
    /\ \A i \in DOMAIN Scripts[n], r \in Ranks :
         Program(Scripts[n][i], r) \in Seq(Movements)

Plan == [n \in DOMAIN Scripts |-> [i \in DOMAIN Scripts[n] |->
          [r \in Ranks |-> Program(Scripts[n][i], r)]]]

Calls  == Scripts[script]
Ops(r) == Plan[script][calls[r] + 1][r]
Op(r)  == Ops(r)[pc[r]]

(* segment(): how many, and how long each is.                              *)
Segs(len) == CeilDiv(len, TxnSize)
SegLen(len, k) == IF len - k * TxnSize < TxnSize THEN len - k * TxnSize ELSE TxnSize

(* The segments that rank r moves in script n: the numbers of the call, of *)
(* the movement and of the segment. Those sent to d, taken from s, and     *)
(* sent at all; and the movements that wait for a status.                  *)
Pieces(n, r) ==
  UNION {UNION {{<<i, j, k>> : k \in 0 .. Segs(Plan[n][i][r][j].len) - 1} :
                j \in DOMAIN Plan[n][i][r]} : i \in DOMAIN Plan[n]}
OpOf(n, r, x) == Plan[n][x[1]][r][x[2]]

SentTo(n, r, d)    == {x \in Pieces(n, r) : OpOf(n, r, x).to = d}
TakenFrom(n, r, s) == {x \in Pieces(n, r) : OpOf(n, r, x).from = s}
Posted(n, r)       == {x \in Pieces(n, r) : OpOf(n, r, x).to # Nobody}
AckedAtOnce(n, r)  == {x \in Posted(n, r) : OpOf(n, r, x).kind = "move"}
AckedLater(n, r) ==
  UNION {{<<i, j, 0>> : j \in {m \in DOMAIN Plan[n][i][r] : Plan[n][i][r][m].kind = "ack"}} :
         i \in DOMAIN Plan[n]}

(* What a rank sends to another is what this one takes from it, and it     *)
(* waits for as many statuses as it sends segments.                        *)
ASSUME BalanceAssumption ==
  \A n \in DOMAIN Scripts, r \in Ranks :
    /\ \A d \in Ranks : Cardinality(SentTo(n, r, d)) = Cardinality(TakenFrom(n, d, r))
    /\ Cardinality(Posted(n, r))
         = Cardinality(AckedAtOnce(n, r)) + Cardinality(AckedLater(n, r))

EngineInit ==
  /\ script \in DOMAIN Scripts
  /\ calls = [r \in Ranks |-> 0] /\ pc = [r \in Ranks |-> 0]
  /\ taken = [r \in Ranks |-> 0] /\ moved = taken /\ acked = taken
  /\ main = [r \in Ranks |-> Routes({})] /\ asw = [r \in Ranks |-> "none"]
  /\ words = [r \in Ranks |-> 0]
  /\ held = [r \in Ranks |-> <<>>] /\ pool = held /\ sts = held
  /\ link = [s \in Ranks |-> [d \in Ranks |-> <<>>]]
  /\ dst = [r \in Ranks |-> [o \in 0 .. MemSize - 1 |-> Old(r, o)]]

(* A movement begins: cfg_switch, start_arith.                             *)
Begin(r, op, i) ==
  /\ pc' = [pc EXCEPT ![r] = i]
  /\ main' = [main EXCEPT ![r] = SwitchTo(@, op.scenario)]
  /\ asw' = [asw EXCEPT ![r] = IF op.unit = "KEEP" THEN @ ELSE op.unit]
  /\ words' = [words EXCEPT ![r] = IF op.unit = "INTERNAL" THEN StartArith(op.len) ELSE @]
  /\ taken' = [taken EXCEPT ![r] = 0] /\ moved' = [moved EXCEPT ![r] = 0]
  /\ acked' = [acked EXCEPT ![r] = 0]

(* finalize_call.                                                          *)
Return(r) ==
  /\ calls' = [calls EXCEPT ![r] = @ + 1]
  /\ pc' = [pc EXCEPT ![r] = 0]
  /\ taken' = [taken EXCEPT ![r] = 0] /\ moved' = [moved EXCEPT ![r] = 0]
  /\ acked' = [acked EXCEPT ![r] = 0]
  /\ UNCHANGED <<main, asw, words>>

(* main takes the next call, with a destination buffer of its own.         *)
StartCall(r) ==
  /\ pc[r] = 0 /\ calls[r] < Len(Calls)
  /\ dst' = [dst EXCEPT ![r] = [o \in 0 .. MemSize - 1 |-> Old(r, o)]]
  /\ IF Ops(r) = <<>> THEN Return(r) ELSE Begin(r, Ops(r)[1], 1) /\ UNCHANGED calls
  /\ UNCHANGED <<script, held, pool, sts, link>>

Out(r) == IF Op(r).kind = "single" THEN 1 ELSE MaxInFlight

(* The oldest received segment of a rank; the receive matches its length.  *)
From(r, s) == {i \in DOMAIN pool[r] : pool[r][i].src = s}
Oldest(r, s) == CHOOSE i \in From(r, s) : \A j \in From(r, s) : i <= j

Without(q, i) == SubSeq(q, 1, i - 1) \o SubSeq(q, i + 1, Len(q))

(* Issue a segment: claim the spare buffer that holds it, if any is read,  *)
(* and start_dma.                                                          *)
Take(r) ==
  /\ pc[r] # 0 /\ taken[r] < Segs(Op(r).len) /\ taken[r] - acked[r] < Out(r)
  /\ IF Op(r).from = Nobody THEN UNCHANGED <<held, pool>>
     ELSE /\ From(r, Op(r).from) # {}
          /\ LET i == Oldest(r, Op(r).from) IN
               /\ Len(pool[r][i].vals) = SegLen(Op(r).len, taken[r])
               /\ held' = [held EXCEPT ![r] = Append(@, pool[r][i])]
               /\ pool' = [pool EXCEPT ![r] = Without(@, i)]
  /\ taken' = [taken EXCEPT ![r] = @ + 1]
  /\ UNCHANGED <<script, calls, pc, acked, moved, main, asw, words, sts, link, dst>>

(* The cells of segment k of the operand at address a.                     *)
Read(r, a, len, k) ==
  [i \in 1 .. SegLen(len, k) |->
     LET o == a.at + k * TxnSize + i - 1
     IN IF a.buf = "src" THEN Src(r, o) ELSE dst[r][o]]

Written(mem, o, vals) ==
  [x \in DOMAIN mem |-> IF x >= o /\ x < o + Len(vals) THEN vals[x - o + 1] ELSE mem[x]]

(* The DMAs execute the next segment: what they read goes where the        *)
(* switches send it. reduce_arith takes the words it was started for.      *)
Move(r) ==
  /\ moved[r] < taken[r]
  /\ LET op == Op(r)
         k == moved[r]
         a == IF op.op0.buf = "none" THEN <<>> ELSE Read(r, op.op0, op.len, k)
         b == IF op.from = Nobody THEN Read(r, op.op1, op.len, k)
              ELSE held[r][k - acked[r] + 1].vals
         p == IF op.to = Nobody THEN "DMA1_TX" ELSE TxPort
         vals == Delivered(main[r], p, a, b)
         n == IF main[r][p] = "ARITH_RES" /\ asw[r] = "INTERNAL"
              THEN CeilDiv(SegLen(op.len, k), WordSize) ELSE 0
     IN /\ vals # <<>> /\ words[r] >= n
        /\ words' = [words EXCEPT ![r] = @ - n]
        /\ IF op.to = Nobody
           THEN /\ dst' = [dst EXCEPT ![r] = Written(@, op.out.at + k * TxnSize, vals)]
                /\ UNCHANGED <<link, sts>>
           ELSE /\ Len(link[r][op.to]) < Window
                /\ link' = [link EXCEPT ![r][op.to] = Append(@, [src |-> r, vals |-> vals])]
                /\ sts' = [sts EXCEPT ![r] = Append(@, op.to)]
                /\ UNCHANGED dst
  /\ moved' = [moved EXCEPT ![r] = @ + 1]
  /\ UNCHANGED <<fwVars, main, asw, held, pool>>

(* Mutant of MustAck: acknowledge only once everything is issued.          *)
MustAckAtEnd(r) == taken[r] = Segs(Op(r).len)

MustAck(r) == taken[r] = Segs(Op(r).len) \/ taken[r] - acked[r] = Out(r)

(* Mutant of Ack: the packetizer's status is left in its queue.            *)
AckDmaOnly(r) ==
  /\ pc[r] # 0 /\ MustAck(r) /\ acked[r] < moved[r]
  /\ held' = IF Op(r).from = Nobody THEN held ELSE [held EXCEPT ![r] = Tail(@)]
  /\ acked' = [acked EXCEPT ![r] = @ + 1]
  /\ UNCHANGED <<script, calls, pc, taken, moved, main, asw, words, pool, sts, link, dst>>

(* Acknowledge the oldest segment, ack_dma and ack_packetizer, and free    *)
(* its spare buffer. What is sent with "single" is acknowledged later.     *)
Ack(r) ==
  /\ pc[r] # 0 /\ MustAck(r) /\ acked[r] < moved[r]
  /\ IF Op(r).kind = "move" /\ Op(r).to # Nobody
     THEN /\ sts[r] # <<>> /\ Head(sts[r]) = Op(r).to
          /\ sts' = [sts EXCEPT ![r] = Tail(@)]
     ELSE UNCHANGED sts
  /\ held' = IF Op(r).from = Nobody THEN held ELSE [held EXCEPT ![r] = Tail(@)]
  /\ acked' = [acked EXCEPT ![r] = @ + 1]
  /\ UNCHANGED <<script, calls, pc, taken, moved, main, asw, words, pool, link, dst>>

(* Mutant of Finished: the call goes on with transfers under way.          *)
FinishedIssuing(r) == taken[r] = Segs(Op(r).len)

(* wait_arith ends a movement that used the unit.                          *)
Finished(r) ==
  /\ acked[r] = Segs(Op(r).len)
  /\ Op(r).unit = "INTERNAL" => words[r] = 0

(* The movement is complete: the next one, or the end of the call.         *)
FinishOp(r) ==
  /\ pc[r] # 0 /\ Finished(r)
  /\ IF Op(r).kind = "ack"
     THEN /\ sts[r] # <<>> /\ Head(sts[r]) = Op(r).to
          /\ sts' = [sts EXCEPT ![r] = Tail(@)]
     ELSE UNCHANGED sts
  /\ IF pc[r] = Len(Ops(r)) THEN Return(r)
     ELSE Begin(r, Ops(r)[pc[r] + 1], pc[r] + 1) /\ UNCHANGED calls
  /\ UNCHANGED <<script, held, pool, link, dst>>

(* A segment reaches rank d and is stored, if a spare buffer is free.      *)
Arrive(s, d) ==
  /\ link[s][d] # <<>> /\ Len(pool[d]) + Len(held[d]) < NBufs
  /\ pool' = [pool EXCEPT ![d] = Append(@, Head(link[s][d]))]
  /\ link' = [link EXCEPT ![s][d] = Tail(@)]
  /\ UNCHANGED <<fwVars, moved, main, asw, words, held, sts, dst>>

AllReturned == \A r \in Ranks : calls[r] = Len(Calls)

EngineNext ==
  \/ \E r \in Ranks : StartCall(r) \/ Take(r) \/ Ack(r) \/ FinishOp(r) \/ Move(r)
  \/ \E s, d \in Ranks : Arrive(s, d)

(* Whatever can move on, a processor, a DMA or the network, something      *)
(* does in the end: calls are finite, so that no more is needed.           *)
EngineFairness == WF_vars(EngineNext)

EngineSpec == EngineInit /\ [][EngineNext]_vars /\ EngineFairness

-----------------------------------------------------------------------------

(* The switches are not set while a transfer is under way: a stream that   *)
(* is routed anew in the middle loses or misplaces words (cfg_switch is    *)
(* called with no synchronisation but the acknowledges before it).         *)
SwitchQuiet ==
  [][\A r \in Ranks :
       main'[r] # main[r] \/ asw'[r] # asw[r] =>
         /\ \A k \in {taken[r], moved[r]} : k = acked[r]
         /\ words[r] = 0]_vars

(* start_arith's count of words is what the segments stream: the unit      *)
(* never stops before the last of them, which would block the DMAs, and is *)
(* idle after it, or wait_arith would not return.                          *)
ArithCount ==
  \A r \in Ranks :
    IF pc[r] # 0 /\ Op(r).unit = "INTERNAL"
    THEN IF moved[r] = Segs(Op(r).len) THEN words[r] = 0
         ELSE words[r] >= CeilDiv(SegLen(Op(r).len, moved[r]), WordSize)
    ELSE words[r] = 0

(* When all calls returned nothing is left for the next ones to find: no   *)
(* segment in a buffer or in the network, no status.                       *)
NothingLeft ==
  AllReturned =>
    \A r \in Ranks :
      /\ pool[r] = <<>> /\ held[r] = <<>> /\ sts[r] = <<>>
      /\ \A d \in Ranks : link[r][d] = <<>>

(* Liveness: the calls of all ranks return.                                *)
CallsReturn == <>AllReturned

=============================================================================
