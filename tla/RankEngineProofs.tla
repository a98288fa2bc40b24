-------------------------- MODULE RankEngineProofs --------------------------
(***************************************************************************)
(* Proofs about RankEngine, for any number of ranks, any calls and any     *)
(* program of data movements, transaction size and number of segments in   *)
(* flight: when a movement is set up nothing of the last one is under way, *)
(* the arithmetic unit gets as many words as it was told, and what a rank  *)
(* sends is taken, in the network or in a spare buffer, so that nothing is *)
(* left when all calls have returned.                                      *)
(***************************************************************************)
EXTENDS RankEngine, ProofFacts, FiniteSetTheorems, TLAPS

Inputs == {"DMA0_RX", "DMA1_RX", "ARITH_RES", "EXT_KRNL", "none"}

(* The switches, and the counts of segments and words.                     *)
Types ==
  /\ script \in DOMAIN Scripts
  /\ calls \in [Ranks -> Nat] /\ pc \in [Ranks -> Nat]
  /\ taken \in [Ranks -> Nat] /\ moved \in [Ranks -> Nat] /\ acked \in [Ranks -> Nat]
  /\ main \in [Ranks -> [MainOutputs -> Inputs]]
  /\ asw \in [Ranks -> {"none", "INTERNAL", "EXTERNAL"}]
  /\ words \in [Ranks -> Nat]

(* Between calls nothing is under way.                                     *)
IdleClean ==
  \A r \in Ranks : pc[r] = 0 =>
    taken[r] = 0 /\ moved[r] = 0 /\ acked[r] = 0 /\ words[r] = 0

(* A movement is one of the call's; its segments are issued, executed and  *)
(* acknowledged in this order, and none beyond its last.                   *)
InMovement ==
  \A r \in Ranks : pc[r] # 0 =>
    /\ calls[r] < Len(Calls) /\ pc[r] \in DOMAIN Ops(r)
    /\ acked[r] <= moved[r] /\ moved[r] <= taken[r] /\ taken[r] <= Segs(Op(r).len)

(* Only a movement that uses the internal unit gives it words.             *)
WordsOfUnit ==
  \A r \in Ranks : pc[r] # 0 /\ Op(r).unit # "INTERNAL" => words[r] = 0

EngineInv == Types /\ IdleClean /\ InMovement /\ WordsOfUnit

-----------------------------------------------------------------------------

LEMMA CeilDivNat == \A n \in Nat, d \in Nat \ {0} : CeilDiv(n, d) \in Nat
  BY DEF CeilDiv

LEMMA StartArithNat == \A n \in Nat : StartArith(n) \in Nat
<1> SUFFICES ASSUME NEW n \in Nat PROVE StartArith(n) \in Nat
  OBVIOUS
<1>1. n \div TxnSize \in Nat /\ n % TxnSize \in Nat
  BY EngineAssumption
<1>2. CeilDiv(TxnSize, WordSize) \in Nat /\ CeilDiv(n % TxnSize, WordSize) \in Nat
  BY <1>1, CeilDivNat, EngineAssumption
<1> HIDE DEF CeilDiv
<1>3. \A a, b, c \in Nat : a * b + c \in Nat
  OBVIOUS
<1>4. QED
  BY <1>1, <1>2, <1>3 DEF StartArith

(* A call's movements, as long as there is a call.                         *)
LEMMA OpsType ==
  ASSUME NEW r \in Ranks, script \in DOMAIN Scripts, calls[r] \in Nat,
         calls[r] < Len(Calls)
  PROVE  Ops(r) \in Seq(Movements)
<1>1. calls[r] + 1 \in DOMAIN Scripts[script]
  BY ProgramAssumption DEF Calls
<1>2. Plan[script][calls[r] + 1][r] = Program(Scripts[script][calls[r] + 1], r)
  BY <1>1 DEF Plan
<1>3. QED
  BY <1>1, <1>2, ProgramAssumption DEF Ops

LEMMA RoutesType ==
  \A paths \in SUBSET (MainOutputs \X Inputs) : Routes(paths) \in [MainOutputs -> Inputs]
<1> SUFFICES ASSUME NEW paths \in SUBSET (MainOutputs \X Inputs), NEW p \in MainOutputs
             PROVE  (IF \E d \in paths : d[1] = p
                     THEN (CHOOSE d \in paths : d[1] = p)[2] ELSE "none") \in Inputs
  BY DEF Routes
<1>1. CASE \E d \in paths : d[1] = p
  <2>1. (CHOOSE d \in paths : d[1] = p) \in paths
    BY <1>1
  <2>2. (CHOOSE d \in paths : d[1] = p) \in MainOutputs \X Inputs
    BY <2>1
  <2>3. QED
    BY <1>1, <2>2
<1>2. CASE ~ \E d \in paths : d[1] = p
  BY <1>2 DEF Inputs
<1>3. QED
  BY <1>1, <1>2

LEMMA SwitchToType ==
  ASSUME NEW now \in [MainOutputs -> Inputs], NEW op \in Movements
  PROVE  SwitchTo(now, op.scenario) \in [MainOutputs -> Inputs]
<1>1. CASE op.scenario = "KEEP"
  BY <1>1 DEF SwitchTo
<1>2. CASE op.scenario # "KEEP"
  <2>1. op.scenario \in {"DMA_LOOPBACK", "OFFCHIP_TX", "DMA_REDUCTION",
                         "OFFCHIP_REDUCTION", "DMA_EXT_LOOPBACK"}
    BY <1>2 DEF Movements
  <2>2. Datapaths(op.scenario) \in SUBSET (MainOutputs \X Inputs)
    BY <2>1, EngineAssumption DEF Datapaths, MainOutputs, Inputs
  <2>3. QED
    BY <1>2, <2>2, RoutesType DEF SwitchTo
<1>3. QED
  BY <1>1, <1>2

-----------------------------------------------------------------------------

LEMMA InitInv == EngineInit => EngineInv
<1> SUFFICES ASSUME EngineInit PROVE EngineInv
  OBVIOUS
<1>1. Routes({}) \in [MainOutputs -> Inputs]
  BY RoutesType
<1>2. Types
  BY <1>1 DEF EngineInit, Types
<1>3. QED
  BY <1>2 DEF EngineInit, EngineInv, IdleClean, InMovement, WordsOfUnit

(* A movement begins when nothing is under way.                            *)
LEMMA BeginInv ==
  ASSUME EngineInv, NEW r \in Ranks, NEW i \in DOMAIN Ops(r), calls[r] < Len(Calls),
         Begin(r, Ops(r)[i], i), words[r] = 0, UNCHANGED <<script, calls>>
  PROVE  EngineInv'
<1> DEFINE op == Ops(r)[i]
<1> USE DEF EngineInv
<1>1. Ops(r) \in Seq(Movements)
  BY OpsType DEF Types
<1>2. op \in Movements /\ i \in Nat \ {0}
  BY <1>1
<1>3. op.len \in Nat /\ op.unit \in {"KEEP", "INTERNAL", "EXTERNAL"}
  BY <1>2 DEF Movements
<1>4. SwitchTo(main[r], op.scenario) \in [MainOutputs -> Inputs]
  BY <1>2, SwitchToType DEF Types
<1>5. StartArith(op.len) \in Nat
  BY <1>3, StartArithNat
<1>6. Types'
  BY <1>2, <1>3, <1>4, <1>5 DEF Types, Begin
<1>7. /\ \A q \in Ranks : Ops(q)' = Ops(q)
      /\ Calls' = Calls
  BY DEF Ops, Calls
<1>8. /\ pc'[r] = i /\ Op(r)' = op
      /\ taken'[r] = 0 /\ moved'[r] = 0 /\ acked'[r] = 0
      /\ op.unit # "INTERNAL" => words'[r] = 0
  BY <1>7 DEF Types, Begin, Op
<1>9. \A q \in Ranks \ {r} :
        /\ pc'[q] = pc[q] /\ taken'[q] = taken[q] /\ moved'[q] = moved[q]
        /\ acked'[q] = acked[q] /\ words'[q] = words[q]
  BY DEF Types, Begin
<1>9a. \A q \in Ranks \ {r} : Op(q)' = Op(q)
  BY <1>7, <1>9 DEF Op
<1>10. Segs(op.len) \in Nat
  BY <1>3, CeilDivNat, EngineAssumption DEF Segs
<1>11. IdleClean'
  BY <1>2, <1>8, <1>9 DEF IdleClean
<1>12. InMovement'
  <2> SUFFICES ASSUME NEW q \in Ranks, pc'[q] # 0
               PROVE  /\ calls'[q] < Len(Calls)' /\ pc'[q] \in DOMAIN Ops(q)'
                      /\ acked'[q] <= moved'[q] /\ moved'[q] <= taken'[q]
                      /\ taken'[q] <= Segs(Op(q)'.len)
    BY DEF InMovement, Segs
  <2>1. CASE q = r
    BY <2>1, <1>7, <1>8, <1>10
  <2>2. CASE q # r
    BY <2>2, <1>7, <1>9, <1>9a DEF InMovement
  <2>3. QED
    BY <2>1, <2>2
<1>13. WordsOfUnit'
  BY <1>8, <1>9, <1>9a DEF WordsOfUnit
<1>14. QED
  BY <1>6, <1>11, <1>12, <1>13

LEMMA ReturnInv ==
  ASSUME EngineInv, NEW r \in Ranks, Return(r), words[r] = 0, UNCHANGED script
  PROVE  EngineInv'
<1> USE DEF EngineInv
<1>1. Types'
  BY DEF Types, Return
<1>2. /\ pc'[r] = 0 /\ taken'[r] = 0 /\ moved'[r] = 0 /\ acked'[r] = 0 /\ words'[r] = 0
      /\ \A q \in Ranks \ {r} :
           /\ calls'[q] = calls[q] /\ pc'[q] = pc[q] /\ taken'[q] = taken[q]
           /\ moved'[q] = moved[q] /\ acked'[q] = acked[q] /\ words'[q] = words[q]
  BY DEF Types, Return
<1>3. /\ Calls' = Calls
      /\ \A q \in Ranks \ {r} : Ops(q)' = Ops(q) /\ Op(q)' = Op(q)
  BY <1>2 DEF Ops, Op, Calls
<1>4. IdleClean'
  BY <1>2 DEF IdleClean
<1>5. InMovement'
  BY <1>2, <1>3 DEF InMovement, Segs
<1>6. WordsOfUnit'
  BY <1>2, <1>3 DEF WordsOfUnit
<1>7. QED
  BY <1>1, <1>4, <1>5, <1>6

(* A movement ends when all its segments are acknowledged.                 *)
LEMMA FinishedQuiet ==
  ASSUME EngineInv, NEW r \in Ranks, pc[r] # 0, Finished(r)
  PROVE  taken[r] = acked[r] /\ moved[r] = acked[r] /\ words[r] = 0
<1>1. Ops(r) \in Seq(Movements) /\ pc[r] \in DOMAIN Ops(r)
  BY OpsType DEF EngineInv, Types, InMovement
<1>2. Op(r) \in Movements
  BY <1>1 DEF Op
<1>2a. Op(r).len \in Nat
  BY <1>2 DEF Movements
<1>3. Segs(Op(r).len) \in Nat
  BY <1>2a, CeilDivNat, EngineAssumption DEF Segs
<1>4. taken[r] = acked[r] /\ moved[r] = acked[r]
  BY <1>3 DEF EngineInv, Types, InMovement, Finished
<1>5. words[r] = 0
  BY DEF EngineInv, WordsOfUnit, Finished
<1>6. QED
  BY <1>4, <1>5

(* The steps within a movement count segments and words.                   *)
LEMMA CountInv ==
  ASSUME EngineInv, NEW r \in Ranks, UNCHANGED <<script, calls, pc, main, asw>>,
         taken' \in [Ranks -> Nat], moved' \in [Ranks -> Nat],
         acked' \in [Ranks -> Nat], words' \in [Ranks -> Nat],
         pc[r] # 0,
         acked'[r] <= moved'[r], moved'[r] <= taken'[r], taken'[r] <= Segs(Op(r).len),
         words[r] = 0 => words'[r] = 0,
         \A q \in Ranks \ {r} :
           /\ taken'[q] = taken[q] /\ moved'[q] = moved[q]
           /\ acked'[q] = acked[q] /\ words'[q] = words[q]
  PROVE  EngineInv'
<1> USE DEF EngineInv
<1>1. Types'
  BY DEF Types
<1>2. /\ Calls' = Calls
      /\ \A q \in Ranks : Ops(q)' = Ops(q) /\ Op(q)' = Op(q)
  BY DEF Ops, Op, Calls
<1>3. IdleClean'
  BY DEF IdleClean
<1>4. InMovement'
  <2> SUFFICES ASSUME NEW q \in Ranks, pc[q] # 0
               PROVE  /\ calls[q] < Len(Calls) /\ pc[q] \in DOMAIN Ops(q)
                      /\ acked'[q] <= moved'[q] /\ moved'[q] <= taken'[q]
                      /\ taken'[q] <= Segs(Op(q).len)
    BY <1>2 DEF InMovement, Segs
  <2>1. QED
    BY DEF InMovement
<1>5. WordsOfUnit'
  BY <1>2 DEF WordsOfUnit
<1>6. QED
  BY <1>1, <1>3, <1>4, <1>5

LEMMA TakeInv == \A r \in Ranks : EngineInv /\ Take(r) => EngineInv'
<1> SUFFICES ASSUME NEW r \in Ranks, EngineInv, Take(r) PROVE EngineInv'
  OBVIOUS
<1>1. Segs(Op(r).len) \in Nat /\ taken'[r] = taken[r] + 1 /\ taken'[r] <= Segs(Op(r).len)
  <2>1. Op(r) \in Movements
    BY OpsType DEF Take, EngineInv, Types, InMovement, Op
  <2>2. Op(r).len \in Nat
    BY <2>1 DEF Movements
  <2>3. Segs(Op(r).len) \in Nat
    BY <2>2, CeilDivNat, EngineAssumption DEF Segs
  <2>4. QED
    BY <2>3 DEF Take, EngineInv, Types
<1>2. taken' \in [Ranks -> Nat] /\ \A q \in Ranks \ {r} : taken'[q] = taken[q]
  BY DEF Take, EngineInv, Types
<1>3. UNCHANGED <<script, calls, pc, moved, acked, words, main, asw>> /\ pc[r] # 0
  BY DEF Take
<1>4. acked'[r] <= moved'[r] /\ moved'[r] <= taken'[r]
  BY <1>1, <1>3 DEF EngineInv, Types, InMovement
<1>5. QED
  BY <1>1, <1>2, <1>3, <1>4, CountInv DEF EngineInv, Types

(* A segment of a movement is not of negative length.                      *)
LEMMA SegLenNat ==
  ASSUME NEW len \in Nat, NEW k \in Nat, k < Segs(len)
  PROVE  SegLen(len, k) \in Nat
<1> DEFINE q == (len + TxnSize - 1) \div TxnSize
<1> USE EngineAssumption
<1>1. len + TxnSize - 1 \in Nat
  OBVIOUS
<1>2. q \in Nat /\ q * TxnSize <= len + TxnSize - 1
  BY <1>1
<1>3. k + 1 <= q
  BY <1>2 DEF Segs, CeilDiv
<1> HIDE DEF q
<1>4. (k + 1) * TxnSize <= q * TxnSize
  BY <1>2, <1>3
<1>5. (k + 1) * TxnSize = k * TxnSize + TxnSize /\ k * TxnSize \in Nat
  OBVIOUS
<1>6. k * TxnSize <= len - 1
  BY <1>2, <1>4, <1>5
<1>7. QED
  BY <1>5, <1>6 DEF SegLen

LEMMA MoveInv == \A r \in Ranks : EngineInv /\ Move(r) => EngineInv'
<1> SUFFICES ASSUME NEW r \in Ranks, EngineInv, Move(r) PROVE EngineInv'
  OBVIOUS
<1> DEFINE w == CeilDiv(SegLen(Op(r).len, moved[r]), WordSize)
<1>1. /\ moved[r] < taken[r] /\ moved' = [moved EXCEPT ![r] = @ + 1]
      /\ UNCHANGED <<script, calls, pc, taken, acked, main, asw>>
      /\ \E n \in {w, 0} : words[r] >= n /\ words' = [words EXCEPT ![r] = @ - n]
  BY Zenon DEF Move, fwVars
<1>2. pc[r] # 0 /\ taken[r] \in Nat /\ moved[r] \in Nat /\ acked[r] \in Nat
  BY <1>1 DEF EngineInv, Types, IdleClean
<1>3. Op(r) \in Movements
  BY <1>2, OpsType DEF EngineInv, Types, InMovement, Op
<1>4. Op(r).len \in Nat
  BY <1>3 DEF Movements
<1>5. Segs(Op(r).len) \in Nat /\ moved[r] < Segs(Op(r).len)
  BY <1>1, <1>2, <1>4, CeilDivNat, EngineAssumption DEF Segs, EngineInv, InMovement
<1>6. w \in Nat
  BY <1>2, <1>4, <1>5, SegLenNat, CeilDivNat, EngineAssumption
<1> HIDE DEF w
<1>7. PICK n \in Nat : words[r] >= n /\ words' = [words EXCEPT ![r] = @ - n]
  BY <1>1, <1>6
<1>8. /\ words' \in [Ranks -> Nat] /\ (words[r] = 0 => words'[r] = 0)
      /\ \A q \in Ranks \ {r} : words'[q] = words[q]
  BY <1>7 DEF EngineInv, Types
<1>9. /\ moved' \in [Ranks -> Nat] /\ moved'[r] = moved[r] + 1
      /\ \A q \in Ranks \ {r} : moved'[q] = moved[q]
  BY <1>1 DEF EngineInv, Types
<1>10. acked'[r] <= moved'[r] /\ moved'[r] <= taken'[r] /\ taken'[r] <= Segs(Op(r).len)
  BY <1>1, <1>2, <1>9 DEF EngineInv, InMovement
<1>11. taken' \in [Ranks -> Nat] /\ acked' \in [Ranks -> Nat]
  BY <1>1 DEF EngineInv, Types
<1>12. QED
  BY <1>1, <1>2, <1>8, <1>9, <1>10, <1>11, CountInv

LEMMA AckInv == \A r \in Ranks : EngineInv /\ Ack(r) => EngineInv'
<1> SUFFICES ASSUME NEW r \in Ranks, EngineInv, Ack(r) PROVE EngineInv'
  OBVIOUS
<1>1. /\ pc[r] # 0 /\ acked[r] < moved[r] /\ acked' = [acked EXCEPT ![r] = @ + 1]
      /\ UNCHANGED <<script, calls, pc, taken, moved, main, asw, words>>
  BY DEF Ack
<1>2. /\ acked' \in [Ranks -> Nat] /\ acked'[r] = acked[r] + 1
      /\ \A q \in Ranks \ {r} : acked'[q] = acked[q]
  BY <1>1 DEF EngineInv, Types
<1>3. acked'[r] <= moved'[r] /\ moved'[r] <= taken'[r] /\ taken'[r] <= Segs(Op(r).len)
  BY <1>1, <1>2 DEF EngineInv, Types, InMovement
<1>4. /\ taken' \in [Ranks -> Nat] /\ moved' \in [Ranks -> Nat]
      /\ words' \in [Ranks -> Nat] /\ (words[r] = 0 => words'[r] = 0)
  BY <1>1 DEF EngineInv, Types
<1>5. QED
  BY <1>1, <1>2, <1>3, <1>4, CountInv

LEMMA FinishOpInv == \A r \in Ranks : EngineInv /\ FinishOp(r) => EngineInv'
<1> SUFFICES ASSUME NEW r \in Ranks, EngineInv, FinishOp(r) PROVE EngineInv'
  OBVIOUS
<1>1. words[r] = 0 /\ pc[r] # 0 /\ UNCHANGED script
  BY FinishedQuiet DEF FinishOp
<1>2. CASE pc[r] = Len(Ops(r))
  BY <1>1, <1>2, ReturnInv DEF FinishOp
<1>3. CASE pc[r] # Len(Ops(r))
  <2>1. calls[r] < Len(Calls) /\ pc[r] \in DOMAIN Ops(r)
    BY <1>1 DEF EngineInv, InMovement
  <2>2. Ops(r) \in Seq(Movements)
    BY <2>1, OpsType DEF EngineInv, Types
  <2>3. pc[r] + 1 \in DOMAIN Ops(r)
    BY <1>3, <2>1, <2>2
  <2>4. Begin(r, Ops(r)[pc[r] + 1], pc[r] + 1) /\ UNCHANGED calls
    BY <1>3 DEF FinishOp
  <2>5. QED
    BY <1>1, <2>1, <2>3, <2>4, BeginInv
<1>4. QED
  BY <1>2, <1>3

LEMMA StartCallInv == \A r \in Ranks : EngineInv /\ StartCall(r) => EngineInv'
<1> SUFFICES ASSUME NEW r \in Ranks, EngineInv, StartCall(r) PROVE EngineInv'
  OBVIOUS
<1>1. words[r] = 0 /\ calls[r] < Len(Calls) /\ UNCHANGED script
  BY DEF StartCall, EngineInv, IdleClean
<1>2. CASE Ops(r) = <<>>
  BY <1>1, <1>2, ReturnInv DEF StartCall
<1>3. CASE Ops(r) # <<>>
  <2>1. Ops(r) \in Seq(Movements)
    BY <1>1, OpsType DEF EngineInv, Types
  <2>2. 1 \in DOMAIN Ops(r)
    BY <1>3, <2>1
  <2>3. Begin(r, Ops(r)[1], 1) /\ UNCHANGED calls
    BY <1>3 DEF StartCall
  <2>4. QED
    BY <1>1, <2>2, <2>3, BeginInv
<1>4. QED
  BY <1>2, <1>3

(* What leaves the counts, the switches and the program alone.             *)
LEMMA StutterInv ==
  EngineInv /\ UNCHANGED <<fwVars, moved, main, asw, words>> => EngineInv'
  BY DEF EngineInv, Types, IdleClean, InMovement, WordsOfUnit, fwVars, Calls, Ops, Op, Segs

LEMMA StepInv == EngineInv /\ [EngineNext]_vars => EngineInv'
<1> SUFFICES ASSUME EngineInv, [EngineNext]_vars PROVE EngineInv'
  OBVIOUS
<1>1. CASE \E r \in Ranks : StartCall(r) \/ Take(r) \/ Ack(r) \/ FinishOp(r) \/ Move(r)
  BY <1>1, StartCallInv, TakeInv, AckInv, FinishOpInv, MoveInv
<1>2. CASE \E s, d \in Ranks : Arrive(s, d)
  BY <1>2, StutterInv DEF Arrive
<1>3. CASE UNCHANGED vars
  BY <1>3, StutterInv DEF vars
<1>4. QED
  BY <1>1, <1>2, <1>3 DEF EngineNext

-----------------------------------------------------------------------------
(* Words of the internal unit                                              *)

(* The quotient that rounds up.                                            *)
LEMMA RoundedUp ==
  ASSUME NEW b \in Nat, NEW d \in Nat, d > 0, NEW k \in Nat, k * d < b + d, b <= k * d
  PROVE  CeilDiv(b, d) = k
<1>1. PICK n \in Nat : n = b + d - 1
  OBVIOUS
<1>2. n \div d \in Nat /\ n <= (n \div d) * d + d - 1 /\ (n \div d) * d <= n
  BY <1>1
<1>3. PICK q \in Nat : q = n \div d /\ n <= q * d + d - 1 /\ q * d <= n
  BY <1>2
<1>4. q * d < b + d /\ b <= q * d
  <2>1. q * d \in Nat
    OBVIOUS
  <2>2. QED
    BY <1>1, <1>3, <2>1
<1>5. ASSUME NEW x \in Nat, NEW y \in Nat, x < y, b <= x * d, y * d < b + d PROVE FALSE
  <2>1. y * d = x * d + (y - x) * d
    OBVIOUS
  <2>2. (y - x) * d = d + (y - x - 1) * d /\ (y - x - 1) * d \in Nat
    BY <1>5
  <2>3. x * d \in Nat /\ y * d \in Nat
    OBVIOUS
  <2>4. QED
    BY <1>5, <2>1, <2>2, <2>3
<1>6. ~ (k < q) /\ ~ (q < k)
  BY <1>4, <1>5
<1>7. QED
  BY <1>1, <1>3, <1>6 DEF CeilDiv

(* Words that are still to come after k segments of a movement.            *)
WordsFrom(len, k) ==
  IF k <= len \div TxnSize
  THEN (len \div TxnSize - k) * CeilDiv(TxnSize, WordSize) + CeilDiv(len % TxnSize, WordSize)
  ELSE 0

(* All segments but the last are full; it has the rest, if there is any.   *)
LEMMA SegmentLengths ==
  ASSUME NEW len \in Nat, NEW q, q = len \div TxnSize, NEW e, e = len % TxnSize
  PROVE  /\ q \in Nat /\ e \in Nat
         /\ Segs(len) = IF e = 0 THEN q ELSE q + 1
         /\ \A k \in Nat : k < q => SegLen(len, k) = TxnSize
         /\ SegLen(len, q) = e
<1>1. TxnSize \in Nat /\ TxnSize > 0
  BY EngineAssumption
<1>2. q \in Nat /\ e \in Nat /\ e < TxnSize /\ len = q * TxnSize + e
  BY <1>1
<1>3. PICK m \in Nat : m = q * TxnSize
  BY <1>1, <1>2
<1>4. (q + 1) * TxnSize = m + TxnSize
  BY <1>1, <1>2, <1>3
<1>5. Segs(len) = IF e = 0 THEN q ELSE q + 1
  <2>1. CASE e = 0
    <3>1. q * TxnSize < len + TxnSize /\ len <= q * TxnSize
      BY <1>1, <1>2, <1>3, <2>1
    <3>2. QED
      BY <1>1, <1>2, <2>1, <3>1, RoundedUp DEF Segs
  <2>2. CASE e # 0
    <3>1. PICK h \in Nat : h = q + 1 /\ h * TxnSize < len + TxnSize /\ len <= h * TxnSize
      BY <1>1, <1>2, <1>3, <1>4, <2>2
    <3>2. QED
      BY <1>1, <2>2, <3>1, RoundedUp DEF Segs
  <2>3. QED
    BY <2>1, <2>2
<1>6. ASSUME NEW k \in Nat, k < q PROVE SegLen(len, k) = TxnSize
  <2>1. q * TxnSize = k * TxnSize + TxnSize + (q - k - 1) * TxnSize
    BY <1>1, <1>2
  <2>2. (q - k - 1) * TxnSize \in Nat /\ k * TxnSize \in Nat
    BY <1>1, <1>2, <1>6
  <2>3. ~ (len - k * TxnSize < TxnSize)
    BY <1>1, <1>2, <2>1, <2>2
  <2>4. QED
    BY <2>3 DEF SegLen
<1>7. SegLen(len, q) = e
  <2>1. len - q * TxnSize = e
    BY <1>2, <1>3
  <2>2. QED
    BY <1>2, <2>1 DEF SegLen
<1>8. QED
  BY <1>2, <1>5, <1>6, <1>7

(* start_arith counts them, and each segment takes its own.                *)
LEMMA WordsCounted ==
  ASSUME NEW len \in Nat
  PROVE  /\ WordsFrom(len, 0) = StartArith(len)
         /\ WordsFrom(len, Segs(len)) = 0
         /\ \A k \in Nat : k < Segs(len) =>
              /\ WordsFrom(len, k) = CeilDiv(SegLen(len, k), WordSize) + WordsFrom(len, k + 1)
              /\ CeilDiv(SegLen(len, k), WordSize) \in Nat
              /\ WordsFrom(len, k + 1) \in Nat
<1>1. PICK q \in Nat, e \in Nat :
        /\ q = len \div TxnSize /\ e = len % TxnSize
        /\ Segs(len) = IF e = 0 THEN q ELSE q + 1
        /\ \A k \in Nat : k < q => SegLen(len, k) = TxnSize
        /\ SegLen(len, q) = e
  BY SegmentLengths
<1>2. PICK w \in Nat, x \in Nat : w = CeilDiv(TxnSize, WordSize) /\ x = CeilDiv(e, WordSize)
  BY CeilDivNat, EngineAssumption
<1>3. e = 0 => x = 0
  <2>1. WordSize \in Nat /\ WordSize > 0 /\ 0 * WordSize = 0
    BY EngineAssumption
  <2>2. CeilDiv(0, WordSize) = 0
    BY <2>1, RoundedUp
  <2>3. QED
    BY <1>2, <2>2
<1>4. \A k \in Nat : WordsFrom(len, k) = IF k <= q THEN (q - k) * w + x ELSE 0
  BY <1>1, <1>2 DEF WordsFrom
<1>5. WordsFrom(len, 0) = StartArith(len)
  <2>1. 0 <= q /\ q - 0 = q
    OBVIOUS
  <2>2. StartArith(len) = q * w + x
    BY <1>1, <1>2 DEF StartArith
  <2>3. QED
    BY <1>4, <2>1, <2>2
<1>6. 0 * w + x = x /\ q - q = 0 /\ ~ (q + 1 <= q)
  OBVIOUS
<1>7. WordsFrom(len, q) = x /\ WordsFrom(len, q + 1) = 0
  BY <1>4, <1>6
<1>8. WordsFrom(len, Segs(len)) = 0
  BY <1>1, <1>3, <1>7
<1>9. ASSUME NEW k \in Nat, k < Segs(len)
      PROVE  /\ WordsFrom(len, k) = CeilDiv(SegLen(len, k), WordSize) + WordsFrom(len, k + 1)
             /\ CeilDiv(SegLen(len, k), WordSize) \in Nat
             /\ WordsFrom(len, k + 1) \in Nat
  <2>1. CASE k < q
    <3>1. SegLen(len, k) = TxnSize
      BY <1>1, <2>1
    <3>2. PICK h \in Nat : h = q - (k + 1) /\ q - k = h + 1
      BY <2>1
    <3>3. (h + 1) * w = h * w + w /\ h * w \in Nat
      OBVIOUS
    <3>4. WordsFrom(len, k) = (h + 1) * w + x /\ WordsFrom(len, k + 1) = h * w + x
      BY <1>4, <2>1, <3>2
    <3>5. QED
      BY <1>2, <3>1, <3>3, <3>4
  <2>2. CASE k = q
    BY <1>1, <1>2, <1>7, <2>2
  <2>3. QED
    BY <1>1, <1>9, <2>1, <2>2
<1>10. QED
  BY <1>5, <1>8, <1>9

(* A movement that uses the internal unit has its result routed to where   *)
(* it goes, and the unit has the words of the segments still to come.      *)
SumOutput(op) == IF op.to = Nobody THEN "DMA1_TX" ELSE TxPort

SumOf(r) ==
  pc[r] # 0 /\ Op(r).unit = "INTERNAL" =>
    /\ main[r][SumOutput(Op(r))] = "ARITH_RES" /\ asw[r] = "INTERNAL"
    /\ words[r] = WordsFrom(Op(r).len, moved[r])

Sums == \A r \in Ranks : SumOf(r)

LEMMA OpType ==
  ASSUME EngineInv, NEW r \in Ranks, pc[r] # 0
  PROVE  /\ Op(r) \in Movements /\ Op(r).len \in Nat /\ Segs(Op(r).len) \in Nat
         /\ moved[r] \in Nat /\ taken[r] \in Nat /\ words[r] \in Nat
         /\ moved[r] <= taken[r] /\ taken[r] <= Segs(Op(r).len)
<1>1. Ops(r) \in Seq(Movements) /\ pc[r] \in DOMAIN Ops(r)
  BY OpsType DEF EngineInv, Types, InMovement
<1>2. Op(r) \in Movements
  BY <1>1 DEF Op
<1>3. Op(r).len \in Nat
  BY <1>2 DEF Movements
<1>4. Segs(Op(r).len) \in Nat
  BY <1>3, CeilDivNat, EngineAssumption DEF Segs
<1>5. QED
  BY <1>2, <1>3, <1>4 DEF EngineInv, Types, InMovement

(* The routes of a sum.                                                    *)
LEMMA SumRouted ==
  ASSUME NEW now, NEW op \in Movements, op.unit = "INTERNAL"
  PROVE  SwitchTo(now, op.scenario)[SumOutput(op)] = "ARITH_RES"
<1>1. op.scenario = SumScenario(op.to)
  BY DEF Movements
<1>2. CASE op.to = Nobody
  <2>1. op.scenario = "DMA_REDUCTION" /\ SumOutput(op) = "DMA1_TX"
    BY <1>1, <1>2 DEF SumScenario, SumOutput
  <2>2. PICK paths : paths = Datapaths("DMA_REDUCTION")
    OBVIOUS
  <2>3. paths = {<<"ARITH_OP0", "DMA0_RX">>, <<"ARITH_OP1", "DMA1_RX">>,
                 <<"DMA1_TX", "ARITH_RES">>}
    BY <2>2 DEF Datapaths
  <2>4. \A d \in paths : d[1] = "DMA1_TX" <=> d = <<"DMA1_TX", "ARITH_RES">>
    BY <2>3
  <2>5. (CHOOSE d \in paths : d[1] = "DMA1_TX") = <<"DMA1_TX", "ARITH_RES">>
    BY <2>3, <2>4
  <2>6. Routes(paths)["DMA1_TX"] = "ARITH_RES"
    BY <2>3, <2>5 DEF Routes, MainOutputs
  <2>7. QED
    BY <2>1, <2>2, <2>6 DEF SwitchTo
<1>3. CASE op.to # Nobody
  <2>1. op.scenario = "OFFCHIP_REDUCTION" /\ SumOutput(op) = TxPort
    BY <1>1, <1>3 DEF SumScenario, SumOutput
  <2>2. PICK paths : paths = Datapaths("OFFCHIP_REDUCTION")
    OBVIOUS
  <2>3. paths = {<<"ARITH_OP0", "DMA0_RX">>, <<"ARITH_OP1", "DMA1_RX">>,
                 <<TxPort, "ARITH_RES">>}
    BY <2>2 DEF Datapaths
  <2>4. \A d \in paths : d[1] = TxPort <=> d = <<TxPort, "ARITH_RES">>
    BY <2>3, EngineAssumption
  <2>5. (CHOOSE d \in paths : d[1] = TxPort) = <<TxPort, "ARITH_RES">>
    BY <2>3, <2>4
  <2>6. Routes(paths)[TxPort] = "ARITH_RES"
    BY <2>3, <2>5, EngineAssumption DEF Routes, MainOutputs
  <2>7. QED
    BY <2>1, <2>2, <2>6 DEF SwitchTo
<1>4. QED
  BY <1>2, <1>3

LEMMA SumKept ==
  ASSUME NEW r \in Ranks, SumOf(r), script' = script, calls'[r] = calls[r], pc'[r] = pc[r],
         main'[r] = main[r], asw'[r] = asw[r], words'[r] = words[r], moved'[r] = moved[r]
  PROVE  SumOf(r)'
  BY DEF SumOf, Op, Ops

LEMMA SumBegun ==
  ASSUME EngineInv, NEW r \in Ranks, NEW i \in DOMAIN Ops(r), calls[r] < Len(Calls),
         Begin(r, Ops(r)[i], i), UNCHANGED <<script, calls>>
  PROVE  SumOf(r)'
<1>1. Ops(r) \in Seq(Movements)
  BY OpsType DEF EngineInv, Types
<1>2. PICK op \in Movements : op = Ops(r)[i]
  BY <1>1
<1>3. op.len \in Nat
  BY <1>2 DEF Movements
<1>4. /\ pc'[r] = i /\ Op(r)' = op /\ moved'[r] = 0
      /\ main'[r] = SwitchTo(main[r], op.scenario)
      /\ op.unit = "INTERNAL" => asw'[r] = "INTERNAL" /\ words'[r] = StartArith(op.len)
  BY <1>2 DEF Begin, Op, Ops, EngineInv, Types
<1>5. QED
  BY <1>3, <1>4, SumRouted, WordsCounted DEF SumOf, SumOutput

LEMMA SumReturned ==
  ASSUME EngineInv, NEW r \in Ranks, Return(r)
  PROVE  SumOf(r)'
<1>1. pc'[r] = 0
  BY DEF Return, EngineInv, Types
<1>2. QED
  BY <1>1 DEF SumOf

(* Each segment takes as many words as the unit was told.                  *)
LEMMA SumMoved ==
  ASSUME EngineInv, NEW r \in Ranks, SumOf(r), Move(r)
  PROVE  SumOf(r)'
<1> DEFINE w == CeilDiv(SegLen(Op(r).len, moved[r]), WordSize)
<1> DEFINE p == IF Op(r).to = Nobody THEN "DMA1_TX" ELSE TxPort
<1>1. /\ moved[r] < taken[r] /\ moved' = [moved EXCEPT ![r] = @ + 1]
      /\ UNCHANGED <<script, calls, pc, main, asw>>
      /\ words' = [words EXCEPT ![r] =
                     @ - (IF main[r][p] = "ARITH_RES" /\ asw[r] = "INTERNAL" THEN w ELSE 0)]
  BY Zenon DEF Move, fwVars
<1>2. pc[r] # 0
  BY <1>1 DEF EngineInv, Types, IdleClean
<1>3. p = SumOutput(Op(r))
  BY DEF SumOutput
<1> HIDE DEF w, p
<1>4. /\ moved'[r] = moved[r] + 1 /\ Op(r)' = Op(r) /\ pc'[r] = pc[r]
      /\ main'[r] = main[r] /\ asw'[r] = asw[r]
  BY <1>1 DEF EngineInv, Types, Op, Ops
<1>5. SUFFICES ASSUME Op(r).unit = "INTERNAL"
               PROVE  words'[r] = WordsFrom(Op(r).len, moved[r] + 1)
  BY <1>2, <1>4 DEF SumOf
<1>6. /\ main[r][p] = "ARITH_RES" /\ asw[r] = "INTERNAL"
      /\ words[r] = WordsFrom(Op(r).len, moved[r])
  BY <1>2, <1>3, <1>5 DEF SumOf
<1>7. words'[r] = words[r] - w
  BY <1>1, <1>6 DEF EngineInv, Types
<1>8. PICK k \in Nat, len \in Nat : k = moved[r] /\ len = Op(r).len /\ k < Segs(len)
  BY <1>1, <1>2, OpType
<1>9. PICK a \in Nat, b \in Nat :
        /\ a = CeilDiv(SegLen(len, k), WordSize) /\ b = WordsFrom(len, k + 1)
        /\ WordsFrom(len, k) = a + b
  BY <1>8, WordsCounted
<1>10. w = a
  BY <1>8, <1>9 DEF w
<1>11. QED
  BY <1>6, <1>7, <1>8, <1>9, <1>10

LEMMA SumsStep ==
  ASSUME EngineInv, Sums, [EngineNext]_vars
  PROVE  Sums'
<1>1. SUFFICES ASSUME NEW q \in Ranks PROVE SumOf(q)'
  BY DEF Sums
<1>2. SumOf(q)
  BY DEF Sums
<1>3. ASSUME NEW r \in Ranks, StartCall(r) PROVE SumOf(q)'
  <2>1. CASE q = r
    <3>1. CASE Ops(r) = <<>>
      BY <1>3, <2>1, <3>1, SumReturned DEF StartCall
    <3>2. CASE Ops(r) # <<>>
      <4>1. calls[r] < Len(Calls) /\ UNCHANGED script
        BY <1>3 DEF StartCall
      <4>2. Ops(r) \in Seq(Movements)
        BY <4>1, OpsType DEF EngineInv, Types
      <4>3. 1 \in DOMAIN Ops(r)
        BY <3>2, <4>2
      <4>4. Begin(r, Ops(r)[1], 1) /\ UNCHANGED calls
        BY <1>3, <3>2 DEF StartCall
      <4>5. QED
        BY <2>1, <4>1, <4>3, <4>4, SumBegun
    <3>3. QED
      BY <3>1, <3>2
  <2>2. CASE q # r
    <3>1. /\ script' = script /\ calls'[q] = calls[q] /\ pc'[q] = pc[q]
          /\ main'[q] = main[q] /\ asw'[q] = asw[q] /\ words'[q] = words[q]
          /\ moved'[q] = moved[q]
      BY <1>3, <2>2 DEF StartCall, Begin, Return, EngineInv, Types
    <3>2. QED
      BY <1>2, <3>1, SumKept
  <2>3. QED
    BY <2>1, <2>2
<1>4. ASSUME NEW r \in Ranks, FinishOp(r) PROVE SumOf(q)'
  <2>1. CASE q = r
    <3>1. pc[r] # 0 /\ UNCHANGED script
      BY <1>4 DEF FinishOp
    <3>2. CASE pc[r] = Len(Ops(r))
      BY <1>4, <2>1, <3>2, SumReturned DEF FinishOp
    <3>3. CASE pc[r] # Len(Ops(r))
      <4>1. calls[r] < Len(Calls) /\ pc[r] \in DOMAIN Ops(r)
        BY <3>1 DEF EngineInv, InMovement
      <4>2. Ops(r) \in Seq(Movements)
        BY <4>1, OpsType DEF EngineInv, Types
      <4>3. pc[r] + 1 \in DOMAIN Ops(r)
        BY <3>3, <4>1, <4>2
      <4>4. Begin(r, Ops(r)[pc[r] + 1], pc[r] + 1) /\ UNCHANGED calls
        BY <1>4, <3>3 DEF FinishOp
      <4>5. QED
        BY <2>1, <3>1, <4>1, <4>3, <4>4, SumBegun
    <3>4. QED
      BY <3>2, <3>3
  <2>2. CASE q # r
    <3>1. /\ script' = script /\ calls'[q] = calls[q] /\ pc'[q] = pc[q]
          /\ main'[q] = main[q] /\ asw'[q] = asw[q] /\ words'[q] = words[q]
          /\ moved'[q] = moved[q]
      BY <1>4, <2>2 DEF FinishOp, Begin, Return, EngineInv, Types
    <3>2. QED
      BY <1>2, <3>1, SumKept
  <2>3. QED
    BY <2>1, <2>2
<1>5. ASSUME NEW r \in Ranks, Move(r) PROVE SumOf(q)'
  <2>1. CASE q = r
    BY <1>2, <1>5, <2>1, SumMoved
  <2>2. CASE q # r
    <3>1. /\ UNCHANGED <<script, calls, pc, main, asw>>
          /\ moved' = [moved EXCEPT ![r] = @ + 1]
          /\ \E n : words' = [words EXCEPT ![r] = @ - n]
      BY <1>5, Zenon DEF Move, fwVars
    <3>2. moved'[q] = moved[q] /\ words'[q] = words[q]
      BY <2>2, <3>1 DEF EngineInv, Types
    <3>3. QED
      BY <1>2, <3>1, <3>2, SumKept
  <2>3. QED
    BY <2>1, <2>2
<1>6. CASE \E r \in Ranks : Take(r) \/ Ack(r)
  BY <1>2, <1>6, SumKept DEF Take, Ack
<1>7. CASE \E s, d \in Ranks : Arrive(s, d)
  BY <1>2, <1>7, SumKept DEF Arrive, fwVars
<1>8. CASE UNCHANGED vars
  BY <1>2, <1>8, SumKept DEF vars, fwVars
<1>9. QED
  BY <1>3, <1>4, <1>5, <1>6, <1>7, <1>8 DEF EngineNext

LEMMA SumsCounted == ASSUME EngineInv, Sums PROVE ArithCount
<1>1. SUFFICES ASSUME NEW r \in Ranks
               PROVE  IF pc[r] # 0 /\ Op(r).unit = "INTERNAL"
                      THEN IF moved[r] = Segs(Op(r).len) THEN words[r] = 0
                           ELSE words[r] >= CeilDiv(SegLen(Op(r).len, moved[r]), WordSize)
                      ELSE words[r] = 0
  BY DEF ArithCount
<1>2. CASE ~ (pc[r] # 0 /\ Op(r).unit = "INTERNAL")
  BY <1>2 DEF EngineInv, IdleClean, WordsOfUnit
<1>3. CASE pc[r] # 0 /\ Op(r).unit = "INTERNAL"
  <2>1. words[r] = WordsFrom(Op(r).len, moved[r])
    BY <1>3 DEF Sums, SumOf
  <2>2. PICK k \in Nat, len \in Nat :
          k = moved[r] /\ len = Op(r).len /\ k <= Segs(len) /\ Segs(len) \in Nat
    BY <1>3, OpType
  <2>3. CASE k = Segs(len)
    <3>1. WordsFrom(len, k) = 0
      BY <2>3, WordsCounted
    <3>2. QED
      BY <1>3, <2>1, <2>2, <2>3, <3>1
  <2>4. CASE k # Segs(len)
    <3>1. PICK a \in Nat, b \in Nat :
            a = CeilDiv(SegLen(len, k), WordSize) /\ WordsFrom(len, k) = a + b
      <4>1. k < Segs(len)
        BY <2>2, <2>4
      <4>2. /\ CeilDiv(SegLen(len, k), WordSize) \in Nat /\ WordsFrom(len, k + 1) \in Nat
            /\ WordsFrom(len, k) = CeilDiv(SegLen(len, k), WordSize) + WordsFrom(len, k + 1)
        BY <4>1, WordsCounted
      <4>3. QED
        BY <4>2
    <3>2. a + b >= a
      OBVIOUS
    <3>3. QED
      BY <1>3, <2>1, <2>2, <2>4, <3>1, <3>2
  <2>5. QED
    BY <2>3, <2>4
<1>4. QED
  BY <1>2, <1>3

-----------------------------------------------------------------------------

(* The counts of segments keep their order and their bound, and only a     *)
(* movement that uses the internal unit has words to process.              *)
THEOREM EngineInvariant == EngineSpec => []EngineInv
  BY InitInv, StepInv, PTL DEF EngineSpec

(* A step that sets a switch is the start of a movement: nothing is under  *)
(* way then.                                                               *)
LEMMA QuietStep ==
  ASSUME EngineInv, [EngineNext]_vars, NEW r \in Ranks,
         main'[r] # main[r] \/ asw'[r] # asw[r]
  PROVE  taken[r] = acked[r] /\ moved[r] = acked[r] /\ words[r] = 0
<1>1. PICK q \in Ranks : StartCall(q) \/ FinishOp(q)
  <2>1. CASE \E q \in Ranks : Take(q) \/ Ack(q) \/ Move(q)
    BY <2>1 DEF Take, Ack, Move
  <2>2. CASE \E s, d \in Ranks : Arrive(s, d)
    BY <2>2 DEF Arrive
  <2>3. CASE UNCHANGED vars
    BY <2>3 DEF vars
  <2>4. QED
    BY <2>1, <2>2, <2>3 DEF EngineNext
<1>2. q = r
  BY <1>1 DEF StartCall, FinishOp, Begin, Return, EngineInv, Types
<1>3. CASE StartCall(q)
  BY <1>2, <1>3 DEF StartCall, EngineInv, IdleClean
<1>4. CASE FinishOp(q)
  BY <1>2, <1>4, FinishedQuiet DEF FinishOp
<1>5. QED
  BY <1>1, <1>3, <1>4

(* The switches are set between transfers only: whatever the program of    *)
(* the calls, no stream is routed anew while it flows.                     *)
THEOREM SwitchesQuiet == EngineSpec => SwitchQuiet
<1>1. EngineInv /\ [EngineNext]_vars =>
        [\A r \in Ranks :
           main'[r] # main[r] \/ asw'[r] # asw[r] =>
             /\ \A k \in {taken[r], moved[r]} : k = acked[r]
             /\ words[r] = 0]_vars
  BY QuietStep
<1>2. QED
  BY <1>1, EngineInvariant, PTL DEF EngineSpec, SwitchQuiet

(* The internal unit is told as many words as the segments of its movement *)
(* stream, for any lengths of message, segment and word: it never stops    *)
(* before the last of them and is idle after it.                           *)
THEOREM WordsAgree == EngineSpec => []ArithCount
<1>1. EngineInit => Sums
  BY DEF EngineInit, Sums, SumOf
<1>2. EngineInv /\ Sums /\ [EngineNext]_vars => Sums'
  BY SumsStep
<1>3. EngineInv /\ Sums => ArithCount
  BY SumsCounted
<1>4. QED
  BY <1>1, <1>2, <1>3, EngineInvariant, PTL DEF EngineSpec

-----------------------------------------------------------------------------
(* Nothing is left over: segments are conserved on their way from rank to  *)
(* rank, and so are statuses.                                              *)

(* Of the segments S those before segment c of movement j of call i.       *)
Reach(S, i, j, c) ==
  {x \in S : x[1] < i \/ (x[1] = i /\ (x[2] < j \/ (x[2] = j /\ x[3] < c)))}

(* Those that rank r is done with when it is at segment c of its movement. *)
Upto(S, r, c) == Reach(S, calls[r] + 1, pc[r], c)

(* Numbers of segments.                                                    *)
Triples == Nat \X (Nat \ {0}) \X Nat

LEMMA TripleFacts ==
  ASSUME NEW x \in Triples
  PROVE  x[1] \in Nat /\ x[2] \in Nat /\ x[2] > 0 /\ x[3] \in Nat /\ x = <<x[1], x[2], x[3]>>
  BY DEF Triples

(* One more segment.                                                       *)
LEMMA ReachNext ==
  ASSUME NEW S \in SUBSET Triples, NEW i \in Nat, NEW j \in Nat, NEW c \in Nat,
         IsFiniteSet(Reach(S, i, j, c))
  PROVE  /\ IsFiniteSet(Reach(S, i, j, c + 1))
         /\ Cardinality(Reach(S, i, j, c)) \in Nat
         /\ <<i, j, c>> \in S =>
              Cardinality(Reach(S, i, j, c + 1)) = Cardinality(Reach(S, i, j, c)) + 1
         /\ <<i, j, c>> \notin S => Reach(S, i, j, c + 1) = Reach(S, i, j, c)
<1>1. PICK x : x = <<i, j, c>>
  OBVIOUS
<1>2. ASSUME NEW y \in S
      PROVE  y \in Reach(S, i, j, c + 1) <=> y \in Reach(S, i, j, c) \/ y = x
  <2>1. y[1] \in Nat /\ y[2] \in Nat /\ y[3] \in Nat /\ y = <<y[1], y[2], y[3]>>
    BY TripleFacts
  <2>2. y[3] < c + 1 <=> y[3] < c \/ y[3] = c
    BY <2>1
  <2>3. y = x <=> y[1] = i /\ y[2] = j /\ y[3] = c
    BY <1>1, <2>1
  <2>4. y \in Reach(S, i, j, c + 1) <=>
          y[1] < i \/ (y[1] = i /\ (y[2] < j \/ (y[2] = j /\ y[3] < c + 1)))
    BY DEF Reach
  <2>5. y \in Reach(S, i, j, c) <=>
          y[1] < i \/ (y[1] = i /\ (y[2] < j \/ (y[2] = j /\ y[3] < c)))
    BY DEF Reach
  <2>6. y = x => ~ (y[1] < i) /\ ~ (y[2] < j)
    BY <2>1, <2>3
  <2>7. QED
    BY <2>2, <2>3, <2>4, <2>5, <2>6
<1>3. Reach(S, i, j, c + 1) \subseteq S /\ Reach(S, i, j, c) \subseteq S
  BY DEF Reach
<1>4. x \notin Reach(S, i, j, c)
  BY <1>1 DEF Reach
<1>5. CASE x \in S
  <2>1. Reach(S, i, j, c + 1) = Reach(S, i, j, c) \cup {x}
    BY <1>2, <1>3, <1>5
  <2>2. QED
    BY <1>1, <1>4, <1>5, <2>1, FS_AddElement, FS_CardinalityType
<1>6. CASE x \notin S
  <2>1. Reach(S, i, j, c + 1) = Reach(S, i, j, c)
    BY <1>2, <1>3, <1>6
  <2>2. QED
    BY <1>1, <1>6, <2>1, FS_CardinalityType
<1>7. QED
  BY <1>5, <1>6

(* From the end of a movement to the next.                                 *)
LEMMA ReachMovement ==
  ASSUME NEW S \in SUBSET Triples, NEW i \in Nat, NEW j \in Nat, NEW c \in Nat,
         \A x \in S : x[1] = i /\ x[2] = j => x[3] < c
  PROVE  Reach(S, i, j, c) = Reach(S, i, j + 1, 0)
<1>1. ASSUME NEW y \in S
      PROVE  y \in Reach(S, i, j, c) <=> y \in Reach(S, i, j + 1, 0)
  <2>1. y[1] \in Nat /\ y[2] \in Nat /\ y[3] \in Nat
    BY TripleFacts
  <2>2. /\ y[2] < j + 1 <=> y[2] < j \/ y[2] = j
        /\ ~ (y[3] < 0)
    BY <2>1
  <2>3. y[1] = i /\ y[2] = j => y[3] < c
    OBVIOUS
  <2>4. QED
    BY <2>2, <2>3 DEF Reach
<1>2. QED
  BY <1>1 DEF Reach

(* From the end of a call to the next.                                     *)
LEMMA ReachCall ==
  ASSUME NEW S \in SUBSET Triples, NEW i \in Nat, NEW j \in Nat, NEW c \in Nat,
         \A x \in S : x[1] = i => x[2] < j \/ (x[2] = j /\ x[3] < c)
  PROVE  Reach(S, i, j, c) = Reach(S, i + 1, 0, 0)
<1>1. ASSUME NEW y \in S
      PROVE  y \in Reach(S, i, j, c) <=> y \in Reach(S, i + 1, 0, 0)
  <2>1. y[1] \in Nat /\ y[2] \in Nat /\ y[3] \in Nat
    BY TripleFacts
  <2>2. /\ y[1] < i + 1 <=> y[1] < i \/ y[1] = i
        /\ ~ (y[2] < 0) /\ ~ (y[3] < 0)
    BY <2>1
  <2>3. y[1] = i => y[2] < j \/ (y[2] = j /\ y[3] < c)
    OBVIOUS
  <2>4. QED
    BY <2>2, <2>3 DEF Reach
<1>2. QED
  BY <1>1 DEF Reach

-----------------------------------------------------------------------------

(* A rank's segments.                                                      *)
LEMMA PieceFacts ==
  ASSUME NEW n \in DOMAIN Scripts, NEW r \in Ranks
  PROVE  /\ Pieces(n, r) \in SUBSET Triples
         /\ \A x \in Pieces(n, r) :
              /\ x[1] \in 1 .. Len(Scripts[n]) /\ x[2] \in DOMAIN Plan[n][x[1]][r]
              /\ x[3] < Segs(OpOf(n, r, x).len)
         /\ \A i \in 1 .. Len(Scripts[n]) : \A j \in DOMAIN Plan[n][i][r], k \in Nat :
              k < Segs(Plan[n][i][r][j].len) => <<i, j, k>> \in Pieces(n, r)
         /\ DOMAIN Plan[n] = 1 .. Len(Scripts[n]) /\ Len(Scripts[n]) \in Nat
         /\ \A i \in 1 .. Len(Scripts[n]) : Plan[n][i][r] \in Seq(Movements)
<1>1. /\ DOMAIN Plan[n] = 1 .. Len(Scripts[n]) /\ Len(Scripts[n]) \in Nat
      /\ \A i \in 1 .. Len(Scripts[n]) : Plan[n][i][r] \in Seq(Movements)
  BY ProgramAssumption DEF Plan
<1>2. \A i \in 1 .. Len(Scripts[n]) : \A j \in DOMAIN Plan[n][i][r] :
        Segs(Plan[n][i][r][j].len) \in Nat /\ j \in Nat \ {0}
  <2>1. SUFFICES ASSUME NEW i \in 1 .. Len(Scripts[n]), NEW j \in DOMAIN Plan[n][i][r]
                 PROVE  Segs(Plan[n][i][r][j].len) \in Nat /\ j \in Nat \ {0}
    OBVIOUS
  <2>2. Plan[n][i][r][j] \in Movements /\ j \in Nat \ {0}
    BY <1>1
  <2>3. Plan[n][i][r][j].len \in Nat
    BY <2>2 DEF Movements
  <2>4. QED
    BY <2>2, <2>3, CeilDivNat, EngineAssumption DEF Segs
<1>3. ASSUME NEW x \in Pieces(n, r)
      PROVE  /\ x \in Triples
             /\ x[1] \in 1 .. Len(Scripts[n]) /\ x[2] \in DOMAIN Plan[n][x[1]][r]
             /\ x[3] < Segs(OpOf(n, r, x).len)
  <2>1. PICK i \in 1 .. Len(Scripts[n]) : \E j \in DOMAIN Plan[n][i][r] :
          \E k \in 0 .. Segs(Plan[n][i][r][j].len) - 1 : x = <<i, j, k>>
    BY <1>1 DEF Pieces
  <2>2. PICK j \in DOMAIN Plan[n][i][r] :
          \E k \in 0 .. Segs(Plan[n][i][r][j].len) - 1 : x = <<i, j, k>>
    BY <2>1
  <2>3. PICK k \in 0 .. Segs(Plan[n][i][r][j].len) - 1 : x = <<i, j, k>>
    BY <2>2
  <2>4. Segs(Plan[n][i][r][j].len) \in Nat /\ j \in Nat \ {0}
    BY <1>2
  <2>5. x[1] = i /\ x[2] = j /\ x[3] = k
    BY <2>3
  <2>6. k \in Nat /\ k < Segs(Plan[n][i][r][j].len) /\ i \in Nat
    BY <2>4
  <2>7. QED
    BY <2>3, <2>4, <2>5, <2>6 DEF Triples, OpOf
<1>4. ASSUME NEW i \in 1 .. Len(Scripts[n]), NEW j \in DOMAIN Plan[n][i][r], NEW k \in Nat,
             k < Segs(Plan[n][i][r][j].len)
      PROVE  <<i, j, k>> \in Pieces(n, r)
  <2>1. k \in 0 .. Segs(Plan[n][i][r][j].len) - 1
    BY <1>2, <1>4
  <2>2. QED
    BY <1>1, <2>1 DEF Pieces
<1>5. QED
  BY <1>1, <1>3, <1>4

(* The movements that wait for the packetizer.                             *)
LEMMA WaitFacts ==
  ASSUME NEW n \in DOMAIN Scripts, NEW r \in Ranks
  PROVE  /\ AckedLater(n, r) \in SUBSET Triples
         /\ \A x \in AckedLater(n, r) :
              /\ x[1] \in 1 .. Len(Scripts[n]) /\ x[2] \in DOMAIN Plan[n][x[1]][r] /\ x[3] = 0
         /\ \A i \in 1 .. Len(Scripts[n]) : \A j \in DOMAIN Plan[n][i][r] :
              <<i, j, 0>> \in AckedLater(n, r) <=> Plan[n][i][r][j].kind = "ack"
<1>1. DOMAIN Plan[n] = 1 .. Len(Scripts[n]) /\ Len(Scripts[n]) \in Nat
  BY PieceFacts
<1>2. ASSUME NEW x
      PROVE  x \in AckedLater(n, r) <=>
               \E i \in 1 .. Len(Scripts[n]) : \E j \in DOMAIN Plan[n][i][r] :
                 Plan[n][i][r][j].kind = "ack" /\ x = <<i, j, 0>>
  BY <1>1 DEF AckedLater
<1>3. ASSUME NEW x \in AckedLater(n, r)
      PROVE  /\ x \in Triples /\ x[1] \in 1 .. Len(Scripts[n])
             /\ x[2] \in DOMAIN Plan[n][x[1]][r] /\ x[3] = 0
  <2>1. PICK i \in 1 .. Len(Scripts[n]) : \E j \in DOMAIN Plan[n][i][r] : x = <<i, j, 0>>
    BY <1>2
  <2>2. PICK j \in DOMAIN Plan[n][i][r] : x = <<i, j, 0>>
    BY <2>1
  <2>3. Plan[n][i][r] \in Seq(Movements)
    BY PieceFacts
  <2>4. i \in Nat /\ j \in Nat \ {0}
    BY <2>3
  <2>5. QED
    BY <2>2, <2>4 DEF Triples
<1>4. ASSUME NEW i \in 1 .. Len(Scripts[n]), NEW j \in DOMAIN Plan[n][i][r]
      PROVE  <<i, j, 0>> \in AckedLater(n, r) <=> Plan[n][i][r][j].kind = "ack"
  BY <1>2
<1>5. QED
  BY <1>3, <1>4

(* Where a rank is.                                                        *)
LEMMA Place ==
  ASSUME EngineInv, NEW r \in Ranks
  PROVE  /\ script \in DOMAIN Scripts /\ calls[r] \in Nat /\ pc[r] \in Nat
         /\ taken[r] \in Nat /\ moved[r] \in Nat /\ acked[r] \in Nat
         /\ calls[r] < Len(Calls) => /\ calls[r] + 1 \in 1 .. Len(Scripts[script])
                                     /\ Ops(r) = Plan[script][calls[r] + 1][r]
                                     /\ Ops(r) \in Seq(Movements)
         /\ pc[r] # 0 => /\ calls[r] < Len(Calls) /\ pc[r] \in DOMAIN Ops(r)
                         /\ Op(r) = Plan[script][calls[r] + 1][r][pc[r]]
<1>1. /\ script \in DOMAIN Scripts /\ calls[r] \in Nat /\ pc[r] \in Nat
      /\ taken[r] \in Nat /\ moved[r] \in Nat /\ acked[r] \in Nat
  BY DEF EngineInv, Types
<1>2. Len(Scripts[script]) \in Nat
  BY <1>1, PieceFacts
<1>3. calls[r] < Len(Calls) => Ops(r) \in Seq(Movements)
  BY <1>1, OpsType
<1>4. calls[r] < Len(Calls) => calls[r] + 1 \in 1 .. Len(Scripts[script])
  BY <1>1, <1>2 DEF Calls
<1>5. QED
  BY <1>1, <1>3, <1>4 DEF Ops, Op, EngineInv, InMovement

(* What the start or the end of a movement does to the place of its rank.  *)
LEMMA NextPlace ==
  ASSUME EngineInv, NEW r \in Ranks, StartCall(r) \/ FinishOp(r)
  PROVE  /\ taken'[r] = 0 /\ moved'[r] = 0 /\ acked'[r] = 0
         /\ UNCHANGED <<script, held, pool, link>>
         /\ \A q \in Ranks \ {r} :
              /\ calls'[q] = calls[q] /\ pc'[q] = pc[q] /\ taken'[q] = taken[q]
              /\ moved'[q] = moved[q] /\ acked'[q] = acked[q]
         /\ pc[r] # 0 => /\ Finished(r) /\ FinishOp(r)
                         /\ moved[r] = Segs(Op(r).len) /\ taken[r] = moved[r]
                         /\ acked[r] = moved[r]
         /\ pc[r] = 0 => moved[r] = 0 /\ taken[r] = 0 /\ acked[r] = 0 /\ sts' = sts
         /\ calls[r] < Len(Calls) /\ Len(Ops(r)) \in Nat /\ pc[r] <= Len(Ops(r))
         /\ \/ pc[r] = Len(Ops(r)) /\ calls'[r] = calls[r] + 1 /\ pc'[r] = 0
            \/ pc[r] < Len(Ops(r)) /\ calls'[r] = calls[r] /\ pc'[r] = pc[r] + 1
<1>1. UNCHANGED <<script, held, pool, link>>
  BY DEF StartCall, FinishOp
<1>2. /\ calls \in [Ranks -> Nat] /\ pc \in [Ranks -> Nat] /\ taken \in [Ranks -> Nat]
      /\ moved \in [Ranks -> Nat] /\ acked \in [Ranks -> Nat]
  BY DEF EngineInv, Types
<1>3. calls[r] < Len(Calls) /\ Ops(r) \in Seq(Movements)
  BY Place DEF StartCall, FinishOp
<1>4. CASE StartCall(r)
  <2>1. pc[r] = 0 /\ moved[r] = 0 /\ taken[r] = 0 /\ acked[r] = 0 /\ sts' = sts
    BY <1>4 DEF StartCall, EngineInv, IdleClean
  <2>2. CASE Ops(r) = <<>>
    BY <1>1, <1>2, <1>3, <1>4, <2>1, <2>2 DEF StartCall, Return
  <2>3. CASE Ops(r) # <<>>
    <3>1. Len(Ops(r)) \in Nat /\ Len(Ops(r)) > 0
      BY <1>3, <2>3
    <3>2. QED
      BY <1>1, <1>2, <1>3, <1>4, <2>1, <2>3, <3>1 DEF StartCall, Begin
  <2>4. QED
    BY <2>2, <2>3
<1>5. CASE FinishOp(r)
  <2>1. pc[r] # 0 /\ Finished(r) /\ pc[r] \in DOMAIN Ops(r)
    BY <1>5, Place DEF FinishOp
  <2>2. moved[r] = Segs(Op(r).len) /\ taken[r] = moved[r] /\ acked[r] = moved[r]
    BY <2>1, FinishedQuiet DEF Finished
  <2>3. Len(Ops(r)) \in Nat /\ pc[r] <= Len(Ops(r))
    BY <1>3, <2>1
  <2>4. CASE pc[r] = Len(Ops(r))
    BY <1>1, <1>2, <1>3, <1>5, <2>1, <2>2, <2>3, <2>4 DEF FinishOp, Return
  <2>5. CASE pc[r] # Len(Ops(r))
    BY <1>1, <1>2, <1>3, <1>5, <2>1, <2>2, <2>3, <2>5 DEF FinishOp, Begin
  <2>6. QED
    BY <2>4, <2>5
<1>6. QED
  BY <1>4, <1>5

(* No segment is between two movements, nor between two calls.             *)
LEMMA Boundary ==
  ASSUME EngineInv, NEW r \in Ranks, StartCall(r) \/ FinishOp(r),
         NEW S \in SUBSET Pieces(script, r), NEW c \in {taken[r], moved[r], acked[r]}
  PROVE  Upto(S, r, c) = Reach(S, calls'[r] + 1, pc'[r], 0)
<1>1. /\ pc[r] # 0 => c = Segs(Op(r).len)
      /\ pc[r] = 0 => c = 0
      /\ calls[r] < Len(Calls) /\ Len(Ops(r)) \in Nat /\ pc[r] <= Len(Ops(r))
      /\ \/ pc[r] = Len(Ops(r)) /\ calls'[r] = calls[r] + 1 /\ pc'[r] = 0
         \/ pc[r] < Len(Ops(r)) /\ calls'[r] = calls[r] /\ pc'[r] = pc[r] + 1
  BY NextPlace
<1>2. PICK i \in Nat, j \in Nat, n \in DOMAIN Scripts :
        /\ i = calls[r] + 1 /\ j = pc[r] /\ n = script /\ c \in Nat
        /\ Ops(r) = Plan[n][i][r] /\ Ops(r) \in Seq(Movements)
        /\ j # 0 => Op(r) = Plan[n][i][r][j]
  BY <1>1, Place
<1>3. S \in SUBSET Triples
  BY <1>2, PieceFacts
<1>4. ASSUME NEW x \in S, x[1] = i
      PROVE  /\ x[2] \in 1 .. Len(Ops(r)) /\ x[3] \in Nat
             /\ x[2] = j => x[3] < c
  <2>1. x \in Pieces(n, r) /\ x[2] \in DOMAIN Ops(r) /\ x[3] < Segs(OpOf(n, r, x).len)
    BY <1>2, <1>4, PieceFacts
  <2>2. x[2] \in 1 .. Len(Ops(r)) /\ x[3] \in Nat
    BY <1>2, <1>3, <2>1, TripleFacts
  <2>3. ASSUME x[2] = j PROVE x[3] < c
    <3>1. j # 0 /\ OpOf(n, r, x) = Op(r)
      BY <1>2, <1>4, <2>2, <2>3 DEF OpOf
    <3>2. QED
      BY <1>1, <1>2, <2>1, <3>1
  <2>4. QED
    BY <2>2, <2>3
<1>5. CASE pc[r] = Len(Ops(r))
  <2>1. \A x \in S : x[1] = i => x[2] < j \/ (x[2] = j /\ x[3] < c)
    BY <1>1, <1>2, <1>4, <1>5
  <2>2. Reach(S, i, j, c) = Reach(S, i + 1, 0, 0)
    BY <1>2, <1>3, <2>1, ReachCall
  <2>3. calls'[r] + 1 = i + 1 /\ pc'[r] = 0
    <3>1. calls'[r] = calls[r] + 1 /\ pc'[r] = 0
      BY <1>1, <1>5
    <3>2. QED
      BY <1>2, <3>1
  <2>4. Upto(S, r, c) = Reach(S, i, j, c)
    BY <1>2 DEF Upto
  <2>5. QED
    BY <2>2, <2>3, <2>4
<1>6. CASE pc[r] < Len(Ops(r))
  <2>1. Reach(S, i, j, c) = Reach(S, i, j + 1, 0)
    BY <1>2, <1>3, <1>4, ReachMovement
  <2>2. QED
    BY <1>1, <1>2, <1>6, <2>1 DEF Upto
<1>7. QED
  BY <1>1, <1>2, <1>5, <1>6

-----------------------------------------------------------------------------
(* Segments in a queue.                                                    *)

(* Those from s, as From counts them.                                      *)
Idx(q, s) == {i \in DOMAIN q : q[i].src = s}

LEMMA IndexFinite ==
  ASSUME NEW q, IsSeq(q), NEW s
  PROVE  /\ IsFiniteSet(Idx(q, s)) /\ Cardinality(Idx(q, s)) \in Nat
         /\ Idx(q, s) \in SUBSET Nat /\ Idx(q, s) \subseteq 1 .. Len(q)
<1>1. Len(q) \in Nat /\ DOMAIN q = 1 .. Len(q)
  BY AppendFacts
<1>2. Idx(q, s) \subseteq 1 .. Len(q)
  BY <1>1 DEF Idx
<1>3. IsFiniteSet(1 .. Len(q))
  BY <1>1, FS_Interval
<1>4. IsFiniteSet(Idx(q, s))
  BY <1>2, <1>3, FS_Subset
<1>5. QED
  BY <1>1, <1>2, <1>4, FS_CardinalityType

(* One more in the queue.                                                  *)
LEMMA IndexAppend ==
  ASSUME NEW q, IsSeq(q), NEW x, NEW s
  PROVE  Cardinality(Idx(Append(q, x), s))
           = Cardinality(Idx(q, s)) + IF x.src = s THEN 1 ELSE 0
<1>1. PICK p : /\ p = Append(q, x) /\ DOMAIN p = 1 .. Len(q) + 1
               /\ \A i \in DOMAIN q : p[i] = q[i]
               /\ p[Len(q) + 1] = x
  BY AppendFacts
<1>2. PICK n \in Nat : n = Len(q) /\ DOMAIN q = 1 .. n
  BY AppendFacts
<1>3. IsFiniteSet(Idx(q, s)) /\ Cardinality(Idx(q, s)) \in Nat
  BY IndexFinite
<1>4. n + 1 \notin Idx(q, s)
  BY <1>2 DEF Idx
<1>5. ASSUME NEW i
      PROVE  i \in Idx(p, s) <=> i \in Idx(q, s) \/ (i = n + 1 /\ x.src = s)
  <2>1. i \in 1 .. n + 1 <=> i \in 1 .. n \/ i = n + 1
    BY <1>2
  <2>2. QED
    BY <1>1, <1>2, <2>1 DEF Idx
<1>6. CASE x.src = s
  <2>1. Idx(p, s) = Idx(q, s) \cup {n + 1}
    BY <1>5, <1>6
  <2>2. QED
    BY <1>1, <1>3, <1>4, <1>6, <2>1, FS_AddElement
<1>7. CASE x.src # s
  <2>1. Idx(p, s) = Idx(q, s)
    BY <1>5, <1>7
  <2>2. QED
    BY <1>1, <1>3, <1>7, <2>1
<1>8. QED
  BY <1>6, <1>7

(* One less, wherever it is taken from.                                    *)
LEMMA IndexCut ==
  ASSUME NEW q, IsSeq(q), NEW i \in DOMAIN q, NEW s
  PROVE  /\ IsSeq(Without(q, i))
         /\ Cardinality(Idx(q, s))
              = Cardinality(Idx(Without(q, i), s)) + IF q[i].src = s THEN 1 ELSE 0
         /\ \A j \in DOMAIN Without(q, i) : \E k \in DOMAIN q : Without(q, i)[j] = q[k]
<1>1. PICK n \in Nat : n = Len(q) /\ DOMAIN q = 1 .. n /\ i \in 1 .. n
  BY AppendFacts
<1>2. PICK w : /\ w = Without(q, i) /\ IsSeq(w) /\ DOMAIN w = 1 .. n - 1
               /\ \A j \in 1 .. n - 1 : w[j] = IF j < i THEN q[j] ELSE q[j + 1]
  BY <1>1, CutFacts DEF Without
<1>3. ASSUME NEW j \in DOMAIN w PROVE \E k \in DOMAIN q : w[j] = q[k]
  <2>1. j \in 1 .. n /\ j + 1 \in 1 .. n
    BY <1>1, <1>2
  <2>2. QED
    BY <1>1, <1>2, <2>1
<1>4. PICK f : f = [j \in Idx(w, s) |-> IF j < i THEN j ELSE j + 1]
  OBVIOUS
<1>5. f \in [Idx(w, s) -> Idx(q, s) \ {i}]
  <2>1. SUFFICES ASSUME NEW j \in Idx(w, s)
                 PROVE  (IF j < i THEN j ELSE j + 1) \in Idx(q, s) \ {i}
    BY <1>4
  <2>2. j \in 1 .. n - 1 /\ w[j].src = s
    BY <1>2 DEF Idx
  <2>3. CASE j < i
    BY <1>1, <1>2, <2>2, <2>3 DEF Idx
  <2>4. CASE ~ (j < i)
    <3>1. j + 1 \in 1 .. n /\ j + 1 # i
      BY <1>1, <2>2, <2>4
    <3>2. QED
      BY <1>1, <1>2, <2>2, <2>4, <3>1 DEF Idx
  <2>5. QED
    BY <2>3, <2>4
<1>6. \A j, k \in Idx(w, s) : f[j] = f[k] => j = k
  <2>1. Idx(w, s) \subseteq Nat
    BY <1>2, IndexFinite
  <2>2. i \in Nat
    BY <1>1
  <2>3. QED
    BY <1>4, <2>1, <2>2
<1>7. \A k \in Idx(q, s) \ {i} : \E j \in Idx(w, s) : f[j] = k
  <2>1. SUFFICES ASSUME NEW k \in Idx(q, s), k # i
                 PROVE  \E j \in Idx(w, s) : f[j] = k
    OBVIOUS
  <2>2. k \in 1 .. n /\ q[k].src = s
    BY <1>1 DEF Idx
  <2>3. CASE k < i
    <3>1. k \in 1 .. n - 1
      BY <1>1, <2>2, <2>3
    <3>2. k \in Idx(w, s)
      BY <1>2, <2>2, <2>3, <3>1 DEF Idx
    <3>3. QED
      BY <1>4, <2>3, <3>2
  <2>4. CASE ~ (k < i)
    <3>1. k - 1 \in 1 .. n - 1 /\ ~ (k - 1 < i) /\ (k - 1) + 1 = k
      BY <1>1, <2>1, <2>2, <2>4
    <3>2. k - 1 \in Idx(w, s)
      BY <1>2, <2>2, <3>1 DEF Idx
    <3>3. QED
      BY <1>4, <3>1, <3>2
  <2>5. QED
    BY <2>3, <2>4
<1>8. ExistsBijection(Idx(w, s), Idx(q, s) \ {i})
  <2>1. f \in Bijection(Idx(w, s), Idx(q, s) \ {i})
    BY <1>5, <1>6, <1>7 DEF Bijection, Injection, Surjection, IsInjective
  <2>2. QED
    BY <2>1 DEF ExistsBijection
<1>9. /\ IsFiniteSet(Idx(w, s)) /\ IsFiniteSet(Idx(q, s))
      /\ Cardinality(Idx(w, s)) \in Nat /\ Cardinality(Idx(q, s)) \in Nat
  BY <1>2, IndexFinite
<1>10. Cardinality(Idx(q, s) \ {i}) = Cardinality(Idx(w, s))
  BY <1>8, <1>9, FS_Bijection
<1>11. i \in Idx(q, s) <=> q[i].src = s
  BY DEF Idx
<1>12. Cardinality(Idx(q, s)) = Cardinality(Idx(w, s)) + IF q[i].src = s THEN 1 ELSE 0
  <2>1. CASE i \in Idx(q, s)
    <3>1. Cardinality(Idx(q, s) \ {i}) = Cardinality(Idx(q, s)) - 1
      BY <1>9, <2>1, FS_RemoveElement
    <3>2. QED
      BY <1>9, <1>10, <1>11, <2>1, <3>1
  <2>2. CASE i \notin Idx(q, s)
    <3>1. Idx(q, s) \ {i} = Idx(q, s)
      BY <2>2
    <3>2. QED
      BY <1>9, <1>10, <1>11, <2>2, <3>1
  <2>3. QED
    BY <2>1, <2>2
<1>13. QED
  BY <1>2, <1>3, <1>12

(* The oldest segment from a rank is one from it.                          *)
LEMMA OldestFacts ==
  ASSUME NEW r \in Ranks, IsSeq(pool[r]), NEW s, From(r, s) # {}
  PROVE  /\ Oldest(r, s) \in DOMAIN pool[r] /\ pool[r][Oldest(r, s)].src = s
<1>1. From(r, s) = Idx(pool[r], s)
  BY DEF From, Idx
<1>2. From(r, s) \in SUBSET Nat
  BY <1>1, IndexFinite
<1>3. Oldest(r, s) \in From(r, s)
  BY <1>2, LeastNumber DEF Oldest
<1>4. QED
  BY <1>3 DEF From

-----------------------------------------------------------------------------
(* What each rank has done of its segments so far.                         *)

Sent(s, d) == Upto(SentTo(script, s, d), s, moved[s])
Got(d, s)  == Upto(TakenFrom(script, d, s), d, taken[d])
Put(r)     == Upto(Posted(script, r), r, moved[r])
Seen(r)    == Upto(AckedAtOnce(script, r), r, acked[r])
Waited(r)  == Upto(AckedLater(script, r), r, 0)

Counted(r) ==
  /\ \A d \in Ranks : IsFiniteSet(Sent(r, d)) /\ IsFiniteSet(Got(r, d))
  /\ IsFiniteSet(Put(r)) /\ IsFiniteSet(Seen(r)) /\ IsFiniteSet(Waited(r))

(* A rank that does not go on.                                             *)
LEMMA Idle ==
  ASSUME NEW r \in Ranks, script' = script, calls'[r] = calls[r], pc'[r] = pc[r]
  PROVE  /\ moved'[r] = moved[r] =>
              /\ \A d \in Ranks : Sent(r, d)' = Sent(r, d)
              /\ Put(r)' = Put(r)
         /\ taken'[r] = taken[r] => \A d \in Ranks : Got(r, d)' = Got(r, d)
         /\ acked'[r] = acked[r] => Seen(r)' = Seen(r)
         /\ Waited(r)' = Waited(r)
  BY DEF Sent, Got, Put, Seen, Waited, Upto

(* The segment at which a rank is.                                         *)
LEMMA AtPiece ==
  ASSUME EngineInv, NEW r \in Ranks, pc[r] # 0, NEW c \in Nat, c < Segs(Op(r).len),
         NEW x, x = <<calls[r] + 1, pc[r], c>>
  PROVE  x \in Pieces(script, r) /\ OpOf(script, r, x) = Op(r)
<1>1. /\ script \in DOMAIN Scripts /\ calls[r] + 1 \in 1 .. Len(Scripts[script])
      /\ Ops(r) = Plan[script][calls[r] + 1][r] /\ pc[r] \in DOMAIN Ops(r)
      /\ Op(r) = Plan[script][calls[r] + 1][r][pc[r]]
  BY Place
<1>2. x \in Pieces(script, r)
  BY <1>1, PieceFacts
<1>3. x[1] = calls[r] + 1 /\ x[2] = pc[r]
  OBVIOUS
<1>4. QED
  BY <1>1, <1>2, <1>3 DEF OpOf

(* A rank takes a step within a movement.                                  *)
LEMMA Onward ==
  ASSUME EngineInv, NEW r \in Ranks, pc[r] # 0, NEW c \in Nat, c < Segs(Op(r).len),
         NEW S \in SUBSET Pieces(script, r), IsFiniteSet(Upto(S, r, c)),
         script' = script, calls'[r] = calls[r], pc'[r] = pc[r]
  PROVE  /\ IsFiniteSet(Upto(S, r, c + 1)) /\ Cardinality(Upto(S, r, c)) \in Nat
         /\ Cardinality(Upto(S, r, c + 1))
              = Cardinality(Upto(S, r, c))
                + IF <<calls[r] + 1, pc[r], c>> \in S THEN 1 ELSE 0
<1>1. S \in SUBSET Triples /\ calls[r] + 1 \in Nat /\ pc[r] \in Nat
  BY Place, PieceFacts
<1>2. IsFiniteSet(Reach(S, calls[r] + 1, pc[r], c))
  BY DEF Upto
<1>3. QED
  BY <1>1, <1>2, ReachNext DEF Upto

LEMMA MoveCounts ==
  ASSUME EngineInv, NEW r \in Ranks, Counted(r), Move(r)
  PROVE  /\ \A d \in Ranks :
              /\ IsFiniteSet(Sent(r, d)') /\ Cardinality(Sent(r, d)) \in Nat
              /\ Cardinality(Sent(r, d)')
                   = Cardinality(Sent(r, d)) + IF Op(r).to = d THEN 1 ELSE 0
         /\ IsFiniteSet(Put(r)') /\ Cardinality(Put(r)) \in Nat
         /\ Cardinality(Put(r)')
              = Cardinality(Put(r)) + IF Op(r).to # Nobody THEN 1 ELSE 0
<1>1. /\ moved[r] < taken[r] /\ moved' = [moved EXCEPT ![r] = @ + 1]
      /\ UNCHANGED <<script, calls, pc>>
  BY DEF Move, fwVars
<1>2. pc[r] # 0 /\ moved'[r] = moved[r] + 1
  BY <1>1 DEF EngineInv, Types, IdleClean
<1>3. moved[r] \in Nat /\ moved[r] < Segs(Op(r).len)
  BY <1>1, <1>2, OpType
<1>4. PICK c, x : c = moved[r] /\ x = <<calls[r] + 1, pc[r], c>>
  OBVIOUS
<1>5. x \in Pieces(script, r) /\ OpOf(script, r, x) = Op(r)
  BY <1>2, <1>3, <1>4, AtPiece
<1>6. ASSUME NEW S \in SUBSET Pieces(script, r), IsFiniteSet(Upto(S, r, c))
      PROVE  /\ IsFiniteSet(Upto(S, r, c + 1)) /\ Cardinality(Upto(S, r, c)) \in Nat
             /\ Cardinality(Upto(S, r, c + 1))
                  = Cardinality(Upto(S, r, c)) + IF x \in S THEN 1 ELSE 0
  BY <1>1, <1>2, <1>3, <1>4, <1>6, Onward
<1>7. ASSUME NEW d \in Ranks
      PROVE  /\ IsFiniteSet(Sent(r, d)') /\ Cardinality(Sent(r, d)) \in Nat
             /\ Cardinality(Sent(r, d)')
                  = Cardinality(Sent(r, d)) + IF Op(r).to = d THEN 1 ELSE 0
  <2>1. PICK S : S = SentTo(script, r, d)
    OBVIOUS
  <2>2. S \in SUBSET Pieces(script, r) /\ (x \in S <=> Op(r).to = d)
    BY <1>5, <2>1 DEF SentTo
  <2>3. Sent(r, d) = Upto(S, r, c) /\ Sent(r, d)' = Upto(S, r, c + 1)
    BY <1>1, <1>2, <1>4, <2>1 DEF Sent, Upto
  <2>4. IsFiniteSet(Upto(S, r, c))
    BY <2>3 DEF Counted
  <2>5. QED
    BY <1>6, <2>2, <2>3, <2>4
<1>8. /\ IsFiniteSet(Put(r)') /\ Cardinality(Put(r)) \in Nat
      /\ Cardinality(Put(r)')
           = Cardinality(Put(r)) + IF Op(r).to # Nobody THEN 1 ELSE 0
  <2>1. PICK S : S = Posted(script, r)
    OBVIOUS
  <2>2. S \in SUBSET Pieces(script, r) /\ (x \in S <=> Op(r).to # Nobody)
    BY <1>5, <2>1 DEF Posted
  <2>3. Put(r) = Upto(S, r, c) /\ Put(r)' = Upto(S, r, c + 1)
    BY <1>1, <1>2, <1>4, <2>1 DEF Put, Upto
  <2>4. IsFiniteSet(Upto(S, r, c))
    BY <2>3 DEF Counted
  <2>5. QED
    BY <1>6, <2>2, <2>3, <2>4
<1>9. QED
  BY <1>7, <1>8

LEMMA TakeCounts ==
  ASSUME EngineInv, NEW r \in Ranks, Counted(r), Take(r), NEW s \in Ranks
  PROVE  /\ IsFiniteSet(Got(r, s)') /\ Cardinality(Got(r, s)) \in Nat
         /\ Cardinality(Got(r, s)')
              = Cardinality(Got(r, s)) + IF Op(r).from = s THEN 1 ELSE 0
<1>1. /\ pc[r] # 0 /\ taken[r] < Segs(Op(r).len) /\ taken' = [taken EXCEPT ![r] = @ + 1]
      /\ UNCHANGED <<script, calls, pc>>
  BY DEF Take
<1>2. taken'[r] = taken[r] + 1 /\ taken[r] \in Nat
  BY <1>1 DEF EngineInv, Types
<1>3. PICK c, x : c = taken[r] /\ x = <<calls[r] + 1, pc[r], c>>
  OBVIOUS
<1>4. x \in Pieces(script, r) /\ OpOf(script, r, x) = Op(r)
  BY <1>1, <1>2, <1>3, AtPiece
<1>5. PICK S : S = TakenFrom(script, r, s)
  OBVIOUS
<1>6. S \in SUBSET Pieces(script, r) /\ (x \in S <=> Op(r).from = s)
  BY <1>4, <1>5 DEF TakenFrom
<1>7. Got(r, s) = Upto(S, r, c) /\ Got(r, s)' = Upto(S, r, c + 1)
  BY <1>1, <1>2, <1>3, <1>5 DEF Got, Upto
<1>8. IsFiniteSet(Upto(S, r, c))
  BY <1>7 DEF Counted
<1>9. /\ IsFiniteSet(Upto(S, r, c + 1)) /\ Cardinality(Upto(S, r, c)) \in Nat
      /\ Cardinality(Upto(S, r, c + 1))
           = Cardinality(Upto(S, r, c)) + IF x \in S THEN 1 ELSE 0
  BY <1>1, <1>2, <1>3, <1>6, <1>8, Onward
<1>10. QED
  BY <1>6, <1>7, <1>9

LEMMA AckCounts ==
  ASSUME EngineInv, NEW r \in Ranks, Counted(r), Ack(r)
  PROVE  /\ IsFiniteSet(Seen(r)') /\ Cardinality(Seen(r)) \in Nat
         /\ Cardinality(Seen(r)')
              = Cardinality(Seen(r)) + IF Op(r).kind = "move" /\ Op(r).to # Nobody THEN 1 ELSE 0
<1>1. /\ pc[r] # 0 /\ acked[r] < moved[r] /\ acked' = [acked EXCEPT ![r] = @ + 1]
      /\ UNCHANGED <<script, calls, pc>>
  BY DEF Ack
<1>2. acked'[r] = acked[r] + 1 /\ acked[r] \in Nat /\ acked[r] < Segs(Op(r).len)
  BY <1>1, OpType DEF EngineInv, Types
<1>3. PICK c, x : c = acked[r] /\ x = <<calls[r] + 1, pc[r], c>>
  OBVIOUS
<1>4. x \in Pieces(script, r) /\ OpOf(script, r, x) = Op(r)
  BY <1>1, <1>2, <1>3, AtPiece
<1>5. PICK S : S = AckedAtOnce(script, r)
  OBVIOUS
<1>6. /\ S \in SUBSET Pieces(script, r)
      /\ x \in S <=> Op(r).kind = "move" /\ Op(r).to # Nobody
  BY <1>4, <1>5 DEF AckedAtOnce, Posted
<1>7. Seen(r) = Upto(S, r, c) /\ Seen(r)' = Upto(S, r, c + 1)
  BY <1>1, <1>2, <1>3, <1>5 DEF Seen, Upto
<1>8. IsFiniteSet(Upto(S, r, c))
  BY <1>7 DEF Counted
<1>9. /\ IsFiniteSet(Upto(S, r, c + 1)) /\ Cardinality(Upto(S, r, c)) \in Nat
      /\ Cardinality(Upto(S, r, c + 1))
           = Cardinality(Upto(S, r, c)) + IF x \in S THEN 1 ELSE 0
  BY <1>1, <1>2, <1>3, <1>6, <1>8, Onward
<1>10. QED
  BY <1>6, <1>7, <1>9

(* Between movements nothing is done but to wait for the packetizer.       *)
LEMMA TurnCounts ==
  ASSUME EngineInv, NEW r \in Ranks, StartCall(r) \/ FinishOp(r), IsFiniteSet(Waited(r))
  PROVE  /\ \A d \in Ranks : Sent(r, d)' = Sent(r, d) /\ Got(r, d)' = Got(r, d)
         /\ Put(r)' = Put(r) /\ Seen(r)' = Seen(r)
         /\ IsFiniteSet(Waited(r)') /\ Cardinality(Waited(r)) \in Nat
         /\ Cardinality(Waited(r)')
              = Cardinality(Waited(r)) + IF pc[r] # 0 /\ Op(r).kind = "ack" THEN 1 ELSE 0
<1>1. /\ taken'[r] = 0 /\ moved'[r] = 0 /\ acked'[r] = 0 /\ script' = script
      /\ calls[r] < Len(Calls) /\ Len(Ops(r)) \in Nat /\ pc[r] <= Len(Ops(r))
      /\ \/ pc[r] = Len(Ops(r)) /\ calls'[r] = calls[r] + 1 /\ pc'[r] = 0
         \/ pc[r] < Len(Ops(r)) /\ calls'[r] = calls[r] /\ pc'[r] = pc[r] + 1
  BY NextPlace
<1>2. ASSUME NEW S \in SUBSET Pieces(script, r), NEW c \in {taken[r], moved[r], acked[r]}
      PROVE  Upto(S, r, c) = Reach(S, calls'[r] + 1, pc'[r], 0)
  BY <1>2, Boundary
<1>3. \A d \in Ranks : Sent(r, d)' = Sent(r, d)
  <2>1. SUFFICES ASSUME NEW d \in Ranks PROVE Sent(r, d)' = Sent(r, d)
    OBVIOUS
  <2>2. SentTo(script, r, d) \in SUBSET Pieces(script, r)
    BY DEF SentTo
  <2>3. Sent(r, d) = Reach(SentTo(script, r, d), calls'[r] + 1, pc'[r], 0)
    BY <1>2, <2>2 DEF Sent
  <2>4. QED
    BY <1>1, <2>3 DEF Sent, Upto
<1>4. \A d \in Ranks : Got(r, d)' = Got(r, d)
  <2>1. SUFFICES ASSUME NEW d \in Ranks PROVE Got(r, d)' = Got(r, d)
    OBVIOUS
  <2>2. TakenFrom(script, r, d) \in SUBSET Pieces(script, r)
    BY DEF TakenFrom
  <2>3. Got(r, d) = Reach(TakenFrom(script, r, d), calls'[r] + 1, pc'[r], 0)
    BY <1>2, <2>2 DEF Got
  <2>4. QED
    BY <1>1, <2>3 DEF Got, Upto
<1>5. Put(r)' = Put(r)
  <2>1. Posted(script, r) \in SUBSET Pieces(script, r)
    BY DEF Posted
  <2>2. Put(r) = Reach(Posted(script, r), calls'[r] + 1, pc'[r], 0)
    BY <1>2, <2>1 DEF Put
  <2>3. QED
    BY <1>1, <2>2 DEF Put, Upto
<1>6. Seen(r)' = Seen(r)
  <2>1. AckedAtOnce(script, r) \in SUBSET Pieces(script, r)
    BY DEF AckedAtOnce, Posted
  <2>2. Seen(r) = Reach(AckedAtOnce(script, r), calls'[r] + 1, pc'[r], 0)
    BY <1>2, <2>1 DEF Seen
  <2>3. QED
    BY <1>1, <2>2 DEF Seen, Upto
<1>7. /\ IsFiniteSet(Waited(r)') /\ Cardinality(Waited(r)) \in Nat
      /\ Cardinality(Waited(r)')
           = Cardinality(Waited(r)) + IF pc[r] # 0 /\ Op(r).kind = "ack" THEN 1 ELSE 0
  <2>0. PICK S : S = AckedLater(script, r)
    OBVIOUS
  <2>1. PICK i \in Nat, j \in Nat, n \in DOMAIN Scripts :
          /\ S = AckedLater(n, r) /\ n = script /\ i = calls[r] + 1 /\ j = pc[r]
          /\ i \in 1 .. Len(Scripts[n])
          /\ Ops(r) = Plan[n][i][r] /\ Ops(r) \in Seq(Movements)
          /\ j # 0 => Op(r) = Plan[n][i][r][j] /\ j \in DOMAIN Ops(r)
    BY <1>1, <2>0, Place
  <2>2. /\ S \in SUBSET Triples
        /\ \A x \in S : x[2] \in DOMAIN Plan[n][x[1]][r] /\ x[3] = 0
        /\ j # 0 => (<<i, j, 0>> \in S <=> Op(r).kind = "ack")
    <3>1. /\ AckedLater(n, r) \in SUBSET Triples
          /\ \A x \in AckedLater(n, r) : x[2] \in DOMAIN Plan[n][x[1]][r] /\ x[3] = 0
          /\ j \in DOMAIN Plan[n][i][r] =>
               (<<i, j, 0>> \in AckedLater(n, r) <=> Plan[n][i][r][j].kind = "ack")
      BY <2>1, WaitFacts
    <3>2. QED
      BY <2>1, <3>1
  <2>3. Waited(r) = Reach(S, i, j, 0)
    BY <2>1 DEF Waited, Upto
  <2>4. <<i, j, 0>> \in S <=> j # 0 /\ Op(r).kind = "ack"
    <3>1. j = 0 => <<i, j, 0>> \notin Triples
      BY DEF Triples
    <3>2. QED
      BY <2>2, <3>1
  <2>5. /\ IsFiniteSet(Reach(S, i, j, 1)) /\ Cardinality(Reach(S, i, j, 0)) \in Nat
        /\ Cardinality(Reach(S, i, j, 1))
             = Cardinality(Reach(S, i, j, 0)) + IF <<i, j, 0>> \in S THEN 1 ELSE 0
    <3>1. PICK c \in Nat : c = 0 /\ c + 1 = 1
      OBVIOUS
    <3>2. IsFiniteSet(Reach(S, i, j, c))
      BY <2>3, <3>1
    <3>3. /\ IsFiniteSet(Reach(S, i, j, c + 1)) /\ Cardinality(Reach(S, i, j, c)) \in Nat
          /\ <<i, j, c>> \in S =>
               Cardinality(Reach(S, i, j, c + 1)) = Cardinality(Reach(S, i, j, c)) + 1
          /\ <<i, j, c>> \notin S => Reach(S, i, j, c + 1) = Reach(S, i, j, c)
      BY <2>2, <3>2, ReachNext
    <3>4. QED
      BY <3>1, <3>3
  <2>6. Waited(r)' = Reach(S, i, j, 1)
    <3>1. Waited(r)' = Reach(S, calls'[r] + 1, pc'[r], 0)
      BY <1>1, <2>1 DEF Waited, Upto
    <3>2. CASE pc[r] = Len(Ops(r))
      <4>1. ASSUME NEW x \in S, x[1] = i
            PROVE  x[2] < j \/ (x[2] = j /\ x[3] < 1)
        <5>1. x[2] \in DOMAIN Plan[n][i][r] /\ x[3] = 0
          BY <2>2, <4>1
        <5>2. DOMAIN Ops(r) = 1 .. Len(Ops(r))
          BY <2>1
        <5>3. x[2] \in 1 .. Len(Ops(r))
          BY <2>1, <5>1, <5>2
        <5>4. QED
          BY <1>1, <2>1, <3>2, <5>1, <5>3
      <4>2. Reach(S, i, j, 1) = Reach(S, i + 1, 0, 0)
        BY <2>2, <4>1, ReachCall
      <4>3. calls'[r] = calls[r] + 1 /\ pc'[r] = 0
        BY <1>1, <3>2
      <4>4. calls'[r] + 1 = i + 1
        BY <2>1, <4>3
      <4>5. QED
        BY <3>1, <4>2, <4>3, <4>4
    <3>3. CASE pc[r] < Len(Ops(r))
      <4>1. Reach(S, i, j, 1) = Reach(S, i, j + 1, 0)
        BY <2>2, ReachMovement
      <4>2. QED
        BY <1>1, <2>1, <3>1, <3>3, <4>1
    <3>4. QED
      BY <1>1, <3>2, <3>3
  <2>7. QED
    BY <2>1, <2>3, <2>4, <2>5, <2>6
<1>8. QED
  BY <1>3, <1>4, <1>5, <1>6, <1>7

-----------------------------------------------------------------------------

(* The queues of a rank, and who sent what is in them.                     *)
ShapeOf(r) ==
  /\ IsSeq(held[r]) /\ IsSeq(pool[r]) /\ IsSeq(sts[r])
  /\ \A i \in DOMAIN pool[r] : pool[r][i].src \in Ranks
  /\ DOMAIN link[r] = Ranks
  /\ \A d \in Ranks :
       IsSeq(link[r][d]) /\ \A i \in DOMAIN link[r][d] : link[r][d][i].src = r

Shapes ==
  /\ DOMAIN held = Ranks /\ DOMAIN pool = Ranks /\ DOMAIN sts = Ranks /\ DOMAIN link = Ranks
  /\ \A r \in Ranks : ShapeOf(r)

(* A segment that was sent is in the network, in a spare buffer or taken.  *)
Flow(s, d) ==
  Cardinality(Sent(s, d))
    = Cardinality(Got(d, s)) + Len(link[s][d]) + Cardinality(Idx(pool[d], s))

(* A status that was posted is in the queue or acknowledged.               *)
Statuses(r) ==
  Cardinality(Put(r)) = Cardinality(Seen(r)) + Cardinality(Waited(r)) + Len(sts[r])

(* The spare buffers in use are those of the segments under way.           *)
Holding(r) ==
  IF pc[r] # 0 /\ Op(r).from # Nobody THEN Len(held[r]) = taken[r] - acked[r]
  ELSE held[r] = <<>>

Conserved ==
  /\ Shapes
  /\ \A r \in Ranks : Counted(r) /\ Statuses(r) /\ Holding(r)
  /\ \A s, d \in Ranks : Flow(s, d)

(* What the actions do to the queues.                                      *)
LEMMA TakeQueues ==
  ASSUME EngineInv, Shapes, NEW r \in Ranks, Take(r)
  PROVE  /\ UNCHANGED <<script, calls, pc, acked, moved, sts, link>> /\ pc[r] # 0
         /\ DOMAIN held' = Ranks /\ DOMAIN pool' = Ranks
         /\ taken'[r] = taken[r] + 1 /\ \A q \in Ranks \ {r} : taken'[q] = taken[q]
         /\ \A q \in Ranks \ {r} : pool'[q] = pool[q] /\ held'[q] = held[q]
         /\ Op(r).from = Nobody => pool' = pool /\ held' = held
         /\ Op(r).from # Nobody =>
              \E i \in DOMAIN pool[r] :
                /\ pool[r][i].src = Op(r).from /\ pool'[r] = Without(pool[r], i)
                /\ held'[r] = Append(held[r], pool[r][i])
<1>1. /\ UNCHANGED <<script, calls, pc, acked, moved, sts, link>> /\ pc[r] # 0
      /\ taken' = [taken EXCEPT ![r] = @ + 1]
  BY DEF Take
<1>2. /\ DOMAIN held = Ranks /\ DOMAIN pool = Ranks /\ taken \in [Ranks -> Nat]
      /\ IsSeq(pool[r])
  BY DEF Shapes, ShapeOf, EngineInv, Types
<1>3. CASE Op(r).from = Nobody
  <2>1. UNCHANGED <<held, pool>>
    BY <1>3 DEF Take
  <2>2. QED
    BY <1>1, <1>2, <1>3, <2>1
<1>4. CASE Op(r).from # Nobody
  <2>1. PICK i : /\ i = Oldest(r, Op(r).from) /\ From(r, Op(r).from) # {}
                 /\ held' = [held EXCEPT ![r] = Append(@, pool[r][i])]
                 /\ pool' = [pool EXCEPT ![r] = Without(@, i)]
    BY <1>4 DEF Take
  <2>2. i \in DOMAIN pool[r] /\ pool[r][i].src = Op(r).from
    BY <1>2, <2>1, OldestFacts
  <2>3. QED
    BY <1>1, <1>2, <1>4, <2>1, <2>2
<1>5. QED
  BY <1>3, <1>4

LEMMA MoveQueues ==
  ASSUME EngineInv, Shapes, NEW r \in Ranks, Move(r)
  PROVE  /\ UNCHANGED <<script, calls, pc, taken, acked, held, pool>> /\ pc[r] # 0
         /\ \A q \in Ranks \ {r} : moved'[q] = moved[q]
         /\ DOMAIN link' = Ranks /\ DOMAIN sts' = Ranks
         /\ \A q \in Ranks \ {r} : link'[q] = link[q] /\ sts'[q] = sts[q]
         /\ DOMAIN link'[r] = Ranks
         /\ \A d \in Ranks : d # Op(r).to => link'[r][d] = link[r][d]
         /\ Op(r).to = Nobody => link' = link /\ sts' = sts
         /\ Op(r).to # Nobody =>
              /\ Op(r).to \in Ranks /\ sts'[r] = Append(sts[r], Op(r).to)
              /\ \E x : x.src = r /\ link'[r][Op(r).to] = Append(link[r][Op(r).to], x)
<1>1. /\ UNCHANGED <<script, calls, pc, taken, acked, held, pool>>
      /\ moved[r] < taken[r] /\ moved' = [moved EXCEPT ![r] = @ + 1]
  BY DEF Move, fwVars
<1>2. /\ DOMAIN link = Ranks /\ DOMAIN sts = Ranks /\ DOMAIN link[r] = Ranks
      /\ moved \in [Ranks -> Nat]
  BY DEF Shapes, ShapeOf, EngineInv, Types
<1>3. pc[r] # 0
  BY <1>1 DEF EngineInv, Types, IdleClean
<1>4. CASE Op(r).to = Nobody
  <2>1. UNCHANGED <<link, sts>>
    BY <1>4 DEF Move
  <2>2. QED
    BY <1>1, <1>2, <1>3, <1>4, <2>1
<1>5. CASE Op(r).to # Nobody
  <2>1. PICK vals :
          /\ link' = [link EXCEPT ![r][Op(r).to] = Append(@, [src |-> r, vals |-> vals])]
          /\ sts' = [sts EXCEPT ![r] = Append(@, Op(r).to)]
    BY <1>5 DEF Move
  <2>2. Op(r).to \in Ranks
    BY <1>3, <1>5, OpType DEF Movements
  <2>3. [src |-> r, vals |-> vals].src = r
    OBVIOUS
  <2>4. PICK x : x = [src |-> r, vals |-> vals]
    OBVIOUS
  <2>5. /\ link' = [link EXCEPT ![r][Op(r).to] = Append(@, x)] /\ x.src = r
        /\ sts' = [sts EXCEPT ![r] = Append(@, Op(r).to)]
    BY <2>1, <2>3, <2>4
  <2>6. /\ DOMAIN link' = Ranks /\ \A q \in Ranks \ {r} : link'[q] = link[q]
        /\ link'[r] = [link[r] EXCEPT ![Op(r).to] = Append(@, x)]
    BY <1>2, <2>5
  <2>7. /\ DOMAIN link'[r] = Ranks
        /\ \A d \in Ranks : d # Op(r).to => link'[r][d] = link[r][d]
        /\ link'[r][Op(r).to] = Append(link[r][Op(r).to], x)
    BY <1>2, <2>2, <2>6
  <2>8. /\ DOMAIN sts' = Ranks /\ \A q \in Ranks \ {r} : sts'[q] = sts[q]
        /\ sts'[r] = Append(sts[r], Op(r).to)
    BY <1>2, <2>5
  <2>9. QED
    BY <1>1, <1>2, <1>3, <1>5, <2>2, <2>5, <2>6, <2>7, <2>8
<1>6. QED
  BY <1>4, <1>5

LEMMA AckQueues ==
  ASSUME Shapes, EngineInv, NEW r \in Ranks, Ack(r)
  PROVE  /\ UNCHANGED <<script, calls, pc, taken, moved, pool, link>> /\ pc[r] # 0
         /\ acked'[r] = acked[r] + 1 /\ acked[r] < moved[r]
         /\ \A q \in Ranks \ {r} : acked'[q] = acked[q]
         /\ DOMAIN held' = Ranks /\ DOMAIN sts' = Ranks
         /\ \A q \in Ranks \ {r} : held'[q] = held[q] /\ sts'[q] = sts[q]
         /\ held'[r] = IF Op(r).from = Nobody THEN held[r] ELSE Tail(held[r])
         /\ IF Op(r).kind = "move" /\ Op(r).to # Nobody
            THEN sts[r] # <<>> /\ sts'[r] = Tail(sts[r])
            ELSE sts'[r] = sts[r]
<1>1. /\ UNCHANGED <<script, calls, pc, taken, moved, pool, link>> /\ pc[r] # 0
      /\ acked' = [acked EXCEPT ![r] = @ + 1] /\ acked[r] < moved[r]
      /\ held' = IF Op(r).from = Nobody THEN held ELSE [held EXCEPT ![r] = Tail(@)]
      /\ IF Op(r).kind = "move" /\ Op(r).to # Nobody
         THEN sts[r] # <<>> /\ sts' = [sts EXCEPT ![r] = Tail(@)]
         ELSE sts' = sts
  BY DEF Ack
<1>2. DOMAIN held = Ranks /\ DOMAIN sts = Ranks /\ acked \in [Ranks -> Nat]
  BY DEF Shapes, EngineInv, Types
<1>3. QED
  BY <1>1, <1>2

LEMMA TurnQueues ==
  ASSUME Shapes, EngineInv, NEW r \in Ranks, StartCall(r) \/ FinishOp(r)
  PROVE  /\ DOMAIN sts' = Ranks /\ \A q \in Ranks \ {r} : sts'[q] = sts[q]
         /\ IF pc[r] # 0 /\ Op(r).kind = "ack"
            THEN sts[r] # <<>> /\ sts'[r] = Tail(sts[r])
            ELSE sts'[r] = sts[r]
<1>1. DOMAIN sts = Ranks
  BY DEF Shapes
<1>2. CASE pc[r] = 0
  BY <1>1, <1>2, NextPlace
<1>3. CASE pc[r] # 0
  <2>1. FinishOp(r)
    BY <1>3, NextPlace
  <2>2. QED
    BY <1>1, <1>3, <2>1 DEF FinishOp
<1>4. QED
  BY <1>2, <1>3

LEMMA ArriveQueues ==
  ASSUME Shapes, NEW s \in Ranks, NEW d \in Ranks, Arrive(s, d)
  PROVE  /\ UNCHANGED <<fwVars, moved, held, sts>> /\ link[s][d] # <<>>
         /\ DOMAIN pool' = Ranks /\ DOMAIN link' = Ranks /\ \A q \in Ranks : DOMAIN link'[q] = Ranks
         /\ pool'[d] = Append(pool[d], Head(link[s][d])) /\ Head(link[s][d]).src = s
         /\ link'[s][d] = Tail(link[s][d])
         /\ \A q \in Ranks \ {d} : pool'[q] = pool[q]
         /\ \A q, e \in Ranks : q # s \/ e # d => link'[q][e] = link[q][e]
<1>1. /\ UNCHANGED <<fwVars, moved, held, sts>> /\ link[s][d] # <<>>
      /\ pool' = [pool EXCEPT ![d] = Append(@, Head(link[s][d]))]
      /\ link' = [link EXCEPT ![s][d] = Tail(@)]
  BY DEF Arrive
<1>2. /\ DOMAIN pool = Ranks /\ DOMAIN link = Ranks /\ \A q \in Ranks : DOMAIN link[q] = Ranks
      /\ IsSeq(link[s][d]) /\ \A i \in DOMAIN link[s][d] : link[s][d][i].src = s
  BY DEF Shapes, ShapeOf
<1>3. Head(link[s][d]).src = s
  <2>1. 1 \in DOMAIN link[s][d] /\ Head(link[s][d]) = link[s][d][1]
    BY <1>1, <1>2, TailFacts
  <2>2. QED
    BY <1>2, <2>1
<1>4. QED
  BY <1>1, <1>2, <1>3

LEMMA EngineCases ==
  ASSUME [EngineNext]_vars
  PROVE  \/ \E r \in Ranks : StartCall(r) \/ FinishOp(r)
         \/ \E r \in Ranks : Take(r)
         \/ \E r \in Ranks : Ack(r)
         \/ \E r \in Ranks : Move(r)
         \/ \E s, d \in Ranks : Arrive(s, d)
         \/ UNCHANGED vars
  BY DEF EngineNext

(* The queues remain queues.                                               *)
LEMMA ShapesStep ==
  ASSUME EngineInv, Conserved, [EngineNext]_vars
  PROVE  Shapes'
<1>1. Shapes /\ \A r \in Ranks : Holding(r)
  BY DEF Conserved
<1>2. ASSUME NEW q \in Ranks,
             held'[q] = held[q], pool'[q] = pool[q], sts'[q] = sts[q], link'[q] = link[q]
      PROVE  ShapeOf(q)'
  BY <1>1, <1>2 DEF Shapes, ShapeOf
<1>3. ASSUME NEW r \in Ranks, StartCall(r) \/ FinishOp(r) PROVE Shapes'
  <2>1. UNCHANGED <<held, pool, link>>
    BY <1>3 DEF StartCall, FinishOp
  <2>2. /\ DOMAIN sts' = Ranks /\ \A q \in Ranks \ {r} : sts'[q] = sts[q]
        /\ sts'[r] = sts[r] \/ (sts[r] # <<>> /\ sts'[r] = Tail(sts[r]))
    BY <1>1, <1>3, TurnQueues
  <2>3. IsSeq(sts'[r])
    <3>1. IsSeq(sts[r])
      BY <1>1 DEF Shapes, ShapeOf
    <3>2. sts[r] # <<>> => IsSeq(Tail(sts[r]))
      BY <3>1, TailFacts
    <3>3. QED
      BY <2>2, <3>1, <3>2
  <2>4. ShapeOf(r)'
    BY <1>1, <2>1, <2>3 DEF Shapes, ShapeOf
  <2>5. QED
    BY <1>1, <1>2, <2>1, <2>2, <2>4 DEF Shapes
<1>4. ASSUME NEW r \in Ranks, Take(r) PROVE Shapes'
  <2>1. /\ UNCHANGED <<sts, link>> /\ DOMAIN held' = Ranks /\ DOMAIN pool' = Ranks
        /\ \A q \in Ranks \ {r} : pool'[q] = pool[q] /\ held'[q] = held[q]
        /\ Op(r).from = Nobody => pool' = pool /\ held' = held
        /\ Op(r).from # Nobody =>
             \E i \in DOMAIN pool[r] :
               /\ pool'[r] = Without(pool[r], i)
               /\ held'[r] = Append(held[r], pool[r][i])
    BY <1>1, <1>4, TakeQueues
  <2>2. CASE Op(r).from = Nobody
    BY <1>1, <1>2, <2>1, <2>2 DEF Shapes
  <2>3. CASE Op(r).from # Nobody
    <3>1. PICK i \in DOMAIN pool[r] : /\ pool'[r] = Without(pool[r], i)
                                      /\ held'[r] = Append(held[r], pool[r][i])
      BY <2>1, <2>3
    <3>2. IsSeq(pool[r]) /\ IsSeq(held[r]) /\ \A j \in DOMAIN pool[r] : pool[r][j].src \in Ranks
      BY <1>1 DEF Shapes, ShapeOf
    <3>3. IsSeq(held'[r])
      BY <3>1, <3>2, AppendFacts
    <3>4. PICK w : w = Without(pool[r], i)
      OBVIOUS
    <3>5. IsSeq(w) /\ \A j \in DOMAIN w : \E k \in DOMAIN pool[r] : w[j] = pool[r][k]
      BY <3>2, <3>4, IndexCut
    <3>6. IsSeq(pool'[r]) /\ \A j \in DOMAIN pool'[r] : pool'[r][j].src \in Ranks
      BY <3>1, <3>2, <3>4, <3>5
    <3>7. ShapeOf(r)'
      BY <1>1, <2>1, <3>3, <3>6 DEF Shapes, ShapeOf
    <3>8. QED
      BY <1>1, <1>2, <2>1, <3>7 DEF Shapes
  <2>4. QED
    BY <2>2, <2>3
<1>5. ASSUME NEW r \in Ranks, Ack(r) PROVE Shapes'
  <2>1. /\ UNCHANGED <<pool, link>> /\ pc[r] # 0 /\ acked[r] < moved[r]
        /\ DOMAIN held' = Ranks /\ DOMAIN sts' = Ranks
        /\ \A q \in Ranks \ {r} : held'[q] = held[q] /\ sts'[q] = sts[q]
        /\ held'[r] = IF Op(r).from = Nobody THEN held[r] ELSE Tail(held[r])
        /\ sts'[r] = sts[r] \/ (sts[r] # <<>> /\ sts'[r] = Tail(sts[r]))
    BY <1>1, <1>5, AckQueues
  <2>2. moved[r] <= taken[r] /\ acked[r] \in Nat /\ moved[r] \in Nat /\ taken[r] \in Nat
    BY <2>1 DEF EngineInv, Types, InMovement
  <2>3. IsSeq(held[r]) /\ IsSeq(sts[r])
    BY <1>1 DEF Shapes, ShapeOf
  <2>4. Op(r).from # Nobody => held[r] # <<>>
    <3>1. SUFFICES ASSUME Op(r).from # Nobody, held[r] = <<>> PROVE FALSE
      OBVIOUS
    <3>2. Len(held[r]) = taken[r] - acked[r]
      BY <1>1, <2>1, <3>1 DEF Holding
    <3>3. Len(held[r]) = 0
      BY <3>1
    <3>4. QED
      BY <2>1, <2>2, <3>2, <3>3
  <2>5. IsSeq(held'[r]) /\ IsSeq(sts'[r])
    BY <2>1, <2>3, <2>4, TailFacts
  <2>6. ShapeOf(r)'
    BY <1>1, <2>1, <2>5 DEF Shapes, ShapeOf
  <2>7. QED
    BY <1>1, <1>2, <2>1, <2>6 DEF Shapes
<1>6. ASSUME NEW r \in Ranks, Move(r) PROVE Shapes'
  <2>1. /\ UNCHANGED <<held, pool>> /\ DOMAIN link' = Ranks /\ DOMAIN sts' = Ranks
        /\ \A q \in Ranks \ {r} : link'[q] = link[q] /\ sts'[q] = sts[q]
        /\ DOMAIN link'[r] = Ranks
        /\ \A d \in Ranks : d # Op(r).to => link'[r][d] = link[r][d]
        /\ Op(r).to = Nobody => link' = link /\ sts' = sts
        /\ Op(r).to # Nobody =>
             /\ Op(r).to \in Ranks /\ sts'[r] = Append(sts[r], Op(r).to)
             /\ \E x : x.src = r /\ link'[r][Op(r).to] = Append(link[r][Op(r).to], x)
    BY <1>1, <1>6, MoveQueues
  <2>2. CASE Op(r).to = Nobody
    BY <1>1, <1>2, <2>1, <2>2 DEF Shapes
  <2>3. CASE Op(r).to # Nobody
    <3>1. PICK e \in Ranks : e = Op(r).to
      BY <2>1, <2>3
    <3>2. PICK x : x.src = r /\ link'[r][e] = Append(link[r][e], x)
      BY <2>1, <2>3, <3>1
    <3>3. IsSeq(sts[r]) /\ IsSeq(link[r][e]) /\ \A i \in DOMAIN link[r][e] : link[r][e][i].src = r
      BY <1>1 DEF Shapes, ShapeOf
    <3>4. IsSeq(sts'[r])
      <4>1. IsSeq(sts[r])
        BY <3>3
      <4>2. IsSeq(Append(sts[r], e))
        BY <4>1, AppendFacts
      <4>3. QED
        BY <2>1, <2>3, <3>1, <4>2
    <3>5. PICK n \in Nat, a \in {Append(link[r][e], x)} :
            /\ n = Len(link[r][e]) /\ IsSeq(a) /\ DOMAIN a = 1 .. n + 1
            /\ DOMAIN link[r][e] = 1 .. n /\ a[n + 1] = x
            /\ \A i \in 1 .. n : a[i] = link[r][e][i]
      BY <3>3, AppendFacts
    <3>6. ASSUME NEW i \in DOMAIN a PROVE a[i].src = r
      <4>1. i \in 1 .. n \/ i = n + 1
        BY <3>5
      <4>2. QED
        BY <3>2, <3>3, <3>5, <4>1
    <3>7. ASSUME NEW d \in Ranks
          PROVE  IsSeq(link'[r][d]) /\ \A i \in DOMAIN link'[r][d] : link'[r][d][i].src = r
      <4>1. CASE d = e
        BY <3>2, <3>5, <3>6, <4>1
      <4>2. CASE d # e
        <5>1. link'[r][d] = link[r][d]
          BY <2>1, <3>1, <4>2
        <5>2. QED
          BY <1>1, <5>1 DEF Shapes, ShapeOf
      <4>3. QED
        BY <4>1, <4>2
    <3>8. ShapeOf(r)'
      BY <1>1, <2>1, <3>4, <3>7 DEF Shapes, ShapeOf
    <3>9. QED
      BY <1>1, <1>2, <2>1, <3>8 DEF Shapes
  <2>4. QED
    BY <2>2, <2>3
<1>7. ASSUME NEW s \in Ranks, NEW d \in Ranks, Arrive(s, d) PROVE Shapes'
  <2>1. /\ UNCHANGED <<held, sts>> /\ link[s][d] # <<>>
        /\ DOMAIN pool' = Ranks /\ DOMAIN link' = Ranks /\ \A q \in Ranks : DOMAIN link'[q] = Ranks
        /\ pool'[d] = Append(pool[d], Head(link[s][d])) /\ Head(link[s][d]).src = s
        /\ link'[s][d] = Tail(link[s][d])
        /\ \A q \in Ranks \ {d} : pool'[q] = pool[q]
        /\ \A q, e \in Ranks : q # s \/ e # d => link'[q][e] = link[q][e]
    BY <1>1, <1>7, ArriveQueues
  <2>2. /\ IsSeq(pool[d]) /\ \A i \in DOMAIN pool[d] : pool[d][i].src \in Ranks
        /\ IsSeq(link[s][d]) /\ \A i \in DOMAIN link[s][d] : link[s][d][i].src = s
    BY <1>1 DEF Shapes, ShapeOf
  <2>3. PICK n \in Nat, a \in {Append(pool[d], Head(link[s][d]))} :
          /\ n = Len(pool[d]) /\ IsSeq(a) /\ DOMAIN a = 1 .. n + 1
          /\ DOMAIN pool[d] = 1 .. n /\ a[n + 1] = Head(link[s][d])
          /\ \A i \in 1 .. n : a[i] = pool[d][i]
    BY <2>2, AppendFacts
  <2>4. ASSUME NEW i \in DOMAIN a PROVE a[i].src \in Ranks
    <3>1. i \in 1 .. n \/ i = n + 1
      BY <2>3
    <3>2. QED
      BY <2>1, <2>2, <2>3, <3>1
  <2>5. \A q \in Ranks : IsSeq(pool'[q]) /\ \A i \in DOMAIN pool'[q] : pool'[q][i].src \in Ranks
    <3>1. IsSeq(pool'[d]) /\ \A i \in DOMAIN pool'[d] : pool'[d][i].src \in Ranks
      BY <2>1, <2>3, <2>4
    <3>2. QED
      BY <1>1, <2>1, <3>1 DEF Shapes, ShapeOf
  <2>6. PICK b : b = Tail(link[s][d])
    OBVIOUS
  <2>7. IsSeq(b) /\ \A i \in DOMAIN b : b[i].src = s
    <3>1. PICK n2 \in Nat : /\ IsSeq(b) /\ DOMAIN link[s][d] = 1 .. n2 /\ DOMAIN b = 1 .. n2 - 1
                            /\ \A i \in DOMAIN b : b[i] = link[s][d][i + 1]
      BY <2>1, <2>2, <2>6, TailFacts
    <3>2. \A i \in DOMAIN b : i + 1 \in DOMAIN link[s][d]
      BY <3>1
    <3>3. QED
      BY <2>2, <3>1, <3>2
  <2>8. ASSUME NEW q \in Ranks, NEW e \in Ranks
        PROVE  IsSeq(link'[q][e]) /\ \A i \in DOMAIN link'[q][e] : link'[q][e][i].src = q
    <3>1. CASE q = s /\ e = d
      BY <2>1, <2>6, <2>7, <3>1
    <3>2. CASE q # s \/ e # d
      <4>1. link'[q][e] = link[q][e]
        BY <2>1, <3>2
      <4>2. QED
        BY <1>1, <4>1 DEF Shapes, ShapeOf
    <3>3. QED
      BY <3>1, <3>2
  <2>9. QED
    BY <1>1, <2>1, <2>5, <2>8 DEF Shapes, ShapeOf
<1>8. CASE UNCHANGED vars
  BY <1>1, <1>8 DEF Shapes, ShapeOf, vars
<1>9. QED
  BY <1>3, <1>4, <1>5, <1>6, <1>7, <1>8, EngineCases

(* Taken segments keep their spare buffers until they are acknowledged.    *)
LEMMA HoldingStep ==
  ASSUME EngineInv, Conserved, [EngineNext]_vars, NEW q \in Ranks
  PROVE  Holding(q)'
<1>1. Shapes /\ Holding(q) /\ IsSeq(held[q])
  BY DEF Conserved, Shapes, ShapeOf
<1>2. ASSUME script' = script, calls'[q] = calls[q], pc'[q] = pc[q], held'[q] = held[q],
             taken'[q] = taken[q], acked'[q] = acked[q]
      PROVE  Holding(q)'
  BY <1>1, <1>2 DEF Holding, Op, Ops
<1>3. ASSUME NEW r \in Ranks, StartCall(r) \/ FinishOp(r) PROVE Holding(q)'
  <2>1. CASE q = r
    <3>1. /\ taken'[q] = 0 /\ acked'[q] = 0 /\ held' = held
          /\ pc[q] # 0 => taken[q] - acked[q] = 0
      <4>1. /\ taken'[q] = 0 /\ acked'[q] = 0 /\ held' = held
            /\ pc[q] # 0 => taken[q] = moved[q] /\ acked[q] = moved[q]
        BY <1>3, <2>1, NextPlace
      <4>2. moved[q] \in Nat
        BY DEF EngineInv, Types
      <4>3. QED
        BY <4>1, <4>2
    <3>2. held[q] = <<>>
      BY <1>1, <3>1, EmptyFacts DEF Holding
    <3>3. held'[q] = <<>> /\ Len(held'[q]) = taken'[q] - acked'[q]
      BY <3>1, <3>2
    <3>4. QED
      BY <3>3 DEF Holding
  <2>2. CASE q # r
    BY <1>2, <1>3, <2>2, NextPlace
  <2>3. QED
    BY <2>1, <2>2
<1>4. ASSUME NEW r \in Ranks, Take(r) PROVE Holding(q)'
  <2>1. /\ UNCHANGED <<script, calls, pc, acked>> /\ pc[r] # 0
        /\ taken'[r] = taken[r] + 1
        /\ Op(r).from = Nobody => held' = held
        /\ Op(r).from # Nobody => \E x : held'[r] = Append(held[r], x)
    BY <1>1, <1>4, TakeQueues
  <2>2. CASE q = r
    <3>1. Op(q)' = Op(q)
      BY <2>1 DEF Op, Ops
    <3>2. CASE Op(q).from = Nobody
      BY <1>1, <2>1, <2>2, <3>1, <3>2 DEF Holding
    <3>3. CASE Op(q).from # Nobody
      <4>1. PICK x : held'[q] = Append(held[q], x)
        BY <2>1, <2>2, <3>3
      <4>2. Len(held'[q]) = Len(held[q]) + 1
        BY <1>1, <4>1, AppendFacts
      <4>3. Len(held[q]) = taken[q] - acked[q]
        BY <1>1, <2>1, <2>2, <3>3 DEF Holding
      <4>4. taken[q] \in Nat /\ acked[q] \in Nat
        BY DEF EngineInv, Types
      <4>5. Len(held'[q]) = taken'[q] - acked'[q]
        BY <2>1, <2>2, <4>2, <4>3, <4>4
      <4>6. QED
        BY <2>1, <2>2, <3>1, <3>3, <4>5 DEF Holding
    <3>4. QED
      BY <3>2, <3>3
  <2>3. CASE q # r
    BY <1>1, <1>2, <1>4, <2>3, TakeQueues
  <2>4. QED
    BY <2>2, <2>3
<1>5. ASSUME NEW r \in Ranks, Ack(r) PROVE Holding(q)'
  <2>1. /\ UNCHANGED <<script, calls, pc, taken>> /\ pc[r] # 0
        /\ acked'[r] = acked[r] + 1 /\ acked[r] < moved[r]
        /\ held'[r] = IF Op(r).from = Nobody THEN held[r] ELSE Tail(held[r])
    BY <1>1, <1>5, AckQueues
  <2>2. CASE q = r
    <3>1. Op(q)' = Op(q)
      BY <2>1 DEF Op, Ops
    <3>2. CASE Op(q).from = Nobody
      BY <1>1, <2>1, <2>2, <3>1, <3>2 DEF Holding
    <3>3. CASE Op(q).from # Nobody
      <4>1. Len(held[q]) = taken[q] - acked[q]
        BY <1>1, <2>1, <2>2, <3>3 DEF Holding
      <4>2. /\ taken[q] \in Nat /\ acked[q] \in Nat /\ moved[q] \in Nat
            /\ moved[q] <= taken[q]
        BY <2>1, <2>2 DEF EngineInv, Types, InMovement
      <4>3. Len(held[q]) # 0
        BY <2>1, <2>2, <4>1, <4>2
      <4>4. held[q] # <<>>
        BY <4>3
      <4>5. Len(Tail(held[q])) = Len(held[q]) - 1
        BY <1>1, <4>4, TailFacts
      <4>6. Len(held'[q]) = taken'[q] - acked'[q]
        <5>1. /\ acked'[q] = acked[q] + 1 /\ taken'[q] = taken[q]
              /\ Len(held'[q]) = Len(held[q]) - 1
          BY <2>1, <2>2, <3>3, <4>5
        <5>2. PICK a \in Nat, b \in Nat : a = taken[q] /\ b = acked[q]
          BY <4>2
        <5>3. (a - b) - 1 = a - (b + 1)
          OBVIOUS
        <5>4. QED
          BY <4>1, <5>1, <5>2, <5>3
      <4>7. QED
        BY <2>1, <2>2, <3>1, <3>3, <4>6 DEF Holding
    <3>4. QED
      BY <3>2, <3>3
  <2>3. CASE q # r
    BY <1>1, <1>2, <1>5, <2>3, AckQueues
  <2>4. QED
    BY <2>2, <2>3
<1>6. ASSUME NEW r \in Ranks, Move(r) PROVE Holding(q)'
  BY <1>1, <1>2, <1>6, MoveQueues
<1>7. ASSUME NEW s \in Ranks, NEW d \in Ranks, Arrive(s, d) PROVE Holding(q)'
  BY <1>2, <1>7 DEF Arrive, fwVars
<1>8. CASE UNCHANGED vars
  BY <1>2, <1>8 DEF vars, fwVars
<1>9. QED
  BY <1>3, <1>4, <1>5, <1>6, <1>7, <1>8, EngineCases

(* What is counted stays finite.                                           *)
LEMMA CountedStep ==
  ASSUME EngineInv, Conserved, [EngineNext]_vars, NEW q \in Ranks
  PROVE  Counted(q)'
<1>1. Shapes /\ Counted(q)
  BY DEF Conserved
<1>2. ASSUME NEW r \in Ranks, StartCall(r) \/ FinishOp(r) PROVE Counted(q)'
  <2>1. CASE q = r
    BY <1>1, <1>2, <2>1, TurnCounts DEF Counted
  <2>2. CASE q # r
    <3>1. /\ script' = script /\ calls'[q] = calls[q] /\ pc'[q] = pc[q]
          /\ taken'[q] = taken[q] /\ moved'[q] = moved[q] /\ acked'[q] = acked[q]
      BY <1>2, <2>2, NextPlace
    <3>2. QED
      BY <1>1, <3>1, Idle DEF Counted
  <2>3. QED
    BY <2>1, <2>2
<1>3. ASSUME NEW r \in Ranks, Take(r) PROVE Counted(q)'
  <2>1. UNCHANGED <<script, calls, pc, acked, moved>>
    BY <1>3 DEF Take
  <2>2. /\ \A d \in Ranks : Sent(q, d)' = Sent(q, d)
        /\ Put(q)' = Put(q) /\ Seen(q)' = Seen(q) /\ Waited(q)' = Waited(q)
    BY <2>1, Idle
  <2>3. CASE q = r
    <3>1. \A s \in Ranks : IsFiniteSet(Got(q, s)')
      BY <1>1, <1>3, <2>3, TakeCounts
    <3>2. QED
      BY <1>1, <2>2, <3>1 DEF Counted
  <2>4. CASE q # r
    <3>1. taken'[q] = taken[q]
      BY <1>1, <1>3, <2>4, TakeQueues
    <3>2. \A d \in Ranks : Got(q, d)' = Got(q, d)
      BY <2>1, <3>1, Idle
    <3>3. QED
      BY <1>1, <2>2, <3>2 DEF Counted
  <2>5. QED
    BY <2>3, <2>4
<1>4. ASSUME NEW r \in Ranks, Ack(r) PROVE Counted(q)'
  <2>1. UNCHANGED <<script, calls, pc, taken, moved>>
    BY <1>4 DEF Ack
  <2>2. /\ \A d \in Ranks : Sent(q, d)' = Sent(q, d) /\ Got(q, d)' = Got(q, d)
        /\ Put(q)' = Put(q) /\ Waited(q)' = Waited(q)
    BY <2>1, Idle
  <2>3. CASE q = r
    <3>1. IsFiniteSet(Seen(q)')
      BY <1>1, <1>4, <2>3, AckCounts
    <3>2. QED
      BY <1>1, <2>2, <3>1 DEF Counted
  <2>4. CASE q # r
    <3>1. acked'[q] = acked[q]
      BY <1>1, <1>4, <2>4, AckQueues
    <3>2. Seen(q)' = Seen(q)
      BY <2>1, <3>1, Idle
    <3>3. QED
      BY <1>1, <2>2, <3>2 DEF Counted
  <2>5. QED
    BY <2>3, <2>4
<1>5. ASSUME NEW r \in Ranks, Move(r) PROVE Counted(q)'
  <2>1. UNCHANGED <<script, calls, pc, taken, acked>>
    BY <1>5 DEF Move, fwVars
  <2>2. /\ \A d \in Ranks : Got(q, d)' = Got(q, d)
        /\ Seen(q)' = Seen(q) /\ Waited(q)' = Waited(q)
    BY <2>1, Idle
  <2>3. CASE q = r
    <3>1. IsFiniteSet(Put(q)') /\ \A d \in Ranks : IsFiniteSet(Sent(q, d)')
      BY <1>1, <1>5, <2>3, MoveCounts
    <3>2. QED
      BY <1>1, <2>2, <3>1 DEF Counted
  <2>4. CASE q # r
    <3>1. moved'[q] = moved[q]
      BY <1>1, <1>5, <2>4, MoveQueues
    <3>2. Put(q)' = Put(q) /\ \A d \in Ranks : Sent(q, d)' = Sent(q, d)
      BY <2>1, <3>1, Idle
    <3>3. QED
      BY <1>1, <2>2, <3>2 DEF Counted
  <2>5. QED
    BY <2>3, <2>4
<1>6. CASE UNCHANGED <<fwVars, moved>>
  <2>1. UNCHANGED <<script, calls, pc, taken, acked, moved>>
    BY <1>6 DEF fwVars
  <2>2. /\ \A d \in Ranks : Sent(q, d)' = Sent(q, d) /\ Got(q, d)' = Got(q, d)
        /\ Put(q)' = Put(q) /\ Seen(q)' = Seen(q) /\ Waited(q)' = Waited(q)
    BY <2>1, Idle
  <2>3. QED
    BY <1>1, <2>2 DEF Counted
<1>7. (\E s, d \in Ranks : Arrive(s, d)) \/ UNCHANGED vars => UNCHANGED <<fwVars, moved>>
  BY DEF Arrive, vars
<1>8. QED
  BY <1>2, <1>3, <1>4, <1>5, <1>6, <1>7, EngineCases

(* A status is read once, by the movement that waits for it.               *)
LEMMA StatusesStep ==
  ASSUME EngineInv, Conserved, [EngineNext]_vars, NEW q \in Ranks
  PROVE  Statuses(q)'
<1>1. Shapes /\ Counted(q) /\ Statuses(q) /\ IsSeq(sts[q]) /\ Len(sts[q]) \in Nat
  BY EmptyFacts DEF Conserved, Shapes, ShapeOf
<1>2. PICK p \in Nat, a \in Nat, w \in Nat :
        /\ p = Cardinality(Put(q)) /\ a = Cardinality(Seen(q)) /\ w = Cardinality(Waited(q))
        /\ p = a + w + Len(sts[q])
  BY <1>1, FS_CardinalityType DEF Counted, Statuses
<1>3. ASSUME Put(q)' = Put(q), Seen(q)' = Seen(q), Waited(q)' = Waited(q), sts'[q] = sts[q]
      PROVE  Statuses(q)'
  BY <1>1, <1>3 DEF Statuses
<1>4. ASSUME NEW r \in Ranks, StartCall(r) \/ FinishOp(r) PROVE Statuses(q)'
  <2>1. CASE q = r
    <3>1. /\ Put(q)' = Put(q) /\ Seen(q)' = Seen(q)
          /\ Cardinality(Waited(q)')
               = w + IF pc[q] # 0 /\ Op(q).kind = "ack" THEN 1 ELSE 0
      BY <1>1, <1>2, <1>4, <2>1, TurnCounts DEF Counted
    <3>2. /\ IF pc[q] # 0 /\ Op(q).kind = "ack"
             THEN sts[q] # <<>> /\ sts'[q] = Tail(sts[q])
             ELSE sts'[q] = sts[q]
      BY <1>1, <1>4, <2>1, TurnQueues
    <3>3. CASE pc[q] # 0 /\ Op(q).kind = "ack"
      <4>1. Len(sts'[q]) = Len(sts[q]) - 1
        BY <1>1, <3>2, <3>3, TailFacts
      <4>2. Cardinality(Waited(q)') = w + 1
        BY <3>1, <3>3
      <4>3. p = a + (w + 1) + (Len(sts[q]) - 1)
        BY <1>1, <1>2
      <4>4. QED
        BY <1>2, <3>1, <4>1, <4>2, <4>3 DEF Statuses
    <3>4. CASE ~ (pc[q] # 0 /\ Op(q).kind = "ack")
      <4>1. Cardinality(Waited(q)') = w /\ sts'[q] = sts[q]
        BY <3>1, <3>2, <3>4
      <4>2. QED
        BY <1>2, <3>1, <4>1 DEF Statuses
    <3>5. QED
      BY <3>3, <3>4
  <2>2. CASE q # r
    <3>1. /\ script' = script /\ calls'[q] = calls[q] /\ pc'[q] = pc[q]
          /\ moved'[q] = moved[q] /\ acked'[q] = acked[q]
      BY <1>4, <2>2, NextPlace
    <3>2. Put(q)' = Put(q) /\ Seen(q)' = Seen(q) /\ Waited(q)' = Waited(q)
      BY <3>1, Idle
    <3>3. sts'[q] = sts[q]
      BY <1>1, <1>4, <2>2, TurnQueues
    <3>4. QED
      BY <1>3, <3>2, <3>3
  <2>3. QED
    BY <2>1, <2>2
<1>5. ASSUME NEW r \in Ranks, Ack(r) PROVE Statuses(q)'
  <2>1. UNCHANGED <<script, calls, pc, taken, moved>>
    BY <1>5 DEF Ack
  <2>2. Put(q)' = Put(q) /\ Waited(q)' = Waited(q)
    BY <2>1, Idle
  <2>3. CASE q = r
    <3>1. Cardinality(Seen(q)') = a + IF Op(q).kind = "move" /\ Op(q).to # Nobody THEN 1 ELSE 0
      BY <1>1, <1>2, <1>5, <2>3, AckCounts
    <3>2. /\ IF Op(q).kind = "move" /\ Op(q).to # Nobody
             THEN sts[q] # <<>> /\ sts'[q] = Tail(sts[q])
             ELSE sts'[q] = sts[q]
      BY <1>1, <1>5, <2>3, AckQueues
    <3>3. CASE Op(q).kind = "move" /\ Op(q).to # Nobody
      <4>1. Len(sts'[q]) = Len(sts[q]) - 1
        BY <1>1, <3>2, <3>3, TailFacts
      <4>2. Cardinality(Seen(q)') = a + 1
        BY <3>1, <3>3
      <4>3. p = (a + 1) + w + (Len(sts[q]) - 1)
        BY <1>1, <1>2
      <4>4. QED
        BY <1>2, <2>2, <4>1, <4>2, <4>3 DEF Statuses
    <3>4. CASE ~ (Op(q).kind = "move" /\ Op(q).to # Nobody)
      <4>1. Cardinality(Seen(q)') = a /\ sts'[q] = sts[q]
        BY <3>1, <3>2, <3>4
      <4>2. QED
        BY <1>2, <2>2, <4>1 DEF Statuses
    <3>5. QED
      BY <3>3, <3>4
  <2>4. CASE q # r
    <3>1. acked'[q] = acked[q] /\ sts'[q] = sts[q]
      BY <1>1, <1>5, <2>4, AckQueues
    <3>2. Seen(q)' = Seen(q)
      BY <2>1, <3>1, Idle
    <3>3. QED
      BY <1>3, <2>2, <3>1, <3>2
  <2>5. QED
    BY <2>3, <2>4
<1>6. ASSUME NEW r \in Ranks, Move(r) PROVE Statuses(q)'
  <2>1. UNCHANGED <<script, calls, pc, taken, acked>>
    BY <1>6 DEF Move, fwVars
  <2>2. Seen(q)' = Seen(q) /\ Waited(q)' = Waited(q)
    BY <2>1, Idle
  <2>3. CASE q = r
    <3>1. Cardinality(Put(q)') = p + IF Op(q).to # Nobody THEN 1 ELSE 0
      BY <1>1, <1>2, <1>6, <2>3, MoveCounts
    <3>2. /\ Op(q).to = Nobody => sts' = sts
          /\ Op(q).to # Nobody => sts'[q] = Append(sts[q], Op(q).to)
      BY <1>1, <1>6, <2>3, MoveQueues
    <3>3. CASE Op(q).to # Nobody
      <4>1. Len(sts'[q]) = Len(sts[q]) + 1
        <5>1. Len(Append(sts[q], Op(q).to)) = Len(sts[q]) + 1
          BY <1>1, AppendFacts
        <5>2. QED
          BY <3>2, <3>3, <5>1
      <4>2. Cardinality(Put(q)') = p + 1
        BY <3>1, <3>3
      <4>3. p + 1 = a + w + (Len(sts[q]) + 1)
        BY <1>1, <1>2
      <4>4. QED
        BY <1>2, <2>2, <4>1, <4>2, <4>3 DEF Statuses
    <3>4. CASE Op(q).to = Nobody
      <4>1. Cardinality(Put(q)') = p /\ sts' = sts
        BY <3>1, <3>2, <3>4
      <4>2. QED
        BY <1>2, <2>2, <4>1 DEF Statuses
    <3>5. QED
      BY <3>3, <3>4
  <2>4. CASE q # r
    <3>1. moved'[q] = moved[q] /\ sts'[q] = sts[q]
      BY <1>1, <1>6, <2>4, MoveQueues
    <3>2. Put(q)' = Put(q)
      BY <2>1, <3>1, Idle
    <3>3. QED
      BY <1>3, <2>2, <3>1, <3>2
  <2>5. QED
    BY <2>3, <2>4
<1>7. ASSUME NEW r \in Ranks, Take(r) PROVE Statuses(q)'
  <2>1. UNCHANGED <<script, calls, pc, acked, moved, sts>>
    BY <1>7 DEF Take
  <2>2. Put(q)' = Put(q) /\ Seen(q)' = Seen(q) /\ Waited(q)' = Waited(q)
    BY <2>1, Idle
  <2>3. QED
    BY <1>3, <2>1, <2>2
<1>8. CASE UNCHANGED <<fwVars, moved, sts>>
  <2>1. UNCHANGED <<script, calls, pc, taken, acked, moved, sts>>
    BY <1>8 DEF fwVars
  <2>2. Put(q)' = Put(q) /\ Seen(q)' = Seen(q) /\ Waited(q)' = Waited(q)
    BY <2>1, Idle
  <2>3. QED
    BY <1>3, <2>1, <2>2
<1>9. (\E s, d \in Ranks : Arrive(s, d)) \/ UNCHANGED vars => UNCHANGED <<fwVars, moved, sts>>
  BY DEF Arrive, vars
<1>10. QED
  BY <1>4, <1>5, <1>6, <1>7, <1>8, <1>9, EngineCases

(* A segment is on its way from the packetizer of one rank to a receive of *)
(* another, and nowhere else.                                              *)
LEMMA FlowStep ==
  ASSUME EngineInv, Conserved, [EngineNext]_vars, NEW s \in Ranks, NEW d \in Ranks
  PROVE  Flow(s, d)'
<1>1. /\ Shapes /\ Counted(s) /\ Counted(d) /\ Flow(s, d)
      /\ IsSeq(link[s][d]) /\ IsSeq(pool[d]) /\ Len(link[s][d]) \in Nat
  BY EmptyFacts DEF Conserved, Shapes, ShapeOf
<1>2. PICK n \in Nat, g \in Nat, c \in Nat :
        /\ n = Cardinality(Sent(s, d)) /\ g = Cardinality(Got(d, s))
        /\ c = Cardinality(Idx(pool[d], s))
        /\ n = g + Len(link[s][d]) + c
  BY <1>1, FS_CardinalityType, IndexFinite DEF Counted, Flow
<1>3. ASSUME Sent(s, d)' = Sent(s, d), Got(d, s)' = Got(d, s),
             link'[s][d] = link[s][d], pool'[d] = pool[d]
      PROVE  Flow(s, d)'
  <2>1. Idx(pool[d], s)' = Idx(pool[d], s)
    BY <1>3 DEF Idx
  <2>2. QED
    BY <1>1, <1>3, <2>1 DEF Flow
<1>4. ASSUME NEW r \in Ranks, StartCall(r) \/ FinishOp(r) PROVE Flow(s, d)'
  <2>1. /\ UNCHANGED <<script, pool, link>>
        /\ \A q \in Ranks \ {r} :
             /\ calls'[q] = calls[q] /\ pc'[q] = pc[q] /\ taken'[q] = taken[q]
             /\ moved'[q] = moved[q]
    BY <1>4, NextPlace
  <2>2. Sent(s, d)' = Sent(s, d)
    <3>1. CASE s = r
      BY <1>1, <1>4, <3>1, TurnCounts DEF Counted
    <3>2. CASE s # r
      BY <2>1, <3>2, Idle
    <3>3. QED
      BY <3>1, <3>2
  <2>3. Got(d, s)' = Got(d, s)
    <3>1. CASE d = r
      BY <1>1, <1>4, <3>1, TurnCounts DEF Counted
    <3>2. CASE d # r
      BY <2>1, <3>2, Idle
    <3>3. QED
      BY <3>1, <3>2
  <2>4. QED
    BY <1>3, <2>1, <2>2, <2>3
<1>5. ASSUME NEW r \in Ranks, Take(r) PROVE Flow(s, d)'
  <2>1. /\ UNCHANGED <<script, calls, pc, acked, moved, link>>
        /\ taken'[r] = taken[r] + 1 /\ \A q \in Ranks \ {r} : taken'[q] = taken[q]
        /\ \A q \in Ranks \ {r} : pool'[q] = pool[q]
        /\ Op(r).from = Nobody => pool' = pool
        /\ Op(r).from # Nobody =>
             \E i \in DOMAIN pool[r] :
               pool[r][i].src = Op(r).from /\ pool'[r] = Without(pool[r], i)
    BY <1>1, <1>5, TakeQueues
  <2>2. Sent(s, d)' = Sent(s, d)
    BY <2>1, Idle
  <2>3. CASE d = r
    <3>1. Cardinality(Got(d, s)') = g + IF Op(d).from = s THEN 1 ELSE 0
      BY <1>1, <1>2, <1>5, <2>3, TakeCounts
    <3>2. CASE Op(d).from = Nobody
      <4>1. s # Nobody
        BY EngineAssumption DEF Ranks
      <4>2. Cardinality(Got(d, s)') = g /\ pool' = pool
        BY <2>1, <2>3, <3>1, <3>2, <4>1
      <4>3. Idx(pool[d], s)' = Idx(pool[d], s)
        BY <4>2
      <4>4. QED
        BY <1>2, <2>1, <2>2, <4>2, <4>3 DEF Flow
    <3>3. CASE Op(d).from # Nobody
      <4>1. PICK i \in DOMAIN pool[d] :
              pool[d][i].src = Op(d).from /\ pool'[d] = Without(pool[d], i)
        BY <2>1, <2>3, <3>3
      <4>2. PICK m : m = Cardinality(Idx(pool[d], s)')
        OBVIOUS
      <4>3. m = Cardinality(Idx(Without(pool[d], i), s))
        BY <4>1, <4>2 DEF Idx
      <4>4. IsSeq(Without(pool[d], i))
        BY <1>1, IndexCut
      <4>5. m \in Nat
        BY <4>3, <4>4, IndexFinite
      <4>6. c = m + IF Op(d).from = s THEN 1 ELSE 0
        BY <1>1, <1>2, <4>1, <4>3, IndexCut
      <4>7. Cardinality(Got(d, s)') + Len(link[s][d]) + m = n
        <5>1. PICK o \in {0, 1} : o = IF Op(d).from = s THEN 1 ELSE 0
          OBVIOUS
        <5>2. c = m + o /\ Cardinality(Got(d, s)') = g + o
          BY <3>1, <4>6, <5>1
        <5>3. QED
          BY <1>1, <1>2, <4>5, <5>2
      <4>8. QED
        BY <1>2, <2>1, <2>2, <4>2, <4>7 DEF Flow
    <3>4. QED
      BY <3>2, <3>3
  <2>4. CASE d # r
    <3>1. Got(d, s)' = Got(d, s)
      BY <2>1, <2>4, Idle
    <3>2. QED
      BY <1>3, <2>1, <2>2, <2>4, <3>1
  <2>5. QED
    BY <2>3, <2>4
<1>6. ASSUME NEW r \in Ranks, Move(r) PROVE Flow(s, d)'
  <2>1. /\ UNCHANGED <<script, calls, pc, taken, acked, pool>>
        /\ \A q \in Ranks \ {r} : moved'[q] = moved[q] /\ link'[q] = link[q]
        /\ \A e \in Ranks : e # Op(r).to => link'[r][e] = link[r][e]
        /\ Op(r).to # Nobody =>
             \E x : x.src = r /\ link'[r][Op(r).to] = Append(link[r][Op(r).to], x)
    BY <1>1, <1>6, MoveQueues
  <2>2. Got(d, s)' = Got(d, s)
    BY <2>1, Idle
  <2>3. CASE s = r
    <3>1. Cardinality(Sent(s, d)') = n + IF Op(s).to = d THEN 1 ELSE 0
      BY <1>1, <1>2, <1>6, <2>3, MoveCounts
    <3>2. Idx(pool[d], s)' = Idx(pool[d], s)
      BY <2>1
    <3>3. CASE Op(s).to = d
      <4>1. d # Nobody
        BY EngineAssumption DEF Ranks
      <4>2. PICK x : link'[s][d] = Append(link[s][d], x)
        BY <2>1, <2>3, <3>3, <4>1
      <4>3. Len(link'[s][d]) = Len(link[s][d]) + 1
        BY <1>1, <4>2, AppendFacts
      <4>4. n + 1 = g + (Len(link[s][d]) + 1) + c
        BY <1>1, <1>2
      <4>5. Cardinality(Sent(s, d)') = n + 1
        BY <3>1, <3>3
      <4>6. QED
        BY <1>2, <2>2, <3>2, <4>3, <4>4, <4>5 DEF Flow
    <3>4. CASE Op(s).to # d
      <4>1. Cardinality(Sent(s, d)') = n /\ link'[s][d] = link[s][d]
        BY <2>1, <2>3, <3>1, <3>4
      <4>2. QED
        BY <1>2, <2>2, <3>2, <4>1 DEF Flow
    <3>5. QED
      BY <3>3, <3>4
  <2>4. CASE s # r
    <3>1. moved'[s] = moved[s] /\ link'[s] = link[s]
      BY <2>1, <2>4
    <3>2. Sent(s, d)' = Sent(s, d)
      BY <2>1, <3>1, Idle
    <3>3. QED
      BY <1>3, <2>1, <2>2, <3>1, <3>2
  <2>5. QED
    BY <2>3, <2>4
<1>7. ASSUME NEW t \in Ranks, NEW e \in Ranks, Arrive(t, e) PROVE Flow(s, d)'
  <2>1. /\ UNCHANGED <<fwVars, moved>> /\ link[t][e] # <<>>
        /\ pool'[e] = Append(pool[e], Head(link[t][e])) /\ Head(link[t][e]).src = t
        /\ link'[t][e] = Tail(link[t][e])
        /\ \A q \in Ranks \ {e} : pool'[q] = pool[q]
        /\ \A q, f \in Ranks : q # t \/ f # e => link'[q][f] = link[q][f]
    BY <1>1, <1>7, ArriveQueues
  <2>2. Sent(s, d)' = Sent(s, d) /\ Got(d, s)' = Got(d, s)
    BY <2>1, Idle DEF fwVars
  <2>3. CASE e = d
    <3>1. PICK m : m = Cardinality(Idx(pool[d], s)')
      OBVIOUS
    <3>2. m = Cardinality(Idx(Append(pool[d], Head(link[t][d])), s))
      BY <2>1, <2>3, <3>1 DEF Idx
    <3>3. m = c + IF Head(link[t][d]).src = s THEN 1 ELSE 0
      BY <1>1, <1>2, <3>2, IndexAppend
    <3>4. CASE t = s
      <4>1. Len(link'[s][d]) = Len(link[s][d]) - 1
        <5>1. Len(Tail(link[s][d])) = Len(link[s][d]) - 1
          BY <1>1, <2>1, <2>3, <3>4, TailFacts
        <5>2. QED
          BY <2>1, <2>3, <3>4, <5>1
      <4>2. m = c + 1
        BY <2>1, <2>3, <3>3, <3>4
      <4>3. n = g + (Len(link[s][d]) - 1) + (c + 1)
        BY <1>1, <1>2
      <4>4. QED
        BY <1>2, <2>2, <3>1, <4>1, <4>2, <4>3 DEF Flow
    <3>5. CASE t # s
      <4>1. m = c /\ link'[s][d] = link[s][d]
        BY <1>2, <2>1, <2>3, <3>3, <3>5
      <4>2. QED
        BY <1>2, <2>2, <3>1, <4>1 DEF Flow
    <3>6. QED
      BY <3>4, <3>5
  <2>4. CASE e # d
    BY <1>3, <2>1, <2>2, <2>4
  <2>5. QED
    BY <2>3, <2>4
<1>8. ASSUME NEW r \in Ranks, Ack(r) PROVE Flow(s, d)'
  <2>1. UNCHANGED <<script, calls, pc, taken, moved, pool, link>>
    BY <1>8 DEF Ack
  <2>2. Sent(s, d)' = Sent(s, d) /\ Got(d, s)' = Got(d, s)
    BY <2>1, Idle
  <2>3. QED
    BY <1>3, <2>1, <2>2
<1>9. CASE UNCHANGED vars
  <2>1. UNCHANGED <<script, calls, pc, taken, moved, pool, link>>
    BY <1>9 DEF vars, fwVars
  <2>2. Sent(s, d)' = Sent(s, d) /\ Got(d, s)' = Got(d, s)
    BY <2>1, Idle
  <2>3. QED
    BY <1>3, <2>1, <2>2
<1>10. QED
  BY <1>4, <1>5, <1>6, <1>7, <1>8, <1>9, EngineCases

LEMMA ConservedInit == EngineInit => Conserved
<1> SUFFICES ASSUME EngineInit PROVE Conserved
  OBVIOUS
<1>1. /\ script \in DOMAIN Scripts /\ calls = [r \in Ranks |-> 0] /\ pc = [r \in Ranks |-> 0]
      /\ held = [r \in Ranks |-> <<>>] /\ pool = held /\ sts = held
      /\ link = [s \in Ranks |-> [d \in Ranks |-> <<>>]]
      /\ taken = [r \in Ranks |-> 0] /\ moved = taken /\ acked = taken
  BY DEF EngineInit
<1>2. IsSeq(<<>>) /\ DOMAIN <<>> = {} /\ Len(<<>>) = 0
  BY EmptyFacts
<1>3. Shapes
  BY <1>1, <1>2 DEF Shapes, ShapeOf
<1>4. ASSUME NEW r \in Ranks, NEW S, \A x \in S : x \in Triples /\ x[1] # 0
      PROVE  Upto(S, r, 0) = {}
  <2>1. calls[r] + 1 = 1 /\ pc[r] = 0
    BY <1>1
  <2>2. ASSUME NEW x \in Upto(S, r, 0) PROVE FALSE
    <3>1. x \in S /\ (x[1] < 1 \/ (x[1] = 1 /\ (x[2] < 0 \/ (x[2] = 0 /\ x[3] < 0))))
      BY <2>1 DEF Upto, Reach
    <3>2. x[1] \in Nat \ {0} /\ x[2] \in Nat /\ x[3] \in Nat
      BY <1>4, <3>1, TripleFacts
    <3>3. QED
      BY <3>1, <3>2
  <2>3. QED
    BY <2>2
<1>5. ASSUME NEW r \in Ranks, NEW S \in SUBSET Pieces(script, r) PROVE Upto(S, r, 0) = {}
  <2>1. \A x \in S : x \in Triples /\ x[1] \in 1 .. Len(Scripts[script])
    BY <1>1, PieceFacts
  <2>2. \A x \in S : x \in Triples /\ x[1] # 0
    BY <1>1, <2>1, PieceFacts
  <2>3. QED
    BY <1>4, <2>2
<1>6. ASSUME NEW r \in Ranks
      PROVE  /\ \A d \in Ranks : Sent(r, d) = {} /\ Got(r, d) = {}
             /\ Put(r) = {} /\ Seen(r) = {} /\ Waited(r) = {}
  <2>1. moved[r] = 0 /\ taken[r] = 0 /\ acked[r] = 0
    BY <1>1
  <2>2. /\ \A d \in Ranks : /\ SentTo(script, r, d) \in SUBSET Pieces(script, r)
                            /\ TakenFrom(script, r, d) \in SUBSET Pieces(script, r)
        /\ Posted(script, r) \in SUBSET Pieces(script, r)
        /\ AckedAtOnce(script, r) \in SUBSET Pieces(script, r)
    BY DEF SentTo, TakenFrom, Posted, AckedAtOnce
  <2>3. \A x \in AckedLater(script, r) : x \in Triples /\ x[1] # 0
    BY <1>1, PieceFacts, WaitFacts
  <2>4. Waited(r) = {}
    BY <1>4, <2>3 DEF Waited
  <2>5. QED
    BY <1>5, <2>1, <2>2, <2>4 DEF Sent, Got, Put, Seen
<1>7. IsFiniteSet({}) /\ Cardinality({}) = 0
  BY FS_EmptySet
<1>8. \A r \in Ranks : Counted(r)
  BY <1>6, <1>7 DEF Counted
<1>9. ASSUME NEW r \in Ranks PROVE Statuses(r) /\ Holding(r)
  <2>1. sts[r] = <<>> /\ held[r] = <<>> /\ pc[r] = 0
    BY <1>1
  <2>2. /\ Cardinality(Put(r)) = 0 /\ Cardinality(Seen(r)) = 0 /\ Cardinality(Waited(r)) = 0
        /\ Len(sts[r]) = 0
    BY <1>2, <1>6, <1>7, <2>1
  <2>3. 0 = 0 + 0 + 0
    OBVIOUS
  <2>4. Statuses(r)
    BY <2>2, <2>3 DEF Statuses
  <2>5. QED
    BY <2>1, <2>4 DEF Holding
<1>10. ASSUME NEW s \in Ranks, NEW d \in Ranks PROVE Flow(s, d)
  <2>1. link[s][d] = <<>> /\ pool[d] = <<>>
    BY <1>1
  <2>2. Idx(pool[d], s) = {}
    BY <1>2, <2>1 DEF Idx
  <2>3. /\ Cardinality(Sent(s, d)) = 0 /\ Cardinality(Got(d, s)) = 0
        /\ Len(link[s][d]) = 0 /\ Cardinality(Idx(pool[d], s)) = 0
    BY <1>2, <1>6, <1>7, <2>1, <2>2
  <2>4. 0 = 0 + 0 + 0
    OBVIOUS
  <2>5. QED
    BY <2>3, <2>4 DEF Flow
<1>11. QED
  BY <1>3, <1>8, <1>9, <1>10 DEF Conserved

(* Conservation leads to an empty system when all calls returned.          *)
LEMMA ConservedEmpty ==
  ASSUME EngineInv, Conserved, AllReturned
  PROVE  \A r \in Ranks :
           /\ pool[r] = <<>> /\ held[r] = <<>> /\ sts[r] = <<>>
           /\ \A d \in Ranks : link[r][d] = <<>>
<1>1. script \in DOMAIN Scripts /\ Len(Scripts[script]) \in Nat
  BY PieceFacts DEF EngineInv, Types
<1>2. ASSUME NEW r \in Ranks, NEW c, NEW S, \A x \in S : x[1] \in 1 .. Len(Scripts[script])
      PROVE  Upto(S, r, c) = S
  <2>1. calls[r] = Len(Scripts[script])
    BY DEF AllReturned, Calls
  <2>2. \A x \in S : x[1] < calls[r] + 1
    BY <1>1, <1>2, <2>1
  <2>3. QED
    BY <2>2 DEF Upto, Reach
<1>3. \A r \in Ranks : \A x \in Pieces(script, r) : x[1] \in 1 .. Len(Scripts[script])
  BY <1>1, PieceFacts
<1>4. ASSUME NEW s \in Ranks, NEW d \in Ranks
      PROVE  link[s][d] = <<>> /\ Idx(pool[d], s) = {}
  <2>1. Sent(s, d) = SentTo(script, s, d)
    <3>1. \A x \in SentTo(script, s, d) : x[1] \in 1 .. Len(Scripts[script])
      BY <1>3 DEF SentTo
    <3>2. QED
      BY <1>2, <3>1 DEF Sent
  <2>2. Got(d, s) = TakenFrom(script, d, s)
    <3>1. \A x \in TakenFrom(script, d, s) : x[1] \in 1 .. Len(Scripts[script])
      BY <1>3 DEF TakenFrom
    <3>2. QED
      BY <1>2, <3>1 DEF Got
  <2>3. Cardinality(Sent(s, d)) = Cardinality(Got(d, s))
    BY <1>1, <2>1, <2>2, BalanceAssumption
  <2>4. IsSeq(link[s][d]) /\ IsSeq(pool[d])
    BY DEF Conserved, Shapes, ShapeOf
  <2>5. PICK g \in Nat, n \in Nat, c \in Nat :
          /\ g = Cardinality(Got(d, s)) /\ n = Len(link[s][d])
          /\ c = Cardinality(Idx(pool[d], s)) /\ IsFiniteSet(Idx(pool[d], s))
    BY <2>4, EmptyFacts, IndexFinite, FS_CardinalityType DEF Conserved, Counted
  <2>6. g = g + n + c
    BY <2>3, <2>5 DEF Conserved, Flow
  <2>7. n = 0 /\ c = 0
    BY <2>6
  <2>8. QED
    BY <2>4, <2>5, <2>7, EmptyFacts, FS_EmptySet
<1>5. ASSUME NEW r \in Ranks PROVE sts[r] = <<>>
  <2>1. Put(r) = Posted(script, r)
    <3>1. \A x \in Posted(script, r) : x[1] \in 1 .. Len(Scripts[script])
      BY <1>3 DEF Posted
    <3>2. QED
      BY <1>2, <3>1 DEF Put
  <2>2. Seen(r) = AckedAtOnce(script, r)
    <3>1. \A x \in AckedAtOnce(script, r) : x[1] \in 1 .. Len(Scripts[script])
      BY <1>3 DEF AckedAtOnce, Posted
    <3>2. QED
      BY <1>2, <3>1 DEF Seen
  <2>3. Waited(r) = AckedLater(script, r)
    <3>1. \A x \in AckedLater(script, r) : x[1] \in 1 .. Len(Scripts[script])
      BY <1>1, WaitFacts
    <3>2. QED
      BY <1>2, <3>1 DEF Waited
  <2>4. Cardinality(Put(r)) = Cardinality(Seen(r)) + Cardinality(Waited(r))
    BY <1>1, <2>1, <2>2, <2>3, BalanceAssumption
  <2>5. IsSeq(sts[r])
    BY DEF Conserved, Shapes, ShapeOf
  <2>6. PICK a \in Nat, w \in Nat, n \in Nat :
          a = Cardinality(Seen(r)) /\ w = Cardinality(Waited(r)) /\ n = Len(sts[r])
    BY <2>5, EmptyFacts, FS_CardinalityType DEF Conserved, Counted
  <2>7. a + w = a + w + n
    BY <2>4, <2>6 DEF Conserved, Statuses
  <2>8. QED
    BY <2>5, <2>6, <2>7, EmptyFacts
<1>6. ASSUME NEW r \in Ranks PROVE held[r] = <<>>
  <2>1. pc[r] = 0
    <3>1. calls[r] = Len(Calls) /\ calls[r] \in Nat
      BY DEF AllReturned, EngineInv, Types
    <3>2. pc[r] # 0 => calls[r] < Len(Calls)
      BY DEF EngineInv, InMovement
    <3>3. QED
      BY <3>1, <3>2
  <2>2. QED
    BY <2>1 DEF Conserved, Holding
<1>7. ASSUME NEW r \in Ranks PROVE pool[r] = <<>>
  <2>1. IsSeq(pool[r]) /\ \A i \in DOMAIN pool[r] : pool[r][i].src \in Ranks
    BY DEF Conserved, Shapes, ShapeOf
  <2>2. ASSUME NEW i \in DOMAIN pool[r] PROVE FALSE
    <3>1. i \in Idx(pool[r], pool[r][i].src)
      BY DEF Idx
    <3>2. QED
      BY <1>4, <2>1, <3>1
  <2>3. Len(pool[r]) \in Nat /\ DOMAIN pool[r] = 1 .. Len(pool[r])
    BY <2>1, AppendFacts
  <2>4. Len(pool[r]) = 0
    BY <2>2, <2>3
  <2>5. QED
    BY <2>1, <2>4, EmptyFacts
<1>8. QED
  BY <1>4, <1>5, <1>6, <1>7

(* When all calls returned the spare buffers, the network and the queues   *)
(* of statuses are empty, for calls that take what others send and wait    *)
(* for what they send (BalanceAssumption).                                 *)
THEOREM NothingLeftBehind == EngineSpec => []NothingLeft
<1>1. EngineInit => Conserved
  BY ConservedInit
<1>2. EngineInv /\ Conserved /\ [EngineNext]_vars => Conserved'
  BY ShapesStep, CountedStep, StatusesStep, HoldingStep, FlowStep DEF Conserved
<1>3. EngineInv /\ Conserved => NothingLeft
  BY ConservedEmpty DEF NothingLeft
<1>4. QED
  BY <1>1, <1>2, <1>3, EngineInvariant, PTL DEF EngineSpec

=============================================================================
