------------------------- MODULE SendPipelineProofs -------------------------
(***************************************************************************)
(* Proofs about SendPipeline, for messages, segments and words of any      *)
(* length, any number of segments in flight, destinations and calls, with  *)
(* failed transfers and timeouts.                                          *)
(***************************************************************************)
EXTENDS SendPipeline, ProofFacts, TLAPS

Reads    == [call : Nat, off : Nat, len : Nat, tag : Nat]
Statuses == [tag : Nat, ok : BOOLEAN]

FwType ==
  /\ retval \in {"idle", "running", "ok", "failed"} /\ call \in Calls /\ ncalls \in Nat
  /\ toMove \in Nat /\ toAck \in Nat /\ inFlight \in Nat /\ waitPkt \in BOOLEAN
  /\ dma_tag_tmp \in Nat /\ dma_tag \in Nat
  /\ outSeq \in [Dsts -> Nat] /\ failedAt \in Nat

DeviceType ==
  /\ readQ \in Seq(Reads) /\ rdWords \in Nat /\ rdSts \in Seq(Statuses)
  /\ strm \in Seq(StrmWords) /\ hdrQ \in Seq(SegHeaders)
  /\ pkt \in Segments \cup {NoPkt} /\ pktSts \in Seq(Nat)
  /\ sent \in [Dsts -> Seq(Segments)]

(* What remains to be issued and acknowledged of a call: what is issued is *)
(* whole segments, but for the last, and is acknowledged one by one.       *)
Progress ==
  /\ toMove <= call.len /\ toAck <= call.len
  /\ toMove > 0 => (call.len - toMove) % TxnSize = 0
  /\ inFlight <= MaxInFlight
  /\ Segs(toAck) = Segs(toMove) + inFlight
  /\ waitPkt => MustAck /\ toAck > 0

TypeOK == FwType /\ DeviceType /\ Progress

-----------------------------------------------------------------------------
(* Lengths                                                                 *)

LEMMA CallFacts ==
  ASSUME NEW c \in Calls
  PROVE  c.dst \in Dsts /\ c.len \in Nat /\ c.len > 0 /\ c.tag \in CallTags
  BY SendAssumption DEF CallTags

LEMMA SegLenFacts ==
  ASSUME NEW b \in Nat
  PROVE  /\ SegLen(b) \in Nat /\ SegLen(b) <= b /\ SegLen(b) <= TxnSize
         /\ b > 0 => SegLen(b) > 0
         /\ b - SegLen(b) \in Nat
         /\ b - SegLen(b) > 0 => SegLen(b) = TxnSize
  BY SendAssumption DEF SegLen

LEMMA SegsFacts ==
  ASSUME NEW b \in Nat
  PROVE  /\ Segs(b) \in Nat /\ (Segs(b) = 0 <=> b = 0)
         /\ Segs(b) * TxnSize < b + TxnSize /\ b <= Segs(b) * TxnSize
<1>1. TxnSize \in Nat /\ TxnSize > 0
  BY SendAssumption
<1>2. PICK q \in Nat : /\ q = Segs(b)
                       /\ q * TxnSize < b + TxnSize /\ b <= q * TxnSize
  BY <1>1, Quotient DEF Segs
<1>3. q = 0 => q * TxnSize = 0
  BY <1>1
<1>4. q # 0 => q * TxnSize = TxnSize + (q - 1) * TxnSize /\ (q - 1) * TxnSize \in Nat
  BY <1>1
<1>5. q * TxnSize \in Nat
  BY <1>1
<1>6. q = 0 <=> b = 0
  BY <1>1, <1>2, <1>3, <1>4, <1>5
<1>7. QED
  BY <1>2, <1>6

(* One segment less.                                                       *)
LEMMA SegsNext ==
  ASSUME NEW b \in Nat, b > 0
  PROVE  /\ Segs(b) > 0 /\ Segs(b - SegLen(b)) = Segs(b) - 1 /\ Segs(SegLen(b)) = 1
<1>1. TxnSize \in Nat /\ TxnSize > 0
  BY SendAssumption
<1>2. PICK q \in Nat : /\ q = Segs(b) /\ q > 0
                       /\ q * TxnSize < b + TxnSize /\ b <= q * TxnSize
  BY SegsFacts
<1>3. PICK r : r = (q - 1) * TxnSize
  OBVIOUS
<1>4. r \in Nat /\ q * TxnSize = r + TxnSize
  BY <1>1, <1>2, <1>3
<1>5. PICK s \in Nat : s = SegLen(b) /\ s > 0 /\ s <= TxnSize /\ b - s \in Nat
                       /\ (b - s > 0 => s = TxnSize)
  BY SegLenFacts
<1>6. r < b - s + TxnSize /\ b - s <= r
  <2>1. CASE b - s > 0
    BY <1>1, <1>2, <1>4, <1>5, <2>1
  <2>2. CASE b = s
    <3>1. q = 1
      <4>1. q # 1 => q * TxnSize = 2 * TxnSize + (q - 2) * TxnSize
                     /\ (q - 2) * TxnSize \in Nat
        BY <1>1, <1>2
      <4>2. QED
        BY <1>1, <1>2, <1>4, <1>5, <2>2, <4>1
    <3>2. r = 0
      BY <1>1, <1>3, <3>1
    <3>3. QED
      BY <1>1, <1>5, <2>2, <3>2
  <2>3. QED
    BY <1>5, <2>1, <2>2
<1>7. (b - s + TxnSize - 1) \div TxnSize = q - 1
  <2>1. PICK k \in Nat : k = q - 1 /\ k * TxnSize < b - s + TxnSize /\ b - s <= k * TxnSize
    BY <1>2, <1>3, <1>6
  <2>2. QED
    BY <1>1, <1>5, <2>1, QuotientUnique
<1>8. (s + TxnSize - 1) \div TxnSize = 1
  <2>1. 1 * TxnSize < s + TxnSize /\ s <= 1 * TxnSize
    BY <1>1, <1>5
  <2>2. QED
    BY <1>1, <1>5, <2>1, QuotientUnique
<1>9. QED
  BY <1>2, <1>5, <1>7, <1>8 DEF Segs

(* Segment i, counted from 0, starts before the end.                       *)
LEMMA SegsRest ==
  ASSUME NEW b \in Nat, NEW i \in Nat, i < Segs(b)
  PROVE  i * TxnSize \in Nat /\ i * TxnSize < b
<1>1. TxnSize \in Nat /\ TxnSize > 0
  BY SendAssumption
<1>2. PICK q \in Nat : q = Segs(b) /\ q * TxnSize < b + TxnSize /\ i < q
  BY SegsFacts
<1>3. q * TxnSize = i * TxnSize + TxnSize + (q - i - 1) * TxnSize
      /\ (q - i - 1) * TxnSize \in Nat /\ i * TxnSize \in Nat
  BY <1>1, <1>2
<1>4. QED
  BY <1>1, <1>2, <1>3

LEMMA WordsFacts ==
  ASSUME NEW b \in Nat
  PROVE  Words(b) \in Nat /\ (b > 0 => Words(b) > 0)
<1>1. WordSize \in Nat /\ WordSize > 0
  BY SendAssumption
<1>2. PICK q \in Nat : q = Words(b) /\ b <= q * WordSize
  BY <1>1, Quotient DEF Words
<1>3. q = 0 => q * WordSize = 0
  BY <1>1
<1>4. QED
  BY <1>2, <1>3

LEMMA Aligned ==
  ASSUME NEW x \in Nat, x % TxnSize = 0
  PROVE  (x + TxnSize) % TxnSize = 0
<1>1. TxnSize \in Nat /\ TxnSize > 0
  BY SendAssumption
<1>2. PICK t \in Nat : t = TxnSize /\ t > 0
  BY <1>1
<1>3. PICK k \in Nat : x = k * t
  BY <1>2
<1>4. x + t = (k + 1) * t
  BY <1>2, <1>3
<1>5. \A n, m \in Nat : n = m * t => n % t = 0
  BY <1>2
<1>6. QED
  BY <1>2, <1>4, <1>5

LEMMA Multiple ==
  ASSUME NEW x \in Nat, NEW t \in Nat, t > 0, x % t = 0
  PROVE  \E k \in Nat : x = k * t
  OBVIOUS

LEMMA Single ==
  ASSUME NEW S, NEW x \in S
  PROVE  <<x>> \in Seq(S) /\ Len(<<x>>) = 1 /\ <<x>>[1] = x
  OBVIOUS

LEMMA Times == \A i, j \in Nat : i * j \in Nat /\ (i + 1) * j = i * j + j
  OBVIOUS

LEMMA TagFacts ==
  ASSUME NEW t \in Nat, NEW i \in Nat
  PROVE  TagAfter(t, i) \in Nat
  BY SendAssumption DEF TagAfter

-----------------------------------------------------------------------------
(* Types and progress                                                      *)

Least(m, n) == IF m < n THEN m ELSE n

(* Sums used below, regrouped.                                             *)
LEMMA Regroup ==
  ASSUME NEW a \in Nat, NEW b \in Nat, NEW c \in Nat
  PROVE  /\ a + b + c = (a + 1) + (b - 1) + c
         /\ (a - (b - 1)) + (c - 1) = (a - b) + c
         /\ a + (b + 1) + c = a + b + (c + 1)
         /\ a + b + (c + 1) = a + (b + c + 1)
  OBVIOUS

(* A word of the stream is one that was read.                              *)
LEMMA BeyondRead ==
  ASSUME NEW l \in Nat, NEW a \in Nat, NEW t \in Nat, NEW b \in Nat, NEW z \in Nat,
         NEW k \in Nat, NEW w \in Nat,
         l + a + t = b, b <= z, k <= l, a + t + k = z + w + 1
  PROVE  FALSE
  OBVIOUS

IsHeader(h, dst, bytes, offset, i) ==
  /\ h.call = ncalls' /\ h.dst = dst
  /\ h.len = SegLen(bytes - (i - 1) * TxnSize) /\ h.seq = outSeq[dst] + offset + i

LEMMA HeadersFacts ==
  ASSUME FwType, ncalls' \in Nat, NEW dst \in Dsts, NEW bytes \in Nat,
         NEW tag \in CallTags, NEW offset \in Nat,
         NEW x, x = Headers(dst, bytes, tag, offset),
         NEW m, m = Least(Segs(bytes), MaxInFlight)
  PROVE  /\ x \in Seq(SegHeaders) /\ Len(x) = m /\ m \in Nat
         /\ \A i \in 1 .. m : IsHeader(x[i], dst, bytes, offset, i)
<1> DEFINE h(i) == [call |-> ncalls', dst |-> dst, len |-> SegLen(bytes - (i - 1) * TxnSize),
                    tag |-> tag, seq |-> outSeq[dst] + offset + i]
<1>1. m \in Nat /\ m <= Segs(bytes)
  BY SegsFacts, SendAssumption DEF Least
<1>2. Segs(bytes) \in Nat
  BY SegsFacts
<1>3. ASSUME NEW i \in 1 .. m PROVE h(i) \in SegHeaders
  <2>1. PICK k \in Nat : k = i - 1 /\ k < Segs(bytes)
    BY <1>1, <1>2, <1>3
  <2>2. k * TxnSize \in Nat /\ k * TxnSize < bytes
    BY <2>1, SegsRest
  <2>3. bytes - (i - 1) * TxnSize \in Nat
    BY <2>1, <2>2
  <2>4. SegLen(bytes - (i - 1) * TxnSize) \in Nat
    BY <2>3, SegLenFacts
  <2>5. outSeq[dst] + offset + i \in Nat
    BY <1>3 DEF FwType
  <2>6. QED
    BY <2>4, <2>5 DEF SegHeaders
<1>4. x = [i \in 1 .. m |-> h(i)]
  BY <1>1 DEF Headers, Least
<1>5. \A i \in 1 .. m : IsHeader(h(i), dst, bytes, offset, i)
  BY DEF IsHeader
<1> HIDE DEF h
<1>6. [i \in 1 .. m |-> h(i)] \in Seq(SegHeaders)
  BY <1>1, <1>3
<1>7. x \in Seq(SegHeaders) /\ Len(x) = m
  BY <1>1, <1>4, <1>6
<1>8. \A i \in 1 .. m : x[i] = h(i)
  BY <1>4
<1>9. QED
  BY <1>1, <1>5, <1>7, <1>8

LEMMA TypeInit == SendInit => TypeOK
<1> SUFFICES ASSUME SendInit PROVE TypeOK
  OBVIOUS
<1>1. call.len \in Nat
  BY CallFacts DEF SendInit
<1>2. FwType
  BY DEF SendInit, FwType
<1>3. /\ readQ \in Seq(Reads) /\ rdSts \in Seq(Statuses) /\ strm \in Seq(StrmWords)
      /\ hdrQ \in Seq(SegHeaders) /\ pktSts \in Seq(Nat)
  BY DEF SendInit
<1>4. sent \in [Dsts -> Seq(Segments)]
  BY DEF SendInit
<1>5. DeviceType
  BY <1>3, <1>4 DEF SendInit, DeviceType
<1>6. Progress
  <2>1. Segs(0) = 0
    BY SegsFacts
  <2>2. QED
    BY <1>1, <2>1, SendAssumption DEF SendInit, Progress
<1>7. QED
  BY <1>2, <1>5, <1>6 DEF TypeOK

(* MustAck depends on what is to move and on what is in flight.            *)
LEMMA CallType == ASSUME TypeOK, NEW c \in Calls, CallSend(c) PROVE TypeOK'
<1>1. /\ c.dst \in Dsts /\ c.len \in Nat /\ c.tag \in CallTags
      /\ ncalls' \in Nat
  BY CallFacts DEF CallSend, TypeOK, FwType
<1>2. Headers(c.dst, c.len, c.tag, 0) \in Seq(SegHeaders)
  BY <1>1, HeadersFacts DEF TypeOK
<1>3. FwType'
  BY <1>1 DEF CallSend, TypeOK, FwType
<1>4. DeviceType'
  BY <1>2 DEF CallSend, TypeOK, DeviceType, dmaVars, pktVars
<1>5. Progress'
  <2>1. 0 % TxnSize = 0
    BY SendAssumption
  <2>2. Segs(c.len) \in Nat
    BY <1>1, SegsFacts
  <2>3. /\ toMove' = c.len /\ toAck' = c.len /\ call' = c /\ inFlight' = 0
        /\ waitPkt' = FALSE
    BY DEF CallSend
  <2>4. 0 <= MaxInFlight /\ (c.len - c.len) % TxnSize = 0
    BY <1>1, <2>1, SendAssumption
  <2>5. QED
    BY <1>1, <2>2, <2>3, <2>4 DEF Progress
<1>6. QED
  BY <1>3, <1>4, <1>5 DEF TypeOK

(* The next segment of the message.                                        *)
LEMMA IssuedFacts ==
  ASSUME TypeOK, StartDma
  PROVE  /\ toMove \in Nat /\ toMove > 0 /\ toMove <= call.len /\ call.len \in Nat
         /\ inFlight \in Nat /\ inFlight < MaxInFlight
         /\ SegLen(toMove) \in Nat /\ SegLen(toMove) > 0
         /\ toMove' = toMove - SegLen(toMove) /\ toMove' \in Nat /\ toMove' <= call.len
         /\ inFlight' = inFlight + 1 /\ inFlight' <= MaxInFlight
         /\ (call.len - toMove) \in Nat /\ (call.len - toMove) % TxnSize = 0
         /\ toMove' > 0 => SegLen(toMove) = TxnSize
         /\ Segs(toMove') = Segs(toMove) - 1
<1>1. /\ toMove \in Nat /\ toMove > 0 /\ toMove <= call.len /\ call.len \in Nat
      /\ inFlight \in Nat /\ inFlight < MaxInFlight /\ MaxInFlight \in Nat
      /\ (call.len - toMove) % TxnSize = 0
      /\ toMove' = toMove - SegLen(toMove) /\ inFlight' = inFlight + 1
  BY CallFacts, SendAssumption DEF StartDma, TypeOK, FwType, Progress
<1>2. PICK s \in Nat : /\ s = SegLen(toMove) /\ s > 0 /\ s <= toMove
                       /\ toMove - s > 0 => s = TxnSize
                       /\ Segs(toMove - s) = Segs(toMove) - 1
  BY <1>1, SegLenFacts, SegsNext
<1>3. QED
  BY <1>1, <1>2

LEMMA StartType ==
  ASSUME TypeOK, StartDma, hdrQ' \in Seq(SegHeaders)
  PROVE  TypeOK'
<1> DEFINE c == [call |-> ncalls, off |-> call.len - toMove,
                 len |-> SegLen(toMove), tag |-> TagAfter(dma_tag_tmp, 1)]
<1>1. /\ readQ' = Append(readQ, c) /\ dma_tag_tmp' = TagAfter(dma_tag_tmp, 1)
      /\ UNCHANGED <<retval, call, ncalls, toAck, waitPkt, dma_tag, outSeq, failedAt,
                     rdWords, rdSts, strm, pktVars>>
      /\ ~ waitPkt
  BY DEF StartDma
<1>2. TagAfter(dma_tag_tmp, 1) \in Nat
  BY TagFacts DEF TypeOK, FwType
<1>3. c \in Reads
  BY <1>2, IssuedFacts DEF TypeOK, FwType, Reads
<1> HIDE DEF c
<1>4. FwType'
  BY <1>1, <1>2, IssuedFacts DEF TypeOK, FwType
<1>5. DeviceType'
  BY <1>1, <1>3 DEF TypeOK, DeviceType, pktVars
<1>6. toMove' > 0 => (call.len - toMove') % TxnSize = 0
  <2>1. SUFFICES ASSUME toMove' > 0 PROVE (call.len - toMove') % TxnSize = 0
    OBVIOUS
  <2>2. PICK x \in Nat : x = call.len - toMove /\ x % TxnSize = 0
    BY IssuedFacts
  <2>3. call.len - toMove' = x + TxnSize
    <3>1. PICK s \in Nat : s = SegLen(toMove) /\ toMove' = toMove - s /\ s = TxnSize
      BY <2>1, IssuedFacts
    <3>2. toMove \in Nat /\ call.len \in Nat
      BY IssuedFacts
    <3>3. QED
      BY <2>2, <3>1, <3>2
  <2>4. QED
    BY <2>2, <2>3, Aligned
<1>7. Progress'
  <2>1. Segs(toMove) \in Nat /\ Segs(toMove') = Segs(toMove) - 1
        /\ toMove' <= call.len /\ inFlight' = inFlight + 1 /\ inFlight' <= MaxInFlight
        /\ inFlight \in Nat
    BY IssuedFacts, SegsFacts
  <2>2. Segs(toAck') = Segs(toMove') + inFlight'
    BY <1>1, <2>1 DEF TypeOK, Progress
  <2>3. QED
    BY <1>1, <1>6, <2>1, <2>2 DEF TypeOK, Progress
<1>8. QED
  BY <1>4, <1>5, <1>7 DEF TypeOK

LEMMA IssueFirstType == ASSUME TypeOK, IssueFirst PROVE TypeOK'
  BY StartType DEF IssueFirst, TypeOK, DeviceType

(* One more header.                                                        *)
LEMMA OneHeader ==
  ASSUME TypeOK, StartDma, NEW offset \in Nat
  PROVE  Headers(call.dst, SegLen(toMove), call.tag, offset) =
           <<[call |-> ncalls', dst |-> call.dst, len |-> SegLen(toMove),
              tag |-> call.tag, seq |-> outSeq[call.dst] + offset + 1]>>
<1>1. PICK s \in Nat : s = SegLen(toMove) /\ s > 0 /\ s <= TxnSize /\ Segs(s) = 1
  <2>1. toMove \in Nat /\ toMove > 0
    BY IssuedFacts
  <2>2. QED
    BY <2>1, SegLenFacts, SegsNext
<1>2. SegLen(s - (1 - 1) * TxnSize) = s
  BY <1>1, SendAssumption DEF SegLen
<1>3. PICK m : m = IF Segs(s) < MaxInFlight THEN Segs(s) ELSE MaxInFlight
  OBVIOUS
<1>4. m = 1
  BY <1>1, <1>3, SendAssumption
<1>5. 1 .. m = {1}
  BY <1>4
<1>6. Headers(call.dst, s, call.tag, offset) =
        [i \in {1} |-> [call |-> ncalls', dst |-> call.dst,
                        len |-> SegLen(s - (i - 1) * TxnSize),
                        tag |-> call.tag, seq |-> outSeq[call.dst] + offset + i]]
  BY <1>3, <1>5 DEF Headers
<1>7. @ = [i \in {1} |-> [call |-> ncalls', dst |-> call.dst, len |-> s,
                          tag |-> call.tag, seq |-> outSeq[call.dst] + offset + 1]]
  BY <1>2
<1>8. \A x : [i \in {1} |-> x] = <<x>>
  OBVIOUS
<1>9. QED
  BY <1>1, <1>6, <1>7, <1>8

LEMMA IssueNextType == ASSUME TypeOK, IssueNext PROVE TypeOK'
<1>1. StartDma /\ hdrQ' = hdrQ \o Headers(call.dst, SegLen(toMove), call.tag, MaxInFlight - 1)
  BY DEF IssueNext
<1>2. MaxInFlight - 1 \in Nat /\ ncalls' \in Nat /\ call.dst \in Dsts
      /\ call.tag \in CallTags
  BY <1>1, CallFacts, SendAssumption DEF StartDma, TypeOK, FwType
<1>3. Headers(call.dst, SegLen(toMove), call.tag, MaxInFlight - 1) \in Seq(SegHeaders)
  BY <1>1, <1>2, IssuedFacts, HeadersFacts DEF TypeOK
<1>4. hdrQ' \in Seq(SegHeaders)
  BY <1>1, <1>3 DEF TypeOK, DeviceType
<1>5. QED
  BY <1>1, <1>4, StartType

LEMMA FailType ==
  ASSUME TypeOK, Fail, dma_tag' \in Nat, rdSts' \in Seq(Statuses), pktSts' \in Seq(Nat)
  PROVE  TypeOK'
<1>1. /\ retval' = "failed" /\ failedAt' = IF failedAt = 0 THEN ncalls ELSE failedAt
      /\ UNCHANGED <<call, ncalls, toMove, toAck, inFlight, waitPkt, dma_tag_tmp, outSeq,
                     readQ, rdWords, strm, hdrQ, pkt, sent>>
  BY DEF Fail
<1>2. FwType'
  BY <1>1 DEF TypeOK, FwType
<1>3. DeviceType'
  BY <1>1 DEF TypeOK, DeviceType
<1>4. Progress'
  BY <1>1 DEF TypeOK, Progress, MustAck
<1>5. QED
  BY <1>2, <1>3, <1>4 DEF TypeOK

LEMMA AckDmaType == ASSUME TypeOK, AckDma PROVE TypeOK'
<1>1. /\ dma_tag' = TagAfter(dma_tag, 1) /\ dma_tag' \in Nat
      /\ rdSts' \in Seq(Statuses) /\ pktSts' = pktSts /\ pktSts \in Seq(Nat)
      /\ MustAck /\ toAck > 0
  BY TagFacts DEF AckDma, TypeOK, FwType, DeviceType
<1>2. CASE Fail
  BY <1>1, <1>2, FailType
<1>3. CASE ~ Fail
  <2>1. /\ waitPkt' = TRUE
        /\ UNCHANGED <<retval, call, ncalls, toMove, toAck, inFlight, dma_tag_tmp,
                       outSeq, failedAt, readQ, rdWords, strm, hdrQ, pkt, sent>>
    BY <1>3 DEF AckDma
  <2>2. FwType'
    BY <1>1, <2>1 DEF TypeOK, FwType
  <2>3. DeviceType'
    BY <1>1, <2>1 DEF TypeOK, DeviceType
  <2>4. Progress'
    BY <1>1, <2>1 DEF TypeOK, Progress, MustAck
  <2>5. QED
    BY <2>2, <2>3, <2>4 DEF TypeOK
<1>4. QED
  BY <1>2, <1>3

(* A segment is acknowledged, its number was as expected or not.           *)
LEMMA AckPktFacts ==
  ASSUME TypeOK, AckPkt
  PROVE  /\ Running /\ waitPkt /\ pktSts # <<>> /\ pktSts' = Tail(pktSts) /\ MustAck
         /\ \/ /\ Head(pktSts) = outSeq[call.dst] + 1
               /\ outSeq' = [outSeq EXCEPT ![call.dst] = @ + 1]
               /\ waitPkt' = FALSE /\ toAck' = toAck - SegLen(toAck)
               /\ inFlight' = inFlight - 1
               /\ UNCHANGED <<retval, call, ncalls, toMove, dma_tag_tmp, dma_tag, failedAt,
                              readQ, rdWords, rdSts, strm, hdrQ, pkt, sent>>
            \/ /\ Head(pktSts) # outSeq[call.dst] + 1
               /\ Fail /\ UNCHANGED <<dma_tag, rdSts>>
  BY DEF AckPkt, TypeOK, Progress, dmaVars

(* The acknowledged segment was in flight.                                 *)
LEMMA AckedFacts ==
  ASSUME TypeOK, waitPkt
  PROVE  /\ toAck \in Nat /\ toAck > 0 /\ inFlight \in Nat /\ inFlight > 0
         /\ toAck - SegLen(toAck) \in Nat /\ toAck - SegLen(toAck) < toAck
         /\ Segs(toAck - SegLen(toAck)) = Segs(toAck) - 1
         /\ Segs(toAck) \in Nat /\ Segs(toAck) > 0
<1>1. /\ toAck \in Nat /\ toAck > 0 /\ inFlight \in Nat /\ toMove \in Nat
      /\ Segs(toAck) = Segs(toMove) + inFlight /\ (toMove = 0 \/ inFlight = MaxInFlight)
  BY DEF TypeOK, FwType, Progress, MustAck
<1>2. PICK s \in Nat : /\ s = SegLen(toAck) /\ s > 0 /\ s <= toAck
                       /\ Segs(toAck - s) = Segs(toAck) - 1
  BY <1>1, SegLenFacts, SegsNext
<1>3. Segs(toAck) \in Nat /\ Segs(toAck) > 0
  BY <1>1, SegsFacts, SegsNext
<1>4. toMove = 0 => Segs(toMove) = 0
  BY SegsFacts
<1>5. inFlight > 0
  BY <1>1, <1>3, <1>4, SendAssumption
<1>6. QED
  BY <1>1, <1>2, <1>3, <1>5

LEMMA AckPktType == ASSUME TypeOK, AckPkt PROVE TypeOK'
<1>1. /\ waitPkt /\ pktSts # <<>> /\ pktSts' = Tail(pktSts)
      /\ \/ /\ outSeq' = [outSeq EXCEPT ![call.dst] = @ + 1]
            /\ waitPkt' = FALSE /\ toAck' = toAck - SegLen(toAck)
            /\ inFlight' = inFlight - 1
            /\ UNCHANGED <<retval, call, ncalls, toMove, dma_tag_tmp, dma_tag, failedAt,
                           readQ, rdWords, rdSts, strm, hdrQ, pkt, sent>>
         \/ Fail /\ UNCHANGED <<dma_tag, rdSts>>
  BY AckPktFacts
<1>2. pktSts' \in Seq(Nat)
  BY <1>1 DEF TypeOK, DeviceType
<1>3. CASE Fail /\ UNCHANGED <<dma_tag, rdSts>>
  BY <1>2, <1>3, FailType DEF TypeOK, FwType, DeviceType
<1>4. CASE ~ (Fail /\ UNCHANGED <<dma_tag, rdSts>>)
  <2>1. /\ outSeq' = [outSeq EXCEPT ![call.dst] = @ + 1]
        /\ waitPkt' = FALSE /\ toAck' = toAck - SegLen(toAck)
        /\ inFlight' = inFlight - 1
        /\ UNCHANGED <<retval, call, ncalls, toMove, dma_tag_tmp, dma_tag, failedAt,
                       readQ, rdWords, rdSts, strm, hdrQ, pkt, sent>>
    BY <1>1, <1>4
  <2>2. toAck' \in Nat /\ toAck' < toAck /\ inFlight' \in Nat /\ inFlight' <= inFlight
    BY <1>1, <2>1, AckedFacts
  <2>3. FwType'
    <3>1. outSeq' \in [Dsts -> Nat]
      <4>1. outSeq \in [Dsts -> Nat] /\ call.dst \in Dsts
        BY CallFacts DEF TypeOK, FwType
      <4>2. QED
        BY <2>1, <4>1
    <3>2. QED
      BY <2>1, <2>2, <3>1 DEF TypeOK, FwType
  <2>4. DeviceType'
    BY <1>2, <2>1 DEF TypeOK, DeviceType
  <2>5. toAck' <= call.len /\ inFlight' <= MaxInFlight
    <3>1. toAck \in Nat /\ inFlight \in Nat /\ toAck <= call.len /\ inFlight <= MaxInFlight
          /\ call.len \in Nat /\ MaxInFlight \in Nat
      BY CallFacts, SendAssumption DEF TypeOK, FwType, Progress
    <3>2. QED
      BY <2>2, <3>1
  <2>6. Segs(toAck') = Segs(toMove) + inFlight'
    <3>1. Segs(toMove) \in Nat /\ Segs(toAck) \in Nat /\ inFlight \in Nat
          /\ Segs(toAck) = Segs(toMove) + inFlight
      BY SegsFacts DEF TypeOK, FwType, Progress
    <3>2. Segs(toAck') = Segs(toAck) - 1 /\ inFlight' = inFlight - 1
      BY <1>1, <2>1, AckedFacts
    <3>3. QED
      BY <3>1, <3>2
  <2>7. Progress'
    BY <2>1, <2>5, <2>6 DEF TypeOK, Progress
  <2>8. QED
    BY <2>3, <2>4, <2>7 DEF TypeOK
<1>5. QED
  BY <1>3, <1>4

LEMMA AckTimeoutType == ASSUME TypeOK, AckTimeout PROVE TypeOK'
  BY FailType DEF AckTimeout, TypeOK, FwType, DeviceType

LEMMA FinishType == ASSUME TypeOK, FinishSend PROVE TypeOK'
<1>1. /\ retval' = "ok" /\ ~ waitPkt
      /\ UNCHANGED <<call, ncalls, toMove, toAck, inFlight, waitPkt, dma_tag_tmp, dma_tag,
                     outSeq, failedAt, dmaVars, strm, hdrQ, pktVars>>
  BY DEF FinishSend
<1>2. FwType' /\ DeviceType' /\ Progress'
  BY <1>1 DEF TypeOK, FwType, DeviceType, Progress, dmaVars, pktVars
<1>3. QED
  BY <1>2 DEF TypeOK

(* The devices change nothing of the firmware's.                           *)
LEMMA DeviceStep ==
  ASSUME TypeOK, UNCHANGED fwVars, DeviceType'
  PROVE  TypeOK'
<1>1. FwType' /\ Progress'
  BY DEF TypeOK, FwType, Progress, fwVars, MustAck
<1>2. QED
  BY <1>1 DEF TypeOK

LEMMA ReadWordFacts ==
  ASSUME TypeOK, ReadWord
  PROVE  /\ readQ # <<>> /\ readQ[1] \in Reads /\ UNCHANGED <<fwVars, hdrQ, pktVars>>
         /\ strm' = Append(strm, [call |-> readQ[1].call,
                                  off |-> readQ[1].off + rdWords * WordSize])
         /\ [call |-> readQ[1].call, off |-> readQ[1].off + rdWords * WordSize] \in StrmWords
         /\ \/ /\ rdWords + 1 < Words(readQ[1].len) /\ rdWords' = rdWords + 1
               /\ UNCHANGED <<readQ, rdSts>>
            \/ /\ rdWords + 1 = Words(readQ[1].len) /\ rdWords' = 0
               /\ readQ' = Tail(readQ)
               /\ \E ok \in BOOLEAN :
                    rdSts' = Append(rdSts, [tag |-> readQ[1].tag, ok |-> ok])
<1>1. readQ # <<>> /\ readQ \in Seq(Reads) /\ rdWords \in Nat
  BY DEF ReadWord, TypeOK, DeviceType
<1>2. Head(readQ) = readQ[1] /\ readQ[1] \in Reads
  BY <1>1
<1>3. rdWords * WordSize \in Nat
  BY <1>1, Times, SendAssumption
<1>4. readQ[1].call \in Nat /\ readQ[1].off + rdWords * WordSize \in Nat
  BY <1>2, <1>3 DEF Reads
<1>5. [call |-> readQ[1].call, off |-> readQ[1].off + rdWords * WordSize] \in StrmWords
  BY <1>4 DEF StrmWords
<1>6. Outcomes \subseteq BOOLEAN
  BY DEF Outcomes
<1>7. QED
  BY <1>1, <1>2, <1>5, <1>6 DEF ReadWord

LEMMA ReadWordType == ASSUME TypeOK, ReadWord PROVE TypeOK'
<1>1. UNCHANGED <<fwVars, hdrQ, pktVars>> /\ strm' \in Seq(StrmWords)
  <2>1. \A x \in StrmWords : Append(strm, x) \in Seq(StrmWords)
    BY DEF TypeOK, DeviceType
  <2>2. QED
    BY <2>1, ReadWordFacts
<1>2. readQ' \in Seq(Reads) /\ rdWords' \in Nat /\ rdSts' \in Seq(Statuses)
  <2>1. \A t \in Nat, ok \in BOOLEAN : Append(rdSts, [tag |-> t, ok |-> ok]) \in Seq(Statuses)
    BY DEF TypeOK, DeviceType, Statuses
  <2>2. readQ # <<>> => Tail(readQ) \in Seq(Reads)
    BY DEF TypeOK, DeviceType
  <2>3. readQ[1].tag \in Nat
    BY ReadWordFacts DEF Reads
  <2>4. CASE UNCHANGED <<readQ, rdSts>>
    <3>1. rdWords' \in Nat
      BY ReadWordFacts DEF TypeOK, DeviceType
    <3>2. QED
      BY <2>4, <3>1 DEF TypeOK, DeviceType
  <2>5. CASE ~ UNCHANGED <<readQ, rdSts>>
    <3>1. /\ rdWords' = 0 /\ readQ' = Tail(readQ) /\ readQ # <<>>
          /\ \E ok \in BOOLEAN : rdSts' = Append(rdSts, [tag |-> readQ[1].tag, ok |-> ok])
      BY <2>5, ReadWordFacts
    <3>2. QED
      BY <2>1, <2>2, <2>3, <3>1
  <2>6. QED
    BY <2>4, <2>5
<1>3. DeviceType'
  BY <1>1, <1>2 DEF TypeOK, DeviceType, pktVars
<1>4. QED
  BY <1>1, <1>3, DeviceStep

LEMMA PktStartType == ASSUME TypeOK, PktStart PROVE TypeOK'
<1>1. /\ pkt = NoPkt /\ hdrQ # <<>> /\ pkt' = [hdr |-> Head(hdrQ), data |-> <<>>]
      /\ hdrQ' = Tail(hdrQ) /\ UNCHANGED <<fwVars, dmaVars, strm, pktSts, sent>>
  BY DEF PktStart
<1>2. Head(hdrQ) \in SegHeaders /\ Tail(hdrQ) \in Seq(SegHeaders)
  BY <1>1 DEF TypeOK, DeviceType
<1>3. pkt' \in Segments
  BY <1>1, <1>2 DEF Segments
<1>4. DeviceType'
  BY <1>1, <1>2, <1>3 DEF TypeOK, DeviceType, dmaVars
<1>5. QED
  BY <1>1, <1>4, DeviceStep

LEMMA PktWordType == ASSUME TypeOK, PktWord PROVE TypeOK'
<1>1. /\ pkt # NoPkt /\ strm # <<>>
      /\ pkt' = [pkt EXCEPT !.data = Append(@, Head(strm))]
      /\ strm' = Tail(strm) /\ UNCHANGED <<fwVars, dmaVars, hdrQ, pktSts, sent>>
  BY DEF PktWord
<1>2. Head(strm) \in StrmWords /\ Tail(strm) \in Seq(StrmWords) /\ pkt \in Segments
  BY <1>1 DEF TypeOK, DeviceType
<1>3. pkt' \in Segments
  <2>1. /\ pkt.hdr \in SegHeaders /\ pkt.data \in Seq(StrmWords)
        /\ pkt = [hdr |-> pkt.hdr, data |-> pkt.data]
    BY <1>2 DEF Segments
  <2>2. Append(pkt.data, Head(strm)) \in Seq(StrmWords)
    BY <1>2, <2>1
  <2>3. pkt' = [hdr |-> pkt.hdr, data |-> Append(pkt.data, Head(strm))]
    BY <1>1, <2>1
  <2>4. QED
    BY <2>1, <2>2, <2>3 DEF Segments
<1>4. DeviceType'
  BY <1>1, <1>2, <1>3 DEF TypeOK, DeviceType, dmaVars
<1>5. QED
  BY <1>1, <1>4, DeviceStep

LEMMA PktDoneType == ASSUME TypeOK, PktDone PROVE TypeOK'
<1>1. /\ pkt # NoPkt /\ sent' = [sent EXCEPT ![pkt.hdr.dst] = Append(@, pkt)]
      /\ pktSts' = Append(pktSts, pkt.hdr.seq) /\ pkt' = NoPkt
      /\ UNCHANGED <<fwVars, dmaVars, strm, hdrQ>>
  BY DEF PktDone
<1>2. pkt \in Segments /\ pkt.hdr.dst \in Dsts /\ pkt.hdr.seq \in Nat
  BY <1>1 DEF TypeOK, DeviceType, Segments, SegHeaders
<1>3. sent' \in [Dsts -> Seq(Segments)] /\ pktSts' \in Seq(Nat)
  BY <1>1, <1>2 DEF TypeOK, DeviceType
<1>4. DeviceType'
  BY <1>1, <1>3 DEF TypeOK, DeviceType, dmaVars
<1>5. QED
  BY <1>1, <1>4, DeviceStep

LEMMA TypeStep == ASSUME TypeOK, [SendNext]_vars PROVE TypeOK'
<1>1. CASE UNCHANGED vars
  BY <1>1 DEF vars, fwVars, dmaVars, pktVars, TypeOK, FwType, DeviceType, Progress, MustAck
<1>2. CASE SendNext
  BY <1>2, CallType, IssueFirstType, IssueNextType, AckDmaType, AckPktType,
     AckTimeoutType, FinishType, ReadWordType, PktStartType, PktWordType, PktDoneType
     DEF SendNext, Firmware, Packetizer
<1>3. QED
  BY <1>1, <1>2

-----------------------------------------------------------------------------
(* The segments of the packetizer and of the DMA                           *)

(* The headers of the segments that the packetizer has not sent.           *)
Pend == IF pkt = NoPkt THEN hdrQ ELSE <<pkt.hdr>> \o hdrQ

(* How many headers are ahead of their command.                            *)
Early ==
  IF Running /\ toAck = call.len
  THEN Least(Segs(toMove), MaxInFlight - inFlight) ELSE 0

Taken == IF pkt = NoPkt THEN 0 ELSE Len(pkt.data)

(* All segments that the DMA was ever asked for, of all calls: segment j   *)
(* is the part of a message that seg[j] tells, its words are those from    *)
(* the from[j]-th on of all words ever streamed. Segment p is the first    *)
(* not sent, segment r the first not read.                                 *)
Cuts(n, seg, from, p, r) ==
  /\ n \in Nat /\ p \in 1 .. n + 1 /\ r \in 1 .. n + 1
  /\ \A j \in 1 .. n : /\ seg[j] \in [call : Nat, off : Nat, len : Nat]
                       /\ seg[j].len > 0 /\ seg[j].off % TxnSize = 0
  /\ \A j \in 1 .. n + 1 : from[j] \in Nat
  /\ \A j \in 1 .. n, k \in 1 .. n + 1 :
       /\ j < k => from[j] + Words(seg[j].len) <= from[k]
       /\ k = j + 1 => from[k] = from[j] + Words(seg[j].len)

(* DMA1 was given the segments from r on.                                  *)
ReadsCut(n, seg, r) ==
  /\ Len(readQ) + r = n + 1
  /\ \A i \in 1 .. Len(readQ), j \in 1 .. n :
       j = r + i - 1 => /\ readQ[i].call = seg[j].call /\ readQ[i].off = seg[j].off
                        /\ readQ[i].len = seg[j].len
  /\ readQ = <<>> => rdWords = 0
  /\ readQ # <<>> => rdWords < Words(readQ[1].len)

(* The headers are those of the segments from p on, and of the next ones   *)
(* of the call.                                                            *)
HeadersCut(n, seg, p) ==
  /\ Len(Pend) + p = n + 1 + Early
  /\ \A i \in 1 .. Len(Pend), j \in 1 .. n :
       j = p + i - 1 => Pend[i].call = seg[j].call /\ Pend[i].len = seg[j].len
  /\ \A i \in 1 .. Len(Pend), e \in Nat :
       p + i - 1 = n + 1 + e =>
         Pend[i].call = ncalls /\ Pend[i].len = SegLen(toMove - e * TxnSize)

(* The words between DMA and packetizer are those that the one has read    *)
(* and the other has not taken.                                            *)
WordsCut(n, seg, from, p, r) ==
  /\ Len(strm) + from[p] + Taken = from[r] + rdWords
  /\ \A j \in 1 .. n, w \in Nat, k \in 1 .. Len(strm) :
       w < Words(seg[j].len) /\ from[p] + Taken + k = from[j] + w + 1 =>
         strm[k] = [call |-> seg[j].call, off |-> seg[j].off + w * WordSize]

(* The packetizer has the first words of segment p.                        *)
PktCut(n, seg, p) ==
  pkt # NoPkt =>
    /\ Len(pkt.data) <= Words(pkt.hdr.len)
    /\ pkt.data # <<>> => p <= n
    /\ \A k \in 1 .. Len(pkt.data) :
         pkt.data[k] = [call |-> seg[p].call, off |-> seg[p].off + (k - 1) * WordSize]

(* Until a call fails, all that is not sent is of the call in progress,    *)
(* segment by segment.                                                     *)
Offsets(n, seg, p) ==
  failedAt = 0 =>
    \A j \in 1 .. n, e \in Nat :
      j >= p /\ e + n + 1 - j = Segs(call.len) - Segs(toMove) =>
        seg[j].off = e * TxnSize

Flow(n, seg, from, p, r) ==
  /\ Cuts(n, seg, from, p, r) /\ ReadsCut(n, seg, r) /\ HeadersCut(n, seg, p)
  /\ WordsCut(n, seg, from, p, r) /\ PktCut(n, seg, p) /\ Offsets(n, seg, p)

FlowInv == \E n, seg, from, p, r : Flow(n, seg, from, p, r)

LEMMA PendFacts ==
  ASSUME TypeOK
  PROVE  /\ Pend \in Seq(SegHeaders) /\ Len(Pend) \in Nat /\ Taken \in Nat
         /\ pkt = NoPkt => Pend = hdrQ /\ Taken = 0
         /\ pkt # NoPkt => /\ Pend = <<pkt.hdr>> \o hdrQ /\ Len(Pend) = Len(hdrQ) + 1
                           /\ Pend[1] = pkt.hdr /\ Taken = Len(pkt.data)
                           /\ pkt.hdr \in SegHeaders /\ pkt.data \in Seq(StrmWords)
                           /\ \A i \in 1 .. Len(hdrQ) : Pend[i + 1] = hdrQ[i]
<1>1. hdrQ \in Seq(SegHeaders)
  BY DEF TypeOK, DeviceType
<1>2. CASE pkt = NoPkt
  BY <1>1, <1>2 DEF Pend, Taken
<1>3. CASE pkt # NoPkt
  <2>1. pkt.hdr \in SegHeaders /\ pkt.data \in Seq(StrmWords)
    BY <1>3 DEF TypeOK, DeviceType, Segments
  <2>2. <<pkt.hdr>> \in Seq(SegHeaders) /\ Len(<<pkt.hdr>>) = 1 /\ <<pkt.hdr>>[1] = pkt.hdr
    BY <2>1
  <2>3. PICK h : h = <<pkt.hdr>>
    OBVIOUS
  <2>4. h \o hdrQ \in Seq(SegHeaders) /\ Len(h \o hdrQ) = Len(hdrQ) + 1
        /\ (h \o hdrQ)[1] = pkt.hdr
        /\ \A i \in 1 .. Len(hdrQ) : (h \o hdrQ)[i + 1] = hdrQ[i]
    BY <1>1, <2>2, <2>3
  <2>5. QED
    BY <1>3, <2>1, <2>3, <2>4 DEF Pend, Taken
<1>4. QED
  BY <1>2, <1>3

LEMMA EarlyFacts ==
  ASSUME TypeOK
  PROVE  /\ Early \in Nat
         /\ MustAck \/ ~ Running \/ toAck # call.len => Early = 0
         /\ Segs(toMove) \in Nat
<1>1. toMove \in Nat /\ inFlight \in Nat /\ inFlight <= MaxInFlight
  BY DEF TypeOK, FwType, Progress
<1>2. Segs(toMove) \in Nat /\ (toMove = 0 => Segs(toMove) = 0)
  BY <1>1, SegsFacts
<1>3. MaxInFlight - inFlight \in Nat
  BY <1>1, SendAssumption
<1>4. QED
  BY <1>1, <1>2, <1>3 DEF Early, Least, MustAck

(* Steps that move no header, no command and no word.                      *)
LEMMA FlowKept ==
  ASSUME FlowInv, Early' = Early, failedAt' = 0 => failedAt = 0,
         UNCHANGED <<call, ncalls, toMove, readQ, rdWords, strm, hdrQ, pkt>>
  PROVE  FlowInv'
<1>1. PICK n, seg, from, p, r : Flow(n, seg, from, p, r)
  BY DEF FlowInv
<1>2. Pend' = Pend /\ Taken' = Taken
  BY DEF Pend, Taken
<1>3. Cuts(n, seg, from, p, r) /\ ReadsCut(n, seg, r)'
  BY <1>1 DEF Flow, ReadsCut
<1>4. HeadersCut(n, seg, p)' /\ WordsCut(n, seg, from, p, r)'
  BY <1>1, <1>2 DEF Flow, HeadersCut, WordsCut
<1>5. PktCut(n, seg, p)' /\ Offsets(n, seg, p)'
  BY <1>1 DEF Flow, PktCut, Offsets
<1>6. Flow(n, seg, from, p, r)'
  BY <1>3, <1>4, <1>5 DEF Flow, Cuts
<1>7. QED
  BY <1>6 DEF FlowInv

LEMMA FlowInit == SendInit => FlowInv
<1> SUFFICES ASSUME SendInit PROVE FlowInv
  OBVIOUS
<1> DEFINE seg == <<>>
           from == [j \in {1} |-> 0]
<1>1. pkt = NoPkt /\ hdrQ = <<>> /\ readQ = <<>> /\ strm = <<>> /\ rdWords = 0
      /\ ~ Running
  BY DEF SendInit, Running
<1>2. Pend = <<>> /\ Taken = 0 /\ Early = 0
  BY <1>1 DEF Pend, Taken, Early
<1>3. Cuts(0, seg, from, 1, 1)
  BY DEF Cuts
<1>4. ReadsCut(0, seg, 1) /\ HeadersCut(0, seg, 1)
  BY <1>1, <1>2 DEF ReadsCut, HeadersCut
<1>5. WordsCut(0, seg, from, 1, 1) /\ PktCut(0, seg, 1) /\ Offsets(0, seg, 1)
  BY <1>1, <1>2 DEF WordsCut, PktCut, Offsets
<1>6. Flow(0, seg, from, 1, 1)
  BY <1>3, <1>4, <1>5 DEF Flow
<1> HIDE DEF seg, from
<1>7. QED
  BY <1>6 DEF FlowInv

LEMMA AcksFlow ==
  ASSUME TypeOK, FlowInv, AckDma \/ AckPkt \/ AckTimeout \/ FinishSend
  PROVE  FlowInv'
<1>1. /\ UNCHANGED <<call, ncalls, toMove, readQ, rdWords, strm, hdrQ, pkt>>
      /\ failedAt' = 0 => failedAt = 0
  BY DEF AckDma, AckPkt, AckTimeout, FinishSend, Fail, dmaVars, pktVars
<1>2. MustAck
  <2>1. FinishSend => MustAck
    BY DEF FinishSend, MustAck
  <2>2. waitPkt => MustAck
    BY DEF TypeOK, Progress
  <2>3. QED
    BY <2>1, <2>2 DEF AckDma, AckPkt, AckTimeout
<1>3. Early = 0
  BY <1>2, EarlyFacts
<1>4. Early' = 0
  <2>1. AckPkt /\ ~ Fail => toAck' = toAck - SegLen(toAck) /\ call' = call /\ waitPkt
    BY DEF AckPkt
  <2>2. toAck \in Nat /\ call.len \in Nat /\ toAck <= call.len
    BY CallFacts DEF TypeOK, FwType, Progress
  <2>3. AckPkt /\ ~ Fail => toAck' # call'.len
    BY <2>1, <2>2, AckedFacts
  <2>4. Fail \/ FinishSend => ~ Running'
    BY DEF Fail, FinishSend, Running
  <2>5. AckDma /\ ~ Fail => UNCHANGED <<toMove, inFlight>>
    BY DEF AckDma
  <2>6. AckTimeout => Fail
    BY DEF AckTimeout
  <2>7. AckDma => MustAck
    BY DEF AckDma
  <2>8. AckDma /\ ~ Fail => Early' = Early
    BY <2>5 DEF AckDma, Early, Running
  <2>9. ~ Running' \/ toAck' # call'.len => Early' = 0
    BY DEF Early
  <2>10. QED
    BY <1>3, <2>3, <2>4, <2>6, <2>8, <2>9
<1>5. QED
  BY <1>1, <1>3, <1>4, FlowKept

(* More headers at the end of the queue.                                   *)
LEMMA PendGrows ==
  ASSUME TypeOK, NEW x \in Seq(SegHeaders), hdrQ' = hdrQ \o x, pkt' = pkt
  PROVE  /\ Len(Pend') = Len(Pend) + Len(x) /\ Len(Pend) \in Nat /\ Len(x) \in Nat
         /\ \A i \in 1 .. Len(Pend) : Pend'[i] = Pend[i]
         /\ \A i \in 1 .. Len(x) : Pend'[Len(Pend) + i] = x[i]
<1>1. hdrQ \in Seq(SegHeaders) /\ Pend \in Seq(SegHeaders)
  BY PendFacts DEF TypeOK, DeviceType
<1>2. Pend' = Pend \o x
  <2>1. CASE pkt = NoPkt
    BY <2>1 DEF Pend
  <2>2. CASE pkt # NoPkt
    <3>1. PICK h : h = <<pkt.hdr>> /\ h \in Seq(SegHeaders)
      <4>1. pkt.hdr \in SegHeaders
        BY <2>2, PendFacts
      <4>2. QED
        BY <4>1, Single
    <3>2. h \o (hdrQ \o x) = (h \o hdrQ) \o x
      BY <1>1, <3>1
    <3>3. QED
      BY <2>2, <3>1, <3>2 DEF Pend
  <2>3. QED
    BY <2>1, <2>2
<1>3. QED
  BY <1>1, <1>2

(* The firmware queues m headers, numbered from an offset on.              *)
Queued(m, dst, bytes, offset) ==
  /\ Len(Pend') = Len(Pend) + m /\ Len(Pend) \in Nat
  /\ \A i \in 1 .. Len(Pend) : Pend'[i] = Pend[i]
  /\ \A i \in 1 .. m : IsHeader(Pend'[Len(Pend) + i], dst, bytes, offset, i)

LEMMA CallPend ==
  ASSUME TypeOK, NEW c \in Calls, CallSend(c)
  PROVE  /\ Early = 0 /\ Early' \in Nat /\ Early' = Least(Segs(c.len), MaxInFlight)
         /\ Queued(Early', c.dst, c.len, 0)
<1>1. /\ ~ Running /\ Running' /\ call' = c /\ ncalls' = ncalls + 1 /\ inFlight' = 0
      /\ toMove' = c.len /\ toAck' = c.len
      /\ hdrQ' = hdrQ \o Headers(c.dst, c.len, c.tag, 0) /\ pkt' = pkt
  BY DEF CallSend, pktVars, Running
<1>2. /\ c.dst \in Dsts /\ c.len \in Nat /\ c.tag \in CallTags
      /\ ncalls' \in Nat /\ FwType /\ 0 \in Nat
  BY <1>1, CallFacts DEF TypeOK, FwType
<1>3. PICK x, m : /\ x = Headers(c.dst, c.len, c.tag, 0)
                  /\ m = Least(Segs(c.len), MaxInFlight)
  OBVIOUS
<1>4. /\ x \in Seq(SegHeaders) /\ Len(x) = m /\ m \in Nat
      /\ \A i \in 1 .. m : IsHeader(x[i], c.dst, c.len, 0, i)
  <2>1. PICK d \in Dsts, b \in Nat, t \in CallTags, o \in Nat :
          d = c.dst /\ b = c.len /\ t = c.tag /\ o = 0
    BY <1>2
  <2>2. x = Headers(d, b, t, o) /\ m = Least(Segs(b), MaxInFlight)
    BY <1>3, <2>1
  <2>3. /\ x \in Seq(SegHeaders) /\ Len(x) = m /\ m \in Nat
        /\ \A i \in 1 .. m : IsHeader(x[i], d, b, o, i)
    <3>1. FwType /\ ncalls' \in Nat
      BY <1>2
    <3>2. QED
      BY <2>2, <3>1, HeadersFacts
  <2>4. QED
    BY <2>1, <2>3
<1>5. Early = 0 /\ Early' = m
  <2>1. MaxInFlight - 0 = MaxInFlight
    BY SendAssumption
  <2>2. QED
    BY <1>1, <1>3, <2>1, EarlyFacts DEF Early
<1>6. /\ Len(Pend') = Len(Pend) + m /\ Len(Pend) \in Nat
      /\ \A i \in 1 .. Len(Pend) : Pend'[i] = Pend[i]
      /\ \A i \in 1 .. m : Pend'[Len(Pend) + i] = x[i]
  BY <1>1, <1>3, <1>4, PendGrows
<1>7. QED
  BY <1>3, <1>4, <1>5, <1>6 DEF Queued

LEMMA CallFlow == ASSUME TypeOK, FlowInv, NEW c \in Calls, CallSend(c) PROVE FlowInv'
<1>1. PICK n, seg, from, p, r : Flow(n, seg, from, p, r)
  BY DEF FlowInv
<1>2. /\ call' = c /\ ncalls' = ncalls + 1 /\ toMove' = c.len /\ failedAt' = failedAt
      /\ UNCHANGED <<readQ, rdWords, strm, pkt>>
  BY DEF CallSend, dmaVars, pktVars
<1>3. c.len \in Nat
  BY CallFacts
<1>5. PICK m \in Nat : Early = 0 /\ Early' = m /\ Queued(m, c.dst, c.len, 0)
  BY CallPend
<1>6. /\ Len(Pend') = Len(Pend) + m /\ Len(Pend) \in Nat
      /\ \A i \in 1 .. Len(Pend) : Pend'[i] = Pend[i]
      /\ \A i \in 1 .. m :
            /\ Pend'[Len(Pend) + i].call = ncalls'
            /\ Pend'[Len(Pend) + i].len = SegLen(c.len - (i - 1) * TxnSize)
  BY <1>5 DEF Queued, IsHeader
<1>7. n \in Nat /\ p \in Nat /\ Len(Pend) + p = n + 1
  BY <1>1, <1>5, <1>6 DEF Flow, HeadersCut, Cuts
<1>8. HeadersCut(n, seg, p)'
  <2>1. Len(Pend') + p = n + 1 + Early'
    BY <1>5, <1>6, <1>7
  <2>2. ASSUME NEW i \in 1 .. Len(Pend'), NEW j \in 1 .. n, j = p + i - 1
        PROVE  Pend'[i].call = seg[j].call /\ Pend'[i].len = seg[j].len
    <3>1. i \in 1 .. Len(Pend)
      BY <1>6, <1>7, <2>2
    <3>2. QED
      BY <1>1, <1>6, <2>2, <3>1 DEF Flow, HeadersCut
  <2>3. ASSUME NEW i \in 1 .. Len(Pend'), NEW e \in Nat, p + i - 1 = n + 1 + e
        PROVE  Pend'[i].call = ncalls' /\ Pend'[i].len = SegLen(toMove' - e * TxnSize)
    <3>1. PICK l \in Nat : l = Len(Pend) /\ l + p = n + 1 /\ i \in 1 .. l + m
      BY <1>6, <1>7, <2>3
    <3>2. PICK k \in Nat : k = e + 1
      BY <2>3
    <3>3. i = l + k /\ k \in 1 .. m /\ k - 1 = e
      BY <1>7, <2>3, <3>1, <3>2
    <3>4. QED
      BY <1>2, <1>6, <3>1, <3>3
  <2>4. QED
    BY <2>1, <2>2, <2>3 DEF HeadersCut
<1>9. Taken' = Taken
  BY <1>2 DEF Taken
<1>10. ReadsCut(n, seg, r)' /\ WordsCut(n, seg, from, p, r)' /\ PktCut(n, seg, p)'
  BY <1>1, <1>2, <1>9 DEF Flow, ReadsCut, WordsCut, PktCut
<1>11. Offsets(n, seg, p)'
  <2>1. Segs(c.len) - Segs(c.len) = 0
    BY <1>3, SegsFacts
  <2>2. SUFFICES ASSUME NEW j \in 1 .. n, NEW e \in Nat, e + n + 1 - j = 0
                 PROVE  FALSE
    BY <1>2, <2>1 DEF Offsets
  <2>3. QED
    BY <1>7, <2>2
<1>12. Flow(n, seg, from, p, r)'
  BY <1>1, <1>8, <1>10, <1>11 DEF Flow, Cuts
<1>13. QED
  BY <1>12 DEF FlowInv

(* The offset of the next segment in its message.                          *)
LEMMA NextOffset ==
  ASSUME TypeOK, toMove > 0, NEW e \in Nat, e = Segs(call.len) - Segs(toMove)
  PROVE  call.len - toMove = e * TxnSize
<1>1. /\ toMove \in Nat /\ call.len \in Nat /\ toMove <= call.len
      /\ TxnSize \in Nat /\ TxnSize > 0 /\ (call.len - toMove) % TxnSize = 0
  BY CallFacts, SendAssumption DEF TypeOK, FwType, Progress
<1>2. PICK x \in Nat : x = call.len - toMove
  BY <1>1
<1>3. PICK k \in Nat : x = k * TxnSize
  BY <1>1, <1>2, Multiple
<1>4. PICK s \in Nat : /\ s = Segs(toMove) /\ s * TxnSize < toMove + TxnSize
                       /\ toMove <= s * TxnSize
  BY <1>1, SegsFacts
<1>5. (s + k) * TxnSize = s * TxnSize + x /\ s * TxnSize \in Nat
  BY <1>1, <1>3
<1>6. (s + k) * TxnSize < call.len + TxnSize /\ call.len <= (s + k) * TxnSize
  BY <1>1, <1>2, <1>4, <1>5
<1>7. Segs(call.len) = s + k
  BY <1>1, <1>6, QuotientUnique DEF Segs
<1>8. e = k
  BY <1>4, <1>7
<1>9. QED
  BY <1>2, <1>3, <1>8

(* The header of the next segment is there already.                        *)
LEMMA FirstPend ==
  ASSUME TypeOK, IssueFirst
  PROVE  Pend' = Pend /\ Early' = Early - 1 /\ Early > 0 /\ Early \in Nat
<1>1. /\ StartDma /\ Running /\ Running' /\ toAck = call.len
      /\ UNCHANGED <<pkt, hdrQ, call, toAck>>
  BY DEF IssueFirst, StartDma, pktVars, Running
<1>2. /\ inFlight \in Nat /\ inFlight < MaxInFlight /\ MaxInFlight \in Nat
      /\ inFlight' = inFlight + 1 /\ Segs(toMove') = Segs(toMove) - 1
      /\ toMove \in Nat /\ toMove > 0
  BY <1>1, IssuedFacts, SendAssumption
<1>3. Segs(toMove) \in Nat /\ Segs(toMove) > 0 /\ Early \in Nat
  BY <1>2, SegsNext, SegsFacts, EarlyFacts
<1>4. Pend' = Pend
  BY <1>1 DEF Pend
<1>5. Early' = Early - 1 /\ Early > 0
  BY <1>1, <1>2, <1>3 DEF Early, Least
<1>6. QED
  BY <1>3, <1>4, <1>5

(* The header of the next segment is there when its command is issued, or  *)
(* comes with it.                                                          *)
NextHeaders(n, seg, p) ==
  /\ Len(Pend') + p = n + 2 + Early'
  /\ \A i \in 1 .. Len(Pend'), j \in 1 .. n :
       j = p + i - 1 => Pend'[i].call = seg[j].call /\ Pend'[i].len = seg[j].len
  /\ \A i \in 1 .. Len(Pend') :
       p + i - 1 = n + 1 => Pend'[i].call = ncalls /\ Pend'[i].len = SegLen(toMove)
  /\ \A i \in 1 .. Len(Pend'), e \in Nat :
       p + i - 1 = n + 2 + e =>
         Pend'[i].call = ncalls /\ Pend'[i].len = SegLen(toMove' - e * TxnSize)

(* The header that comes with a command is numbered past all that may be   *)
(* in flight.                                                              *)
LEMMA NextPend ==
  ASSUME TypeOK, IssueNext
  PROVE  /\ Early = 0 /\ Early' = 0 /\ Len(Pend') = Len(Pend) + 1 /\ Len(Pend) \in Nat
         /\ \A i \in 1 .. Len(Pend) : Pend'[i] = Pend[i]
         /\ Pend'[Len(Pend) + 1].call = ncalls /\ Pend'[Len(Pend) + 1].len = SegLen(toMove)
         /\ Pend'[Len(Pend) + 1].dst = call.dst
         /\ Pend'[Len(Pend) + 1].seq = outSeq[call.dst] + MaxInFlight
<1>1. /\ StartDma /\ Running /\ UNCHANGED <<pkt, call, toAck, ncalls, retval>>
      /\ toAck # call.len
      /\ hdrQ' = hdrQ \o Headers(call.dst, SegLen(toMove), call.tag, MaxInFlight - 1)
  BY DEF IssueNext, StartDma, pktVars
<1>2. Early = 0 /\ Early' = 0
  BY <1>1, EarlyFacts DEF Early
<1>3. /\ MaxInFlight - 1 \in Nat /\ ncalls' \in Nat /\ call.dst \in Dsts
      /\ call.tag \in CallTags /\ SegLen(toMove) \in Nat /\ outSeq[call.dst] \in Nat
  BY <1>1, CallFacts, IssuedFacts, SendAssumption DEF TypeOK, FwType
<1>4. outSeq[call.dst] + (MaxInFlight - 1) + 1 = outSeq[call.dst] + MaxInFlight
      /\ outSeq[call.dst] + MaxInFlight \in Nat
  BY <1>3, SendAssumption
<1>5. PICK h : h = [call |-> ncalls', dst |-> call.dst, len |-> SegLen(toMove),
                    tag |-> call.tag, seq |-> outSeq[call.dst] + (MaxInFlight - 1) + 1]
  OBVIOUS
<1>6. Headers(call.dst, SegLen(toMove), call.tag, MaxInFlight - 1) = <<h>>
  BY <1>1, <1>3, <1>5, OneHeader
<1>7. /\ h \in SegHeaders /\ h.call = ncalls /\ h.len = SegLen(toMove)
      /\ h.dst = call.dst /\ h.seq = outSeq[call.dst] + MaxInFlight
  BY <1>1, <1>3, <1>4, <1>5 DEF SegHeaders
<1>8. PICK x \in Seq(SegHeaders) : x = <<h>> /\ Len(x) = 1 /\ x[1] = h
  BY <1>7, Single
<1>9. /\ Len(Pend') = Len(Pend) + Len(x) /\ Len(Pend) \in Nat
      /\ \A i \in 1 .. Len(Pend) : Pend'[i] = Pend[i]
      /\ \A i \in 1 .. Len(x) : Pend'[Len(Pend) + i] = x[i]
  BY <1>1, <1>6, <1>8, PendGrows
<1>10. 1 \in 1 .. Len(x)
  BY <1>8
<1>11. QED
  BY <1>2, <1>7, <1>8, <1>9, <1>10

LEMMA IssuedHeader ==
  ASSUME TypeOK, NEW n, NEW seg, NEW p, n \in Nat, p \in Nat, HeadersCut(n, seg, p),
         IssueFirst \/ IssueNext
  PROVE  NextHeaders(n, seg, p)
<1>1. /\ StartDma /\ Running /\ UNCHANGED <<pkt, call, toAck, ncalls, retval>>
  BY DEF IssueFirst, IssueNext, StartDma, pktVars
<1>2. /\ toMove \in Nat /\ inFlight \in Nat /\ inFlight < MaxInFlight /\ MaxInFlight \in Nat
      /\ inFlight' = inFlight + 1 /\ Segs(toMove') = Segs(toMove) - 1
      /\ Segs(toMove) \in Nat /\ Segs(toMove) > 0
      /\ toMove' \in Nat /\ toMove' = toMove - SegLen(toMove)
      /\ toMove' > 0 => SegLen(toMove) = TxnSize
  BY <1>1, IssuedFacts, SegsFacts, SegsNext, SendAssumption
<1>3. Len(Pend) \in Nat /\ Len(Pend) + p = n + 1 + Early /\ Early \in Nat
  BY PendFacts, EarlyFacts DEF HeadersCut
<1>4. CASE IssueFirst
  <2>1. /\ Pend' = Pend /\ toAck = call.len /\ Running'
    BY <1>1, <1>4 DEF IssueFirst, Pend, Running
  <2>2. Early' = Early - 1 /\ Early > 0
    BY <1>4, FirstPend
  <2>3. ASSUME NEW i \in 1 .. Len(Pend), p + i - 1 = n + 1
        PROVE  Pend[i].call = ncalls /\ Pend[i].len = SegLen(toMove)
    <3>1. 0 \in Nat /\ n + 1 = n + 1 + 0 /\ toMove - 0 * TxnSize = toMove
      BY <1>2, SendAssumption
    <3>2. p + i - 1 = n + 1 + 0
      BY <2>3, <3>1
    <3>3. QED
      BY <3>1, <3>2 DEF HeadersCut
  <2>4. ASSUME NEW i \in 1 .. Len(Pend), NEW e \in Nat, p + i - 1 = n + 2 + e
        PROVE  Pend[i].call = ncalls /\ Pend[i].len = SegLen(toMove' - e * TxnSize)
    <3>1. PICK k \in Nat : k = e + 1 /\ p + i - 1 = n + 1 + k
      BY <2>4
    <3>2. Pend[i].call = ncalls /\ Pend[i].len = SegLen(toMove - k * TxnSize)
      BY <3>1 DEF HeadersCut
    <3>3. toMove' > 0
      <4>1. Early' > 0
        BY <1>3, <2>2, <2>4
      <4>2. toMove' = 0 => Segs(toMove') = 0
        BY SegsFacts
      <4>3. toMove' = 0 => Early = 1
        BY <1>1, <1>2, <2>1, <4>2 DEF Early, Least
      <4>4. QED
        BY <1>2, <2>2, <4>1, <4>3
    <3>4. k * TxnSize = e * TxnSize + TxnSize /\ e * TxnSize \in Nat
      BY <3>1, SendAssumption, Times
    <3>5. toMove - k * TxnSize = toMove' - e * TxnSize
      BY <1>2, <3>3, <3>4, SendAssumption
    <3>6. QED
      BY <3>2, <3>5
  <2>5. QED
    BY <1>3, <2>1, <2>2, <2>3, <2>4 DEF HeadersCut, NextHeaders
<1>5. CASE IssueNext
  <2>1. Early = 0 /\ Early' = 0
    BY <1>5, NextPend
  <2>4. /\ Len(Pend') = Len(Pend) + 1
        /\ \A i \in 1 .. Len(Pend) : Pend'[i] = Pend[i]
        /\ Pend'[Len(Pend) + 1].call = ncalls
        /\ Pend'[Len(Pend) + 1].len = SegLen(toMove)
    BY <1>5, NextPend
  <2>5. Len(Pend') + p = n + 2 + Early'
    BY <1>3, <2>1, <2>4
  <2>6. ASSUME NEW i \in 1 .. Len(Pend'), NEW j \in 1 .. n, j = p + i - 1
        PROVE  Pend'[i].call = seg[j].call /\ Pend'[i].len = seg[j].len
    <3>1. i \in 1 .. Len(Pend)
      BY <1>3, <2>1, <2>4, <2>6
    <3>2. QED
      BY <2>4, <2>6, <3>1 DEF HeadersCut
  <2>7. ASSUME NEW i \in 1 .. Len(Pend'), p + i - 1 = n + 1
        PROVE  i = Len(Pend) + 1
    BY <1>3, <2>1, <2>4, <2>7
  <2>8. ASSUME NEW i \in 1 .. Len(Pend'), NEW e \in Nat, p + i - 1 = n + 2 + e
        PROVE  FALSE
    BY <1>3, <2>1, <2>4, <2>8
  <2>9. QED
    BY <2>4, <2>5, <2>6, <2>7, <2>8 DEF NextHeaders
<1>6. QED
  BY <1>4, <1>5

(* A command for one more segment.                                         *)
LEMMA IssueFlow == ASSUME TypeOK, FlowInv, IssueFirst \/ IssueNext PROVE FlowInv'
<1>1. PICK n, seg, from, p, r : Flow(n, seg, from, p, r)
  BY DEF FlowInv
<1>2. /\ StartDma /\ UNCHANGED <<call, ncalls, pkt, strm, rdWords, failedAt>>
      /\ readQ' = Append(readQ, [call |-> ncalls, off |-> call.len - toMove,
                                 len |-> SegLen(toMove), tag |-> TagAfter(dma_tag_tmp, 1)])
  BY DEF IssueFirst, IssueNext, StartDma, pktVars
<1>3. /\ n \in Nat /\ p \in 1 .. n + 1 /\ r \in 1 .. n + 1
      /\ \A j \in 1 .. n + 1 : from[j] \in Nat
      /\ \A j \in 1 .. n : Words(seg[j].len) \in Nat
  <2>1. \A j \in 1 .. n : seg[j].len \in Nat
    BY <1>1 DEF Flow, Cuts
  <2>2. QED
    BY <1>1, <2>1, WordsFacts DEF Flow, Cuts
<1>4. /\ ncalls \in Nat /\ (call.len - toMove) \in Nat
      /\ SegLen(toMove) \in Nat /\ SegLen(toMove) > 0
      /\ Words(SegLen(toMove)) \in Nat /\ Words(SegLen(toMove)) > 0
      /\ (call.len - toMove) % TxnSize = 0 /\ toMove > 0
  BY <1>2, IssuedFacts, WordsFacts DEF TypeOK, FwType
<1>a. PICK s, seg2, from2 :
        /\ s = [call |-> ncalls, off |-> call.len - toMove, len |-> SegLen(toMove)]
        /\ seg2 = [j \in 1 .. n + 1 |-> IF j = n + 1 THEN s ELSE seg[j]]
        /\ from2 = [j \in 1 .. n + 2 |->
                       IF j = n + 2 THEN from[n + 1] + Words(SegLen(toMove)) ELSE from[j]]
  OBVIOUS
<1>5. /\ \A j \in 1 .. n : seg2[j] = seg[j]
      /\ seg2[n + 1].call = ncalls /\ seg2[n + 1].off = call.len - toMove
      /\ seg2[n + 1].len = SegLen(toMove)
      /\ seg2[n + 1] \in [call : Nat, off : Nat, len : Nat]
  <2>1. \A j \in 1 .. n : j \in 1 .. n + 1 /\ j # n + 1
    BY <1>3
  <2>2. n + 1 \in 1 .. n + 1
    BY <1>3
  <2>3. s \in [call : Nat, off : Nat, len : Nat]
    BY <1>4, <1>a
  <2>4. s.call = ncalls /\ s.off = call.len - toMove /\ s.len = SegLen(toMove)
    BY <1>a
  <2>5. QED
    BY <1>a, <2>1, <2>2, <2>3, <2>4
<1>6. /\ \A j \in 1 .. n + 1 : from2[j] = from[j]
      /\ from2[n + 2] = from[n + 1] + Words(SegLen(toMove))
  BY <1>3, <1>a
<1>7. Cuts(n + 1, seg2, from2, p, r)
  <2>1. n + 1 \in Nat /\ p \in 1 .. (n + 1) + 1 /\ r \in 1 .. (n + 1) + 1
    BY <1>3
  <2>2. \A j \in 1 .. n + 1 : j \in 1 .. n \/ j = n + 1
    BY <1>3
  <2>3. \A j \in 1 .. n + 1 : /\ seg2[j] \in [call : Nat, off : Nat, len : Nat]
                              /\ seg2[j].len > 0 /\ seg2[j].off % TxnSize = 0
    BY <1>1, <1>4, <1>5, <2>2 DEF Flow, Cuts
  <2>4. \A j \in 1 .. (n + 1) + 1 : j \in 1 .. n + 1 \/ j = n + 2
    BY <1>3
  <2>5. \A j \in 1 .. (n + 1) + 1 : from2[j] \in Nat
    BY <1>3, <1>4, <1>6, <2>4
  <2>6. ASSUME NEW j \in 1 .. n + 1, NEW k \in 1 .. (n + 1) + 1
        PROVE  /\ j < k => from2[j] + Words(seg2[j].len) <= from2[k]
               /\ k = j + 1 => from2[k] = from2[j] + Words(seg2[j].len)
    <3>1. CASE j \in 1 .. n /\ k \in 1 .. n + 1
      BY <1>1, <1>5, <1>6, <2>6, <3>1 DEF Flow, Cuts
    <3>2. CASE j \in 1 .. n /\ k = n + 2
      <4>1. n + 1 \in 1 .. n + 1 /\ j < n + 1 /\ k # j + 1
        BY <1>3, <3>2
      <4>2. from[j] + Words(seg[j].len) <= from[n + 1]
        BY <1>1, <3>2, <4>1 DEF Flow, Cuts
      <4>3. from[n + 1] \in Nat /\ from[j] \in Nat /\ Words(seg[j].len) \in Nat
        BY <1>3, <2>6, <3>2, <4>1
      <4>4. /\ from2[k] = from[n + 1] + Words(SegLen(toMove))
            /\ from2[j] = from[j] /\ seg2[j] = seg[j]
        BY <1>5, <1>6, <2>6, <3>2
      <4>5. QED
        BY <1>4, <4>1, <4>2, <4>3, <4>4
    <3>3. CASE j = n + 1 /\ k \in 1 .. n + 1
      BY <1>3, <3>3
    <3>4. CASE j = n + 1 /\ k = n + 2
      <4>1. n + 1 \in 1 .. n + 1
        BY <1>3
      <4>2. from2[k] = from2[j] + Words(seg2[j].len)
        BY <1>5, <1>6, <3>4, <4>1
      <4>3. from2[k] \in Nat
        BY <2>5
      <4>4. QED
        BY <4>2, <4>3
    <3>5. QED
      BY <2>2, <2>4, <3>1, <3>2, <3>3, <3>4
  <2>7. QED
    BY <2>1, <2>3, <2>5, <2>6 DEF Cuts
<1>8. ReadsCut(n + 1, seg2, r)'
  <2>1. readQ \in Seq(Reads) /\ readQ' \in Seq(Reads)
    BY <1>2, StartType, IssueFirstType, IssueNextType DEF TypeOK, DeviceType
  <2>2. /\ Len(readQ) + r = n + 1 /\ Len(readQ) \in Nat
        /\ Len(readQ') = Len(readQ) + 1 /\ readQ' # <<>>
        /\ \A i \in 1 .. Len(readQ) : readQ'[i] = readQ[i]
        /\ readQ'[Len(readQ) + 1].call = ncalls
        /\ readQ'[Len(readQ) + 1].off = call.len - toMove
        /\ readQ'[Len(readQ) + 1].len = SegLen(toMove)
    <3>1. PICK x : x = [call |-> ncalls, off |-> call.len - toMove,
                        len |-> SegLen(toMove), tag |-> TagAfter(dma_tag_tmp, 1)]
      OBVIOUS
    <3>2. x.call = ncalls /\ x.off = call.len - toMove /\ x.len = SegLen(toMove)
      BY <3>1
    <3>3. readQ' = Append(readQ, x)
      BY <1>2, <3>1
    <3>4. IsSeq(readQ)
      BY <2>1 DEF IsSeq
    <3>5. QED
      BY <1>1, <3>2, <3>3, <3>4, AppendFacts DEF Flow, ReadsCut
  <2>3. ASSUME NEW i \in 1 .. Len(readQ'), NEW j \in 1 .. n + 1, j = r + i - 1
        PROVE  /\ readQ'[i].call = seg2[j].call /\ readQ'[i].off = seg2[j].off
               /\ readQ'[i].len = seg2[j].len
    <3>1. CASE i \in 1 .. Len(readQ)
      <4>1. j \in 1 .. n
        BY <1>3, <2>2, <2>3, <3>1
      <4>2. QED
        BY <1>1, <1>5, <2>2, <2>3, <3>1, <4>1 DEF Flow, ReadsCut
    <3>2. CASE i = Len(readQ) + 1
      <4>1. j = n + 1
        BY <1>3, <2>2, <2>3, <3>2
      <4>2. QED
        BY <1>5, <2>2, <3>2, <4>1
    <3>3. QED
      BY <2>2, <2>3, <3>1, <3>2
  <2>4. rdWords' < Words(readQ'[1].len)
    <3>1. CASE readQ = <<>>
      BY <1>1, <1>2, <1>4, <2>1, <2>2, <3>1 DEF Flow, ReadsCut
    <3>2. CASE readQ # <<>>
      <4>1. 1 \in 1 .. Len(readQ)
        BY <2>1, <3>2
      <4>2. QED
        BY <1>1, <1>2, <2>2, <3>2, <4>1 DEF Flow, ReadsCut
    <3>3. QED
      BY <3>1, <3>2
  <2>5. Len(readQ') + r = (n + 1) + 1
    BY <1>3, <2>2
  <2>6. QED
    BY <2>2, <2>3, <2>4, <2>5 DEF ReadsCut
<1>9. HeadersCut(n + 1, seg2, p)'
  <2>1. NextHeaders(n, seg, p)
    <3>1. HeadersCut(n, seg, p) /\ p \in Nat
      BY <1>1, <1>3 DEF Flow
    <3>2. QED
      BY <1>3, <3>1, IssuedHeader
  <2>2. ASSUME NEW i \in 1 .. Len(Pend'), NEW j \in 1 .. n + 1, j = p + i - 1
        PROVE  Pend'[i].call = seg2[j].call /\ Pend'[i].len = seg2[j].len
    <3>1. CASE j \in 1 .. n
      BY <1>5, <2>1, <2>2, <3>1 DEF NextHeaders
    <3>2. CASE j = n + 1
      BY <1>5, <2>1, <2>2, <3>2 DEF NextHeaders
    <3>3. QED
      BY <1>3, <3>1, <3>2
  <2>3. (n + 1) + 1 = n + 2
    BY <1>3
  <2>4. QED
    BY <1>2, <2>1, <2>2, <2>3 DEF HeadersCut, NextHeaders
<1>10. WordsCut(n + 1, seg2, from2, p, r)'
  <2>1. Taken' = Taken /\ Taken \in Nat /\ strm' = strm /\ rdWords' = rdWords
    BY <1>2, PendFacts DEF Taken
  <2>2. from2[p] = from[p] /\ from2[r] = from[r]
    BY <1>3, <1>6
  <2>3. Len(strm) \in Nat /\ rdWords \in Nat
    BY DEF TypeOK, DeviceType
  <2>4. Len(strm) + from[p] + Taken = from[r] + rdWords
    BY <1>1 DEF Flow, WordsCut
  <2>5. ASSUME NEW w \in Nat, NEW k \in 1 .. Len(strm), from[p] + Taken + k = from[n + 1] + w + 1
        PROVE  FALSE
    <3>1. from[r] + rdWords <= from[n + 1]
      <4>1. CASE readQ = <<>>
        <5>1. rdWords = 0 /\ r = n + 1
          BY <1>1, <1>3, <4>1 DEF Flow, ReadsCut
        <5>2. QED
          BY <1>3, <5>1
      <4>2. CASE readQ # <<>>
        <5>1. 1 \in 1 .. Len(readQ) /\ Len(readQ) + r = n + 1 /\ Len(readQ) \in Nat
          BY <1>1, <4>2 DEF Flow, ReadsCut, TypeOK, DeviceType
        <5>2. r \in 1 .. n /\ r = r + 1 - 1 /\ r < n + 1 /\ n + 1 \in 1 .. n + 1
          BY <1>3, <5>1
        <5>3. rdWords < Words(seg[r].len)
          <6>1. readQ[1].len = seg[r].len
            BY <1>1, <5>1, <5>2 DEF Flow, ReadsCut
          <6>2. QED
            BY <1>1, <4>2, <6>1 DEF Flow, ReadsCut
        <5>4. from[r] + Words(seg[r].len) <= from[n + 1]
          BY <1>1, <5>2 DEF Flow, Cuts
        <5>5. from[r] \in Nat /\ from[n + 1] \in Nat /\ Words(seg[r].len) \in Nat
          BY <1>3, <5>2
        <5>6. QED
          BY <2>3, <5>3, <5>4, <5>5
      <4>3. QED
        BY <4>1, <4>2
    <3>2. from[p] \in Nat /\ from[r] + rdWords \in Nat /\ from[n + 1] \in Nat
      BY <1>3, <2>3
    <3>3. k <= Len(strm) /\ k \in Nat
      BY <2>3, <2>5
    <3>4. PICK l \in Nat, a \in Nat, t \in Nat, b \in Nat, z \in Nat :
            /\ l = Len(strm) /\ a = from[p] /\ t = Taken /\ b = from[r] + rdWords
            /\ z = from[n + 1]
      BY <2>1, <2>3, <3>2
    <3>5. l + a + t = b /\ b <= z /\ k <= l /\ a + t + k = z + w + 1
      BY <2>4, <2>5, <3>1, <3>3, <3>4
    <3>6. QED
      BY <3>3, <3>5, BeyondRead
  <2>6. ASSUME NEW j \in 1 .. n + 1, NEW w \in Nat, NEW k \in 1 .. Len(strm),
               w < Words(seg2[j].len), from2[p] + Taken + k = from2[j] + w + 1
        PROVE  strm[k] = [call |-> seg2[j].call, off |-> seg2[j].off + w * WordSize]
    <3>1. from2[j] = from[j]
      BY <1>6
    <3>2. CASE j \in 1 .. n
      <4>1. seg2[j] = seg[j]
        BY <1>5, <3>2
      <4>2. QED
        BY <1>1, <2>2, <2>6, <3>1, <3>2, <4>1 DEF Flow, WordsCut
    <3>3. CASE j = n + 1
      BY <2>2, <2>5, <2>6, <3>1, <3>3
    <3>4. QED
      BY <1>3, <3>2, <3>3
  <2>7. QED
    BY <2>1, <2>2, <2>4, <2>6 DEF WordsCut
<1>11. PktCut(n + 1, seg2, p)'
  <2>1. pkt # NoPkt /\ pkt.data # <<>> => p \in 1 .. n
    BY <1>1, <1>3 DEF Flow, PktCut
  <2>2. pkt # NoPkt => pkt.data \in Seq(StrmWords)
    BY PendFacts
  <2>3. pkt # NoPkt /\ pkt.data # <<>> => p <= n + 1 /\ seg2[p] = seg[p]
    BY <1>3, <1>5, <2>1
  <2>4. pkt # NoPkt /\ pkt.data = <<>> => 1 .. Len(pkt.data) = {}
    BY <2>2
  <2>5. QED
    BY <1>1, <1>2, <2>3, <2>4 DEF Flow, PktCut
<1>12. Offsets(n + 1, seg2, p)'
  <2>1. PICK c \in Nat, t \in Nat :
          /\ c = Segs(call.len) /\ t = Segs(toMove)
          /\ Segs(toMove') = t - 1 /\ t > 0
    BY <1>2, <1>4, IssuedFacts, SegsFacts, SegsNext
  <2>2. SUFFICES ASSUME failedAt = 0, NEW j \in 1 .. n + 1, NEW e \in Nat, j >= p,
                        e + (n + 1) + 1 - j = c - (t - 1)
                 PROVE  seg2[j].off = e * TxnSize
    BY <1>2, <2>1 DEF Offsets
  <2>3. CASE j \in 1 .. n
    <3>1. e + n + 1 - j = c - t
      BY <1>3, <2>1, <2>2, <2>3
    <3>2. seg[j].off = e * TxnSize
      BY <1>1, <2>1, <2>2, <2>3, <3>1 DEF Flow, Offsets
    <3>3. QED
      BY <1>5, <2>3, <3>2
  <2>4. CASE j = n + 1
    <3>1. e = c - t
      BY <1>3, <2>1, <2>2, <2>4
    <3>2. call.len - toMove = e * TxnSize
      BY <1>4, <2>1, <3>1, NextOffset
    <3>3. QED
      BY <1>5, <2>4, <3>2
  <2>5. QED
    BY <1>3, <2>2, <2>3, <2>4
<1>13. Flow(n + 1, seg2, from2, p, r)'
  BY <1>7, <1>8, <1>9, <1>10, <1>11, <1>12 DEF Flow, Cuts
<1>14. QED
  BY <1>13 DEF FlowInv

(* A word belongs to one segment only.                                     *)
LEMMA OneSegment ==
  ASSUME NEW n, NEW seg, NEW from, NEW p, NEW r, Cuts(n, seg, from, p, r),
         NEW i \in 1 .. n, NEW j \in 1 .. n, NEW v \in Nat, NEW w \in Nat,
         v < Words(seg[i].len), w < Words(seg[j].len), from[i] + v = from[j] + w
  PROVE  i = j /\ v = w
<1>1. /\ n \in Nat /\ i \in 1 .. n + 1 /\ j \in 1 .. n + 1
      /\ from[i] \in Nat /\ from[j] \in Nat
  BY DEF Cuts
<1>2. Words(seg[i].len) \in Nat /\ Words(seg[j].len) \in Nat
  BY WordsFacts DEF Cuts
<1>3. i < j => from[i] + Words(seg[i].len) <= from[j]
  BY <1>1 DEF Cuts
<1>4. j < i => from[j] + Words(seg[j].len) <= from[i]
  BY <1>1 DEF Cuts
<1>5. ~ (i < j) /\ ~ (j < i)
  BY <1>1, <1>2, <1>3, <1>4
<1>6. i = j
  BY <1>1, <1>5
<1>7. QED
  BY <1>1, <1>6

(* The segment that DMA1 reads.                                            *)
LEMMA ReadSegment ==
  ASSUME TypeOK, NEW n, NEW seg, NEW from, NEW p, NEW r, Flow(n, seg, from, p, r),
         readQ # <<>>
  PROVE  /\ n \in Nat /\ r \in 1 .. n /\ r + 1 \in 1 .. n + 1 /\ r \in 1 .. n + 1
         /\ from[r] \in Nat /\ from[r + 1] = from[r] + Words(seg[r].len)
         /\ readQ[1].call = seg[r].call /\ readQ[1].off = seg[r].off
         /\ readQ[1].len = seg[r].len /\ Words(seg[r].len) \in Nat
         /\ rdWords < Words(seg[r].len) /\ rdWords \in Nat
<1>1. /\ Cuts(n, seg, from, p, r) /\ ReadsCut(n, seg, r) /\ rdWords \in Nat
  BY DEF Flow, TypeOK, DeviceType
<1>2. 1 \in 1 .. Len(readQ) /\ Len(readQ) + r = n + 1 /\ Len(readQ) \in Nat
      /\ n \in Nat /\ r \in 1 .. n + 1
  BY <1>1 DEF ReadsCut, Cuts, TypeOK, DeviceType
<1>3. r \in 1 .. n /\ r = r + 1 - 1 /\ r + 1 \in 1 .. n + 1
  BY <1>2
<1>4. readQ[1].call = seg[r].call /\ readQ[1].off = seg[r].off /\ readQ[1].len = seg[r].len
  BY <1>1, <1>2, <1>3 DEF ReadsCut
<1>5. rdWords < Words(seg[r].len)
  BY <1>1, <1>4 DEF ReadsCut
<1>6. from[r] \in Nat /\ from[r + 1] = from[r] + Words(seg[r].len)
  BY <1>1, <1>3 DEF Cuts
<1>7. Words(seg[r].len) \in Nat
  BY <1>1, <1>3, WordsFacts DEF Cuts
<1>8. QED
  BY <1>1, <1>2, <1>3, <1>4, <1>5, <1>6, <1>7

LEMMA ReadFlow == ASSUME TypeOK, FlowInv, ReadWord PROVE FlowInv'
<1>1. PICK n, seg, from, p, r : Flow(n, seg, from, p, r)
  BY DEF FlowInv
<1>2. /\ readQ # <<>> /\ UNCHANGED <<fwVars, hdrQ, pktVars>>
      /\ UNCHANGED <<call, ncalls, toMove, toAck, inFlight, retval, failedAt, pkt>>
  BY ReadWordFacts DEF fwVars, pktVars
<1>3. /\ n \in Nat /\ r \in 1 .. n /\ r + 1 \in 1 .. n + 1 /\ r \in 1 .. n + 1
      /\ from[r] \in Nat /\ from[r + 1] = from[r] + Words(seg[r].len)
      /\ readQ[1].call = seg[r].call /\ readQ[1].off = seg[r].off
      /\ readQ[1].len = seg[r].len /\ Words(seg[r].len) \in Nat
      /\ rdWords < Words(seg[r].len) /\ rdWords \in Nat
  BY <1>1, <1>2, ReadSegment
<1>4. PICK x : x = [call |-> seg[r].call, off |-> seg[r].off + rdWords * WordSize]
  OBVIOUS
<1>5. strm' = Append(strm, x)
  BY <1>3, <1>4, ReadWordFacts
<1>6. /\ Len(strm') = Len(strm) + 1 /\ Len(strm) \in Nat
      /\ \A i \in 1 .. Len(strm) : strm'[i] = strm[i]
      /\ strm'[Len(strm) + 1] = x
  <2>1. IsSeq(strm)
    BY DEF TypeOK, DeviceType, IsSeq
  <2>2. QED
    BY <1>5, <2>1, AppendFacts
<1>7. /\ Pend' = Pend /\ Taken' = Taken /\ Early' = Early /\ Taken \in Nat
  BY <1>2, PendFacts DEF Pend, Taken, Early, Running
<1>8. HeadersCut(n, seg, p)' /\ PktCut(n, seg, p)' /\ Offsets(n, seg, p)'
  BY <1>1, <1>2, <1>7 DEF Flow, HeadersCut, PktCut, Offsets
<1>9. /\ Len(strm) + from[p] + Taken = from[r] + rdWords
      /\ from[p] \in Nat /\ p \in 1 .. n + 1
  BY <1>1 DEF Flow, WordsCut, Cuts
<1>10. ASSUME NEW j \in 1 .. n, NEW w \in Nat, NEW k \in 1 .. Len(strm'),
              w < Words(seg[j].len), from[p] + Taken + k = from[j] + w + 1
       PROVE  strm'[k] = [call |-> seg[j].call, off |-> seg[j].off + w * WordSize]
  <2>1. CASE k \in 1 .. Len(strm)
    BY <1>1, <1>6, <1>10, <2>1 DEF Flow, WordsCut
  <2>2. CASE k = Len(strm) + 1
    <3>1. from[j] \in Nat
      BY <1>1, <1>3 DEF Flow, Cuts
    <3>2. from[r] + rdWords = from[j] + w
      <4>1. PICK l \in Nat, a \in Nat, t \in Nat, b \in Nat, f \in Nat, c \in Nat :
              /\ l = Len(strm) /\ a = from[p] /\ t = Taken
              /\ b = from[r] /\ f = from[j] /\ c = rdWords
        BY <1>3, <1>6, <1>7, <1>9, <3>1
      <4>2. l + a + t = b + c
        BY <1>9, <4>1
      <4>3. a + t + (l + 1) = f + w + 1
        BY <1>10, <2>2, <4>1
      <4>4. b + c = f + w
        BY <4>2, <4>3
      <4>5. QED
        BY <4>1, <4>4
    <3>3. r = j /\ rdWords = w
      BY <1>1, <1>3, <1>10, <3>2, OneSegment DEF Flow
    <3>4. QED
      BY <1>4, <1>6, <2>2, <3>3
  <2>3. QED
    BY <1>6, <1>10, <2>1, <2>2
<1>11. CASE UNCHANGED <<readQ, rdSts>>
  <2>1. rdWords' = rdWords + 1 /\ rdWords' < Words(readQ[1].len)
    <3>1. Tail(readQ) # readQ
      <4>1. IsSeq(readQ)
        BY DEF TypeOK, DeviceType, IsSeq
      <4>2. QED
        BY <1>2, <4>1, TailFacts
    <3>2. QED
      BY <1>11, <3>1, ReadWordFacts
  <2>2. ReadsCut(n, seg, r)'
    <3>1. ReadsCut(n, seg, r) /\ readQ' = readQ
      BY <1>1, <1>11 DEF Flow
    <3>2. rdWords' < Words(readQ'[1].len) /\ readQ' # <<>>
      BY <1>2, <2>1, <3>1
    <3>3. Len(readQ') + r = n + 1
      BY <3>1 DEF ReadsCut
    <3>4. \A i \in 1 .. Len(readQ'), j \in 1 .. n :
             j = r + i - 1 => /\ readQ'[i].call = seg[j].call /\ readQ'[i].off = seg[j].off
                              /\ readQ'[i].len = seg[j].len
      BY <3>1 DEF ReadsCut
    <3>5. /\ readQ' = <<>> => rdWords' = 0
          /\ readQ' # <<>> => rdWords' < Words(readQ'[1].len)
      BY <3>2
    <3>6. QED
      BY <3>3, <3>4, <3>5 DEF ReadsCut
  <2>3. Len(strm') + from[p] + Taken = from[r] + rdWords'
    <3>1. PICK l \in Nat, a \in Nat, t \in Nat, b \in Nat, c \in Nat :
            /\ l = Len(strm) /\ a = from[p] /\ t = Taken /\ b = from[r] /\ c = rdWords
      BY <1>3, <1>6, <1>7, <1>9
    <3>2. l + a + t = b + c
      BY <1>9, <3>1
    <3>3. (l + 1) + a + t = b + (c + 1)
      BY <3>2
    <3>4. QED
      BY <1>6, <2>1, <3>1, <3>3
  <2>4. WordsCut(n, seg, from, p, r)'
    BY <1>7, <1>10, <2>3 DEF WordsCut
  <2>5. Flow(n, seg, from, p, r)'
    BY <1>1, <1>8, <2>2, <2>4 DEF Flow, Cuts
  <2>6. QED
    BY <2>5 DEF FlowInv
<1>12. CASE ~ UNCHANGED <<readQ, rdSts>>
  <2>1. rdWords + 1 = Words(seg[r].len) /\ rdWords' = 0 /\ readQ' = Tail(readQ)
    BY <1>3, <1>12, ReadWordFacts
  <2>2. /\ Len(readQ') = Len(readQ) - 1 /\ Len(readQ) \in Nat \ {0}
        /\ \A i \in 1 .. Len(readQ') : readQ'[i] = readQ[i + 1]
    <3>1. IsSeq(readQ)
      BY DEF TypeOK, DeviceType, IsSeq
    <3>2. QED
      BY <1>2, <2>1, <3>1, TailFacts
  <2>3. Len(readQ) + r = n + 1
    BY <1>1 DEF Flow, ReadsCut
  <2>4. \A j \in 1 .. n : Words(seg[j].len) \in Nat /\ Words(seg[j].len) > 0
    <3>1. \A j \in 1 .. n : seg[j].len \in Nat /\ seg[j].len > 0
      BY <1>1 DEF Flow, Cuts
    <3>2. QED
      BY <3>1, WordsFacts
  <2>5. ReadsCut(n, seg, r + 1)'
    <3>1. Len(readQ') + (r + 1) = n + 1
      <4>1. /\ Len(readQ) \in Nat /\ r \in Nat /\ n \in Nat
            /\ Len(readQ') = Len(readQ) - 1 /\ Len(readQ) + r = n + 1
        BY <1>3, <2>2, <2>3
      <4>2. QED
        BY <4>1
    <3>2. ASSUME NEW i \in 1 .. Len(readQ'), NEW j \in 1 .. n, j = (r + 1) + i - 1
          PROVE  /\ readQ'[i].call = seg[j].call /\ readQ'[i].off = seg[j].off
                 /\ readQ'[i].len = seg[j].len
      <4>1. PICK k \in 1 .. Len(readQ) : k = i + 1 /\ j = r + k - 1
        BY <1>3, <2>2, <3>2
      <4>2. readQ'[i] = readQ[k]
        BY <2>2, <4>1
      <4>3. QED
        BY <1>1, <4>1, <4>2 DEF Flow, ReadsCut
    <3>3. readQ' # <<>> => rdWords' < Words(readQ'[1].len)
      <4>1. SUFFICES ASSUME readQ' # <<>> PROVE rdWords' < Words(readQ'[1].len)
        OBVIOUS
      <4>2. 1 \in 1 .. Len(readQ')
        <5>1. readQ' \in Seq(Reads)
          BY ReadWordType DEF TypeOK, DeviceType
        <5>2. QED
          BY <4>1, <5>1
      <4>3. PICK j \in 1 .. n : j = (r + 1) + 1 - 1
        BY <1>3, <2>2, <2>3, <4>2
      <4>4. readQ'[1].len = seg[j].len
        BY <3>2, <4>2, <4>3
      <4>5. QED
        BY <2>1, <2>4, <4>4
    <3>4. QED
      BY <2>1, <3>1, <3>2, <3>3 DEF ReadsCut
  <2>6. Len(strm') + from[p] + Taken = from[r + 1] + rdWords'
    <3>1. PICK l \in Nat, a \in Nat, t \in Nat, b \in Nat, c \in Nat :
            /\ l = Len(strm) /\ a = from[p] /\ t = Taken /\ b = from[r] /\ c = rdWords
      BY <1>3, <1>6, <1>7, <1>9
    <3>2. l + a + t = b + c /\ from[r + 1] = b + (c + 1)
      BY <1>3, <1>9, <2>1, <3>1
    <3>3. (l + 1) + a + t = b + (c + 1) + 0
      BY <3>2
    <3>4. QED
      BY <1>6, <1>7, <2>1, <3>1, <3>2, <3>3
  <2>7. WordsCut(n, seg, from, p, r + 1)'
    BY <1>7, <1>10, <2>6 DEF WordsCut
  <2>8. Cuts(n, seg, from, p, r + 1)'
    BY <1>1, <1>3 DEF Flow, Cuts
  <2>9. Flow(n, seg, from, p, r + 1)'
    BY <1>8, <2>5, <2>7, <2>8 DEF Flow
  <2>10. QED
    BY <2>9 DEF FlowInv
<1>13. QED
  BY <1>11, <1>12

-----------------------------------------------------------------------------

(* The packetizer takes a header: it stays among those not sent.           *)
LEMMA PktStartPend ==
  ASSUME TypeOK, PktStart
  PROVE  /\ pkt = NoPkt /\ hdrQ # <<>> /\ pkt' # NoPkt
         /\ pkt'.hdr = Head(hdrQ) /\ pkt'.data = <<>>
         /\ hdrQ' = Tail(hdrQ) /\ UNCHANGED <<fwVars, dmaVars, strm, pktSts, sent>>
         /\ Pend' = Pend /\ Taken' = Taken /\ Early' = Early
<1>1. /\ pkt = NoPkt /\ hdrQ # <<>> /\ pkt' = [hdr |-> Head(hdrQ), data |-> <<>>]
      /\ hdrQ' = Tail(hdrQ) /\ UNCHANGED <<fwVars, dmaVars, strm, pktSts, sent>>
      /\ UNCHANGED <<call, toMove, toAck, inFlight, retval>>
  BY DEF PktStart, fwVars
<1>2. pkt' # NoPkt /\ pkt'.hdr = Head(hdrQ) /\ pkt'.data = <<>>
  <2>1. Head(hdrQ) \in SegHeaders
    BY <1>1 DEF TypeOK, DeviceType
  <2>2. pkt' \in Segments
    BY <1>1, <2>1 DEF Segments
  <2>3. QED
    BY <1>1, <2>2, NoPktAssumption
<1>3. <<Head(hdrQ)>> \o Tail(hdrQ) = hdrQ
  <2>1. IsSeq(<<>>) /\ IsSeq(hdrQ)
    BY EmptyFacts DEF TypeOK, DeviceType, IsSeq
  <2>2. Append(<<>>, Head(hdrQ)) \o Tail(hdrQ) = <<>> \o hdrQ
    BY <1>1, <2>1, MoveFacts
  <2>3. Append(<<>>, Head(hdrQ)) = <<Head(hdrQ)>> /\ <<>> \o hdrQ = hdrQ
    BY DEF TypeOK, DeviceType
  <2>4. QED
    BY <2>2, <2>3
<1>4. Pend = hdrQ /\ Pend' = <<Head(hdrQ)>> \o Tail(hdrQ)
  BY <1>1, <1>2 DEF Pend
<1>5. Taken = 0 /\ Taken' = Len(<<>>) /\ Len(<<>>) = 0
  BY <1>1, <1>2 DEF Taken
<1>6. Early' = Early
  BY <1>1 DEF Early, Running
<1>7. QED
  BY <1>1, <1>2, <1>3, <1>4, <1>5, <1>6

(* One word more of the segment.                                           *)
LEMMA PktWordPend ==
  ASSUME TypeOK, PktWord
  PROVE  /\ pkt # NoPkt /\ pkt' # NoPkt /\ pkt'.hdr = pkt.hdr
         /\ pkt'.data = Append(pkt.data, Head(strm)) /\ pkt.data \in Seq(StrmWords)
         /\ strm # <<>> /\ strm' = Tail(strm) /\ Len(pkt.data) < Words(pkt.hdr.len)
         /\ UNCHANGED <<fwVars, dmaVars, hdrQ, pktSts, sent>>
         /\ Pend' = Pend /\ Taken' = Taken + 1 /\ Taken = Len(pkt.data) /\ Early' = Early
<1>1. /\ pkt # NoPkt /\ pkt' = [pkt EXCEPT !.data = Append(@, Head(strm))]
      /\ strm # <<>> /\ strm' = Tail(strm) /\ Len(pkt.data) < Words(pkt.hdr.len)
      /\ UNCHANGED <<fwVars, dmaVars, hdrQ, pktSts, sent>>
      /\ UNCHANGED <<call, toMove, toAck, inFlight, retval>>
  BY DEF PktWord, fwVars
<1>2. /\ pkt = [hdr |-> pkt.hdr, data |-> pkt.data] /\ Head(strm) \in StrmWords
      /\ pkt.hdr \in SegHeaders /\ pkt.data \in Seq(StrmWords)
  BY <1>1 DEF TypeOK, DeviceType, Segments
<1>3. pkt' = [hdr |-> pkt.hdr, data |-> Append(pkt.data, Head(strm))]
  BY <1>1, <1>2
<1>4. Append(pkt.data, Head(strm)) \in Seq(StrmWords)
      /\ Len(Append(pkt.data, Head(strm))) = Len(pkt.data) + 1
  BY <1>2
<1>5. pkt' # NoPkt /\ pkt'.hdr = pkt.hdr /\ pkt'.data = Append(pkt.data, Head(strm))
  <2>1. pkt' \in Segments
    BY <1>2, <1>3, <1>4 DEF Segments
  <2>2. QED
    BY <1>3, <2>1, NoPktAssumption
<1>6. Pend' = Pend /\ Early' = Early
  BY <1>1, <1>5 DEF Pend, Early, Running
<1>7. Taken' = Len(pkt'.data) /\ Taken = Len(pkt.data)
  BY <1>1, <1>5 DEF Taken
<1>8. QED
  BY <1>1, <1>2, <1>4, <1>5, <1>6, <1>7

(* The segment is out.                                                     *)
LEMMA PktDonePend ==
  ASSUME TypeOK, PktDone
  PROVE  /\ pkt # NoPkt /\ pkt \in Segments /\ Len(pkt.data) = Words(pkt.hdr.len)
         /\ sent' = [sent EXCEPT ![pkt.hdr.dst] = Append(@, pkt)]
         /\ pktSts' = Append(pktSts, pkt.hdr.seq) /\ pkt' = NoPkt
         /\ UNCHANGED <<fwVars, dmaVars, strm, hdrQ>>
         /\ Taken' = 0 /\ Taken = Len(pkt.data) /\ Early' = Early
         /\ Pend[1] = pkt.hdr /\ Len(Pend) = Len(Pend') + 1 /\ Len(Pend') \in Nat
         /\ \A i \in 1 .. Len(Pend') : Pend'[i] = Pend[i + 1]
<1>1. /\ pkt # NoPkt /\ Len(pkt.data) = Words(pkt.hdr.len)
      /\ sent' = [sent EXCEPT ![pkt.hdr.dst] = Append(@, pkt)]
      /\ pktSts' = Append(pktSts, pkt.hdr.seq) /\ pkt' = NoPkt
      /\ UNCHANGED <<fwVars, dmaVars, strm, hdrQ>>
      /\ UNCHANGED <<call, toMove, toAck, inFlight, retval>>
  BY DEF PktDone, fwVars
<1>2. Pend' = hdrQ /\ Taken' = 0 /\ Early' = Early
  BY <1>1 DEF Pend, Taken, Early, Running
<1>3. Len(hdrQ) \in Nat /\ pkt \in Segments
  BY <1>1 DEF TypeOK, DeviceType
<1>4. QED
  BY <1>1, <1>2, <1>3, PendFacts

LEMMA PktStartFlow == ASSUME TypeOK, FlowInv, PktStart PROVE FlowInv'
<1>1. PICK n, seg, from, p, r : Flow(n, seg, from, p, r)
  BY DEF FlowInv
<1>2. /\ hdrQ # <<>> /\ pkt' # NoPkt /\ pkt'.hdr = Head(hdrQ) /\ pkt'.data = <<>>
      /\ Pend' = Pend /\ Taken' = Taken /\ Early' = Early
      /\ UNCHANGED <<fwVars, dmaVars, strm>>
      /\ UNCHANGED <<call, ncalls, toMove, failedAt, readQ, rdWords>>
  BY PktStartPend DEF fwVars, dmaVars
<1>3. ReadsCut(n, seg, r)' /\ WordsCut(n, seg, from, p, r)'
  BY <1>1, <1>2 DEF Flow, ReadsCut, WordsCut
<1>4. HeadersCut(n, seg, p)' /\ Offsets(n, seg, p)'
  BY <1>1, <1>2 DEF Flow, HeadersCut, Offsets
<1>5. PktCut(n, seg, p)'
  <2>1. Len(<<>>) = 0 /\ 1 .. 0 = {}
    OBVIOUS
  <2>2. pkt'.hdr.len \in Nat
    <3>1. Head(hdrQ) \in SegHeaders
      BY <1>2 DEF TypeOK, DeviceType
    <3>2. QED
      BY <1>2, <3>1 DEF SegHeaders
  <2>3. 0 <= Words(pkt'.hdr.len)
    BY <2>2, WordsFacts
  <2>4. QED
    BY <1>2, <2>1, <2>3 DEF PktCut
<1>6. Flow(n, seg, from, p, r)'
  BY <1>1, <1>3, <1>4, <1>5 DEF Flow, Cuts
<1>7. QED
  BY <1>6 DEF FlowInv

(* DMA1 has not streamed more than it was asked for.                       *)
LEMMA ReadUpTo ==
  ASSUME TypeOK, NEW n, NEW seg, NEW from, NEW p, NEW r, Flow(n, seg, from, p, r)
  PROVE  from[r] + rdWords <= from[n + 1]
<1>1. /\ Cuts(n, seg, from, p, r) /\ ReadsCut(n, seg, r)
      /\ n \in Nat /\ r \in 1 .. n + 1 /\ from[n + 1] \in Nat
  BY DEF Flow, Cuts
<1>2. CASE readQ = <<>>
  <2>1. rdWords = 0 /\ r = n + 1
    BY <1>1, <1>2 DEF ReadsCut
  <2>2. QED
    BY <1>1, <2>1
<1>3. CASE readQ # <<>>
  <2>1. /\ r \in 1 .. n /\ from[r] \in Nat /\ Words(seg[r].len) \in Nat
        /\ rdWords < Words(seg[r].len) /\ rdWords \in Nat
    BY <1>3, ReadSegment
  <2>2. from[r] + Words(seg[r].len) <= from[n + 1]
    <3>1. r < n + 1 /\ n + 1 \in 1 .. n + 1
      BY <1>1, <2>1
    <3>2. QED
      BY <1>1, <2>1, <3>1 DEF Cuts
  <2>3. QED
    BY <1>1, <2>1, <2>2
<1>4. QED
  BY <1>2, <1>3

(* The packetizer takes words of the segment whose header it has.          *)
LEMMA SegmentInHand ==
  ASSUME TypeOK, NEW n, NEW seg, NEW from, NEW p, NEW r, Flow(n, seg, from, p, r),
         pkt # NoPkt, strm # <<>> \/ pkt.data # <<>>
  PROVE  /\ n \in Nat /\ p \in 1 .. n /\ p + 1 \in 1 .. n + 1 /\ p \in 1 .. n + 1
         /\ pkt.hdr.call = seg[p].call /\ pkt.hdr.len = seg[p].len
         /\ seg[p].off \in Nat /\ seg[p].off % TxnSize = 0
         /\ from[p] \in Nat /\ from[p + 1] = from[p] + Words(seg[p].len)
         /\ Words(seg[p].len) \in Nat /\ Words(seg[p].len) > 0
<1>1. /\ Cuts(n, seg, from, p, r) /\ HeadersCut(n, seg, p) /\ PktCut(n, seg, p)
      /\ WordsCut(n, seg, from, p, r)
      /\ n \in Nat /\ p \in 1 .. n + 1 /\ from[p] \in Nat /\ from[r] \in Nat
  BY DEF Flow, Cuts
<1>2. p \in 1 .. n
  <2>1. CASE pkt.data # <<>>
    BY <1>1, <2>1 DEF PktCut
  <2>2. CASE strm # <<>>
    <3>1. Len(strm) \in Nat \ {0} /\ rdWords \in Nat /\ Taken \in Nat
      BY <2>2, PendFacts DEF TypeOK, DeviceType
    <3>2. Len(strm) + from[p] + Taken = from[r] + rdWords
      BY <1>1 DEF WordsCut
    <3>3. from[r] + rdWords <= from[n + 1]
      BY ReadUpTo
    <3>4. p # n + 1
      BY <1>1, <3>1, <3>2, <3>3
    <3>5. QED
      BY <1>1, <3>4
  <2>3. QED
    BY <2>1, <2>2
<1>3. /\ 1 \in 1 .. Len(Pend) /\ p = p + 1 - 1 /\ p + 1 \in 1 .. n + 1
      /\ Pend[1] = pkt.hdr
  <2>1. Len(Pend) = Len(hdrQ) + 1 /\ Len(hdrQ) \in Nat /\ Pend[1] = pkt.hdr
    BY PendFacts DEF TypeOK, DeviceType
  <2>2. QED
    BY <1>1, <1>2, <2>1
<1>4. pkt.hdr.call = seg[p].call /\ pkt.hdr.len = seg[p].len
  BY <1>1, <1>2, <1>3 DEF HeadersCut
<1>5. /\ seg[p] \in [call : Nat, off : Nat, len : Nat] /\ seg[p].len > 0
      /\ seg[p].off % TxnSize = 0 /\ from[p + 1] = from[p] + Words(seg[p].len)
  BY <1>1, <1>2, <1>3 DEF Cuts
<1>6. Words(seg[p].len) \in Nat /\ Words(seg[p].len) > 0
  BY <1>5, WordsFacts
<1>7. QED
  BY <1>1, <1>2, <1>3, <1>4, <1>5, <1>6

LEMMA PktWordFlow == ASSUME TypeOK, FlowInv, PktWord PROVE FlowInv'
<1>1. PICK n, seg, from, p, r : Flow(n, seg, from, p, r)
  BY DEF FlowInv
<1>2. /\ pkt # NoPkt /\ strm # <<>> /\ Len(pkt.data) < Words(pkt.hdr.len)
      /\ strm' = Tail(strm) /\ UNCHANGED <<fwVars, dmaVars, hdrQ>>
      /\ UNCHANGED <<call, ncalls, toMove, failedAt, readQ, rdWords>>
  BY PktWordPend DEF fwVars, dmaVars
<1>3. /\ n \in Nat /\ p \in 1 .. n /\ p \in 1 .. n + 1 /\ from[p] \in Nat
      /\ pkt.hdr.call = seg[p].call /\ pkt.hdr.len = seg[p].len
      /\ Words(seg[p].len) \in Nat
  BY <1>1, <1>2, SegmentInHand
<1>4. pkt.data \in Seq(StrmWords)
  BY PktWordPend
<1>5. pkt' # NoPkt /\ pkt'.hdr = pkt.hdr /\ pkt'.data = Append(pkt.data, Head(strm))
  BY PktWordPend
<1>6. /\ Len(strm') = Len(strm) - 1 /\ Len(strm) \in Nat \ {0}
      /\ \A k \in 1 .. Len(strm') : strm'[k] = strm[k + 1]
      /\ Head(strm) = strm[1]
  <2>1. IsSeq(strm)
    BY DEF TypeOK, DeviceType, IsSeq
  <2>2. QED
    BY <1>2, <2>1, TailFacts
<1>7. /\ Len(pkt'.data) = Len(pkt.data) + 1 /\ Len(pkt.data) \in Nat
      /\ \A k \in 1 .. Len(pkt.data) : pkt'.data[k] = pkt.data[k]
      /\ pkt'.data[Len(pkt.data) + 1] = strm[1]
  <2>1. IsSeq(pkt.data)
    BY <1>4 DEF IsSeq
  <2>2. QED
    BY <1>5, <1>6, <2>1, AppendFacts
<1>8. Pend' = Pend /\ Taken' = Taken + 1 /\ Taken = Len(pkt.data) /\ Early' = Early
  BY PktWordPend
<1>9. ReadsCut(n, seg, r)' /\ HeadersCut(n, seg, p)' /\ Offsets(n, seg, p)'
  BY <1>1, <1>2, <1>8 DEF Flow, ReadsCut, HeadersCut, Offsets
<1>10. strm[1] = [call |-> seg[p].call, off |-> seg[p].off + Len(pkt.data) * WordSize]
  <2>1. PICK w \in Nat : w = Len(pkt.data)
    BY <1>7
  <2>2. 1 \in 1 .. Len(strm) /\ w < Words(seg[p].len) /\ Taken = w
    BY <1>2, <1>3, <1>6, <1>8, <2>1
  <2>3. from[p] + Taken + 1 = from[p] + w + 1
    BY <2>2
  <2>4. WordsCut(n, seg, from, p, r)
    BY <1>1 DEF Flow
  <2>5. strm[1] = [call |-> seg[p].call, off |-> seg[p].off + w * WordSize]
    BY <1>3, <2>2, <2>3, <2>4 DEF WordsCut
  <2>6. QED
    BY <2>1, <2>5
<1>11. PktCut(n, seg, p)'
  <2>1. Len(pkt'.data) <= Words(pkt'.hdr.len)
    BY <1>2, <1>3, <1>5, <1>7
  <2>2. ASSUME NEW k \in 1 .. Len(pkt'.data)
        PROVE  pkt'.data[k] = [call |-> seg[p].call, off |-> seg[p].off + (k - 1) * WordSize]
    <3>1. CASE k \in 1 .. Len(pkt.data)
      BY <1>1, <1>2, <1>7, <3>1 DEF Flow, PktCut
    <3>2. CASE k = Len(pkt.data) + 1
      <4>1. k - 1 = Len(pkt.data)
        BY <1>7, <3>2
      <4>2. QED
        BY <1>7, <1>10, <3>2, <4>1
    <3>3. QED
      BY <1>7, <2>2, <3>1, <3>2
  <2>3. p <= n
    BY <1>3
  <2>4. QED
    BY <2>1, <2>2, <2>3 DEF PktCut
<1>12. WordsCut(n, seg, from, p, r)'
  <2>1. PICK l \in Nat, a \in Nat, t \in Nat :
          l = Len(strm) /\ a = from[p] /\ t = Taken /\ Len(strm') = l - 1 /\ l > 0
    BY <1>3, <1>6, <1>7, <1>8
  <2>2. l + a + t = from[r] + rdWords
    BY <1>1, <2>1 DEF Flow, WordsCut
  <2>3. (l - 1) + a + (t + 1) = l + a + t
    BY <2>1
  <2>4. Len(strm') + from[p] + Taken' = from[r] + rdWords'
    BY <1>2, <1>8, <2>1, <2>2, <2>3
  <2>5. ASSUME NEW j \in 1 .. n, NEW w \in Nat, NEW k \in 1 .. Len(strm'),
               w < Words(seg[j].len), from[p] + Taken' + k = from[j] + w + 1
        PROVE  strm'[k] = [call |-> seg[j].call, off |-> seg[j].off + w * WordSize]
    <3>1. PICK i \in 1 .. Len(strm) : i = k + 1
      BY <2>1, <2>5
    <3>2. a + (t + 1) + k = a + t + i
      <4>1. k \in Nat
        BY <2>1, <2>5
      <4>2. QED
        BY <3>1, <4>1, Regroup
    <3>3. from[p] + Taken + i = from[j] + w + 1
      BY <1>8, <2>1, <2>5, <3>2
    <3>4. strm[i] = [call |-> seg[j].call, off |-> seg[j].off + w * WordSize]
      BY <1>1, <2>5, <3>3 DEF Flow, WordsCut
    <3>5. QED
      BY <1>6, <2>5, <3>1, <3>4
  <2>6. QED
    BY <2>4, <2>5 DEF WordsCut
<1>13. Flow(n, seg, from, p, r)'
  BY <1>1, <1>9, <1>11, <1>12 DEF Flow, Cuts
<1>14. QED
  BY <1>13 DEF FlowInv

(* No header stands for nothing.                                           *)
LEMMA HeaderInHand ==
  ASSUME TypeOK, NEW n, NEW seg, NEW from, NEW p, NEW r, Flow(n, seg, from, p, r),
         pkt # NoPkt
  PROVE  pkt.hdr.len \in Nat /\ pkt.hdr.len > 0
<1>1. /\ pkt.hdr \in SegHeaders /\ Pend[1] = pkt.hdr
      /\ Len(Pend) = Len(hdrQ) + 1 /\ Len(hdrQ) \in Nat
  BY PendFacts DEF TypeOK, DeviceType
<1>2. /\ n \in Nat /\ p \in 1 .. n + 1 /\ 1 \in 1 .. Len(Pend) /\ HeadersCut(n, seg, p)
  BY <1>1 DEF Flow, Cuts
<1>3. CASE p \in 1 .. n
  <2>1. p = p + 1 - 1
    BY <1>2
  <2>2. pkt.hdr.len = seg[p].len
    BY <1>1, <1>2, <1>3, <2>1 DEF HeadersCut
  <2>3. QED
    BY <1>3, <2>2 DEF Flow, Cuts
<1>4. CASE p = n + 1
  <2>1. /\ Early \in Nat /\ Segs(toMove) \in Nat /\ toMove \in Nat /\ TxnSize \in Nat
    BY EarlyFacts, SendAssumption DEF TypeOK, FwType
  <2>2. Len(Pend) + p = n + 1 + Early
    BY <1>2 DEF HeadersCut
  <2>3. Early > 0
    BY <1>1, <1>2, <1>4, <2>1, <2>2
  <2>4. toMove # 0
    <3>1. toMove = 0 => Segs(toMove) = 0
      BY SegsFacts
    <3>2. MaxInFlight - inFlight \in Nat
      BY SendAssumption DEF TypeOK, FwType, Progress
    <3>3. QED
      BY <2>1, <2>3, <3>1, <3>2 DEF Early, Least
  <2>5. p + 1 - 1 = n + 1 + 0 /\ toMove - 0 * TxnSize = toMove
    BY <1>2, <1>4, <2>1
  <2>6. pkt.hdr.len = SegLen(toMove)
    BY <1>1, <1>2, <2>5 DEF HeadersCut
  <2>7. QED
    BY <2>1, <2>4, <2>6, SegLenFacts
<1>5. QED
  BY <1>2, <1>3, <1>4

LEMMA PktDoneFlow == ASSUME TypeOK, FlowInv, PktDone PROVE FlowInv'
<1>1. PICK n, seg, from, p, r : Flow(n, seg, from, p, r)
  BY DEF FlowInv
<1>2. /\ pkt # NoPkt /\ Len(pkt.data) = Words(pkt.hdr.len) /\ pkt' = NoPkt
      /\ UNCHANGED <<strm, call, ncalls, toMove, failedAt, readQ, rdWords>>
  BY PktDonePend DEF fwVars, dmaVars
<1>3. /\ Taken' = 0 /\ Taken = Len(pkt.data) /\ Early' = Early /\ Early \in Nat
      /\ Len(Pend) = Len(Pend') + 1 /\ Len(Pend') \in Nat
      /\ \A i \in 1 .. Len(Pend') : Pend'[i] = Pend[i + 1]
  BY PktDonePend, EarlyFacts
<1>4. pkt.data # <<>> /\ pkt.data \in Seq(StrmWords)
  <2>1. pkt.hdr.len \in Nat /\ pkt.hdr.len > 0
    BY <1>1, <1>2, HeaderInHand
  <2>2. Words(pkt.hdr.len) > 0
    BY <2>1, WordsFacts
  <2>3. pkt.data \in Seq(StrmWords)
    BY <1>2, PendFacts
  <2>4. QED
    BY <1>2, <2>2, <2>3
<1>5. /\ n \in Nat /\ p \in 1 .. n /\ p + 1 \in 1 .. n + 1 /\ p \in 1 .. n + 1
      /\ from[p] \in Nat /\ from[p + 1] = from[p] + Words(seg[p].len)
      /\ pkt.hdr.len = seg[p].len
  BY <1>1, <1>2, <1>4, SegmentInHand
<1>6. from[p + 1] + Taken' = from[p] + Taken /\ Taken \in Nat /\ Taken' = 0
      /\ from[p + 1] + 0 = from[p] + Taken
  <2>1. Taken \in Nat
    BY PendFacts
  <2>2. QED
    BY <1>2, <1>3, <1>5, <2>1
<1>7. HeadersCut(n, seg, p + 1)'
  <2>1. Len(Pend) + p = n + 1 + Early
    BY <1>1 DEF Flow, HeadersCut
  <2>2. Len(Pend') + (p + 1) = n + 1 + Early'
    BY <1>3, <1>5, <2>1
  <2>3. ASSUME NEW i \in 1 .. Len(Pend'), NEW j \in 1 .. n, j = (p + 1) + i - 1
        PROVE  Pend'[i].call = seg[j].call /\ Pend'[i].len = seg[j].len
    <3>1. PICK k \in 1 .. Len(Pend) : k = i + 1 /\ j = p + k - 1
      BY <1>3, <1>5, <2>3
    <3>2. Pend'[i] = Pend[k]
      BY <1>3, <2>3, <3>1
    <3>3. QED
      BY <1>1, <3>1, <3>2 DEF Flow, HeadersCut
  <2>4. ASSUME NEW i \in 1 .. Len(Pend'), NEW e \in Nat, (p + 1) + i - 1 = n + 1 + e
        PROVE  Pend'[i].call = ncalls' /\ Pend'[i].len = SegLen(toMove' - e * TxnSize)
    <3>1. PICK k \in 1 .. Len(Pend) : k = i + 1 /\ p + k - 1 = n + 1 + e
      BY <1>3, <1>5, <2>4
    <3>2. Pend'[i] = Pend[k]
      BY <1>3, <2>4, <3>1
    <3>3. QED
      BY <1>1, <1>2, <3>1, <3>2 DEF Flow, HeadersCut
  <2>5. QED
    BY <2>2, <2>3, <2>4 DEF HeadersCut
<1>8. WordsCut(n, seg, from, p + 1, r)'
  <2>1. Len(strm) + from[p] + Taken = from[r] + rdWords /\ Len(strm) \in Nat
    BY <1>1 DEF Flow, WordsCut, TypeOK, DeviceType
  <2>2. Len(strm') + from[p + 1] + Taken' = from[r] + rdWords'
    BY <1>2, <1>5, <1>6, <2>1
  <2>3. ASSUME NEW j \in 1 .. n, NEW w \in Nat, NEW k \in 1 .. Len(strm'),
               w < Words(seg[j].len), from[p + 1] + Taken' + k = from[j] + w + 1
        PROVE  strm'[k] = [call |-> seg[j].call, off |-> seg[j].off + w * WordSize]
    <3>1. from[p] + Taken + k = from[j] + w + 1
      BY <1>6, <2>3
    <3>2. QED
      BY <1>1, <1>2, <2>3, <3>1 DEF Flow, WordsCut
  <2>4. QED
    BY <2>2, <2>3 DEF WordsCut
<1>9. Offsets(n, seg, p + 1)'
  <2>1. \A j \in 1 .. n : j >= p + 1 => j >= p
    BY <1>5
  <2>2. QED
    BY <1>1, <1>2, <2>1 DEF Flow, Offsets
<1>10. ReadsCut(n, seg, r)' /\ PktCut(n, seg, p + 1)'
  BY <1>1, <1>2 DEF Flow, ReadsCut, PktCut
<1>11. Cuts(n, seg, from, p + 1, r)
  BY <1>1, <1>5 DEF Flow, Cuts
<1>12. Flow(n, seg, from, p + 1, r)'
  BY <1>7, <1>8, <1>9, <1>10, <1>11 DEF Flow, Cuts
<1>13. QED
  BY <1>12 DEF FlowInv

LEMMA FlowStep == ASSUME TypeOK, FlowInv, [SendNext]_vars PROVE FlowInv'
<1>1. CASE UNCHANGED vars
  <2>1. /\ UNCHANGED <<call, ncalls, toMove, readQ, rdWords, strm, hdrQ, pkt>>
        /\ UNCHANGED <<retval, toAck, inFlight, failedAt>>
    BY <1>1 DEF vars, fwVars, dmaVars, pktVars
  <2>2. Early' = Early
    BY <2>1 DEF Early, Running
  <2>3. QED
    BY <2>1, <2>2, FlowKept
<1>2. CASE SendNext
  BY <1>2, CallFlow, IssueFlow, AcksFlow, ReadFlow, PktStartFlow, PktWordFlow,
     PktDoneFlow DEF SendNext, Firmware, Packetizer
<1>3. QED
  BY <1>1, <1>2

-----------------------------------------------------------------------------
(* What a segment carries                                                  *)

(* The words of one stretch of one call, from a start of a segment.        *)
Intact(m) ==
  \A k \in 1 .. Len(m.data) :
    /\ m.data[k].call = m.hdr.call
    /\ m.data[k].off = m.data[1].off + (k - 1) * WordSize
    /\ m.data[1].off % TxnSize = 0

LEMMA PktIntact == ASSUME TypeOK, FlowInv, pkt # NoPkt PROVE Intact(pkt)
<1>1. SUFFICES ASSUME NEW k \in 1 .. Len(pkt.data)
               PROVE  /\ pkt.data[k].call = pkt.hdr.call
                      /\ pkt.data[k].off = pkt.data[1].off + (k - 1) * WordSize
                      /\ pkt.data[1].off % TxnSize = 0
  BY DEF Intact
<1>2. PICK n, seg, from, p, r : Flow(n, seg, from, p, r)
  BY DEF FlowInv
<1>3. pkt.data \in Seq(StrmWords) /\ Len(pkt.data) \in Nat /\ WordSize \in Nat
  BY PendFacts, SendAssumption
<1>4. pkt.data # <<>> /\ 1 \in 1 .. Len(pkt.data)
  BY <1>1, <1>3
<1>5. /\ pkt.hdr.call = seg[p].call /\ seg[p].off \in Nat /\ seg[p].off % TxnSize = 0
  BY <1>2, <1>4, SegmentInHand
<1>6. \A i \in 1 .. Len(pkt.data) :
        pkt.data[i] = [call |-> seg[p].call, off |-> seg[p].off + (i - 1) * WordSize]
  BY <1>2 DEF Flow, PktCut
<1>7. pkt.data[1].off = seg[p].off
  <2>1. pkt.data[1] = [call |-> seg[p].call, off |-> seg[p].off + (1 - 1) * WordSize]
    BY <1>4, <1>6
  <2>2. pkt.data[1].off = seg[p].off + (1 - 1) * WordSize
    BY <2>1
  <2>3. seg[p].off + (1 - 1) * WordSize = seg[p].off
    BY <1>3, <1>5
  <2>4. QED
    BY <2>2, <2>3
<1>8. /\ pkt.data[k].call = seg[p].call
      /\ pkt.data[k].off = seg[p].off + (k - 1) * WordSize
  <2>1. pkt.data[k] = [call |-> seg[p].call, off |-> seg[p].off + (k - 1) * WordSize]
    BY <1>6
  <2>2. QED
    BY <2>1
<1>9. QED
  BY <1>5, <1>7, <1>8

SentIntact == \A d \in Dsts : \A i \in 1 .. Len(sent[d]) : Intact(sent[d][i])

LEMMA SentIntactStep ==
  ASSUME TypeOK, FlowInv, SentIntact, [SendNext]_vars
  PROVE  SentIntact'
<1>1. CASE PktDone
  <2>1. /\ pkt # NoPkt /\ sent' = [sent EXCEPT ![pkt.hdr.dst] = Append(@, pkt)]
    BY <1>1 DEF PktDone
  <2>2. sent \in [Dsts -> Seq(Segments)] /\ pkt \in Segments /\ Intact(pkt)
    BY <2>1, PktIntact DEF TypeOK, DeviceType
  <2>3. ASSUME NEW d \in Dsts, NEW i \in 1 .. Len(sent'[d]) PROVE Intact(sent'[d][i])
    <3>1. CASE d = pkt.hdr.dst
      <4>1. sent'[d] = Append(sent[d], pkt)
        BY <2>1, <2>2, <3>1
      <4>2. \/ i \in 1 .. Len(sent[d]) /\ sent'[d][i] = sent[d][i]
            \/ sent'[d][i] = pkt
        BY <2>2, <2>3, <4>1
      <4>3. QED
        BY <2>2, <4>2 DEF SentIntact
    <3>2. CASE d # pkt.hdr.dst
      <4>1. sent'[d] = sent[d]
        BY <2>1, <2>2, <3>2
      <4>2. QED
        BY <2>3, <4>1 DEF SentIntact
    <3>3. QED
      BY <3>1, <3>2
  <2>4. QED
    BY <2>3 DEF SentIntact, Intact
<1>2. CASE ~ PktDone
  <2>1. sent' = sent
    BY <1>2 DEF SendNext, Firmware, Packetizer, CallSend, IssueFirst, IssueNext,
       StartDma, AckDma, AckPkt, AckTimeout, FinishSend, Fail, ReadWord, PktStart,
       PktWord, PktDone, vars, pktVars
  <2>2. QED
    BY <2>1 DEF SentIntact, Intact
<1>3. QED
  BY <1>1, <1>2

-----------------------------------------------------------------------------
(* The firmware in step with the devices, until a call fails               *)

(* What is in flight is, seen from the packetizer, the headers and the     *)
(* statuses of segments it sent, and, seen from the DMA, the commands and  *)
(* the statuses of those it read.                                          *)
Counts ==
  /\ retval # "failed"
  /\ ~ Running => toAck = 0 /\ ~ waitPkt
  /\ inFlight + Early = Len(pktSts) + Len(Pend)
  /\ inFlight = Len(rdSts) + Len(readQ) + (IF waitPkt THEN 1 ELSE 0)
  /\ Running /\ toMove > 0 /\ toAck # call.len => inFlight + 1 >= MaxInFlight

(* The numbers of the segments run on from those the firmware has seen.    *)
SeqsRun ==
  /\ \A i \in 1 .. Len(pktSts) : pktSts[i] = outSeq[call.dst] + i
  /\ \A i \in 1 .. Len(Pend) :
       /\ Pend[i].seq = outSeq[call.dst] + Len(pktSts) + i
       /\ Pend[i].dst = call.dst /\ Pend[i].call = ncalls
  /\ \A d \in Dsts :
       Len(sent[d]) = outSeq[d] + (IF d = call.dst THEN Len(pktSts) ELSE 0)

(* So do the tags of the commands.                                         *)
TagsRun ==
  /\ dma_tag < TagMod
  /\ dma_tag_tmp = TagAfter(dma_tag, Len(rdSts) + Len(readQ))
  /\ \A i \in 1 .. Len(rdSts) : rdSts[i].tag = TagAfter(dma_tag, i)
  /\ \A i \in 1 .. Len(readQ) : readQ[i].tag = TagAfter(dma_tag, Len(rdSts) + i)

(* Segment k of the call, counted from 1, was sent.                        *)
WasSent(k) ==
  \E i \in 1 .. Len(sent[call.dst]) :
    /\ sent[call.dst][i].hdr.call = ncalls
    /\ sent[call.dst][i].data[1].off = (k - 1) * TxnSize

AckedSegs == Segs(call.len) - Segs(toAck)

(* Sent is what the firmware has seen, and what it has a status of.        *)
StatusesSent ==
  retval # "idle" => \A k \in 1 .. AckedSegs + Len(pktSts) : WasSent(k)

InStep == failedAt = 0 => Counts /\ SeqsRun /\ TagsRun /\ StatusesSent

(* A call that fails first ends with it.                                   *)
History ==
  /\ failedAt <= ncalls
  /\ retval = "idle" => ncalls = 0
  /\ Running => ncalls > 0
  /\ failedAt = ncalls /\ ncalls > 0 => retval = "failed"
  /\ \A i \in 1 .. Len(Pend) : Pend[i].call <= ncalls
  /\ \A d \in Dsts : \A i \in 1 .. Len(sent[d]) : sent[d][i].hdr.call <= ncalls

(* What it had seen sent was sent.                                         *)
FailedSent ==
  failedAt = ncalls /\ ncalls > 0 => \A k \in 1 .. AckedSegs : WasSent(k)

LEMMA Lengths ==
  ASSUME TypeOK
  PROVE  /\ Len(pktSts) \in Nat /\ Len(Pend) \in Nat /\ Len(rdSts) \in Nat
         /\ Len(readQ) \in Nat /\ inFlight \in Nat /\ Early \in Nat /\ MaxInFlight \in Nat
         /\ toMove \in Nat /\ toAck \in Nat /\ ncalls \in Nat /\ failedAt \in Nat
         /\ dma_tag \in Nat /\ call.dst \in Dsts /\ call.len \in Nat
         /\ Segs(call.len) \in Nat /\ Segs(toAck) \in Nat /\ Segs(toMove) \in Nat
         /\ outSeq[call.dst] \in Nat /\ waitPkt \in BOOLEAN
<1>1. /\ pktSts \in Seq(Nat) /\ rdSts \in Seq(Statuses) /\ readQ \in Seq(Reads)
      /\ inFlight \in Nat /\ MaxInFlight \in Nat /\ toMove \in Nat /\ toAck \in Nat
      /\ ncalls \in Nat /\ failedAt \in Nat /\ call \in Calls /\ dma_tag \in Nat
      /\ outSeq \in [Dsts -> Nat] /\ waitPkt \in BOOLEAN
  BY SendAssumption DEF TypeOK, FwType, DeviceType
<1>2. Len(Pend) \in Nat /\ Early \in Nat
  BY PendFacts, EarlyFacts
<1>3. call.dst \in Dsts /\ call.len \in Nat
  BY <1>1, CallFacts
<1>4. Segs(call.len) \in Nat /\ Segs(toAck) \in Nat /\ Segs(toMove) \in Nat
  BY <1>1, <1>3, SegsFacts
<1>5. QED
  BY <1>1, <1>2, <1>3, <1>4

(* A call that fails is known to have failed.                              *)
LEMMA FailFacts ==
  ASSUME TypeOK, History, Running, Fail
  PROVE  /\ failedAt' # 0 /\ failedAt' \in {failedAt, ncalls}
         /\ failedAt # 0 => failedAt' = failedAt
         /\ failedAt = 0 => failedAt' = ncalls
         /\ retval' = "failed" /\ ncalls' = ncalls /\ ncalls > 0
         /\ call' = call /\ toAck' = toAck /\ sent' = sent /\ Pend' = Pend
  BY DEF Fail, History, Pend

(* Until a call has failed, an ended one has left nothing.                 *)
LEMMA EndedFacts ==
  ASSUME TypeOK, Counts, ~ Running
  PROVE  /\ toMove = 0 /\ toAck = 0 /\ inFlight = 0 /\ Early = 0 /\ ~ waitPkt
         /\ Len(pktSts) = 0 /\ Len(Pend) = 0 /\ Len(rdSts) = 0 /\ Len(readQ) = 0
<1>1. toAck = 0 /\ ~ waitPkt
  BY DEF Counts
<1>2. Segs(toAck) = 0
  BY <1>1, SegsFacts
<1>3. Segs(toMove) = 0 /\ inFlight = 0
  BY <1>2, Lengths DEF TypeOK, Progress
<1>4. toMove = 0
  BY <1>3, SegsFacts, Lengths
<1>5. Early = 0
  BY EarlyFacts
<1>6. QED
  BY <1>1, <1>3, <1>4, <1>5, Lengths DEF Counts

LEMMA AreQueues ==
  ASSUME TypeOK
  PROVE  /\ IsSeq(readQ) /\ IsSeq(rdSts) /\ IsSeq(pktSts)
         /\ \A d \in Dsts : IsSeq(sent[d])
<1>1. /\ readQ \in Seq(Reads) /\ rdSts \in Seq(Statuses) /\ pktSts \in Seq(Nat)
      /\ sent \in [Dsts -> Seq(Segments)]
  BY DEF TypeOK, DeviceType
<1>2. QED
  BY <1>1 DEF IsSeq

LEMMA CallCounts == ASSUME TypeOK, Counts, NEW c \in Calls, CallSend(c) PROVE Counts'
<1>1. /\ ~ Running /\ Running' /\ retval' = "running" /\ inFlight' = 0 /\ waitPkt' = FALSE
      /\ toAck' = c.len /\ call' = c /\ UNCHANGED <<pktSts, rdSts, readQ>>
  BY DEF CallSend, Running, dmaVars, pktVars
<1>2. /\ Len(pktSts) = 0 /\ Len(Pend) = 0 /\ Len(rdSts) = 0 /\ Len(readQ) = 0
  BY <1>1, EndedFacts
<1>3. Len(Pend') = Len(Pend) + Early' /\ Early' \in Nat
  BY CallPend DEF Queued
<1>4. QED
  BY <1>1, <1>2, <1>3 DEF Counts

LEMMA IssueCounts ==
  ASSUME TypeOK, Counts, IssueFirst \/ IssueNext
  PROVE  Counts'
<1>1. /\ StartDma /\ Running /\ Running' /\ retval' = retval /\ toMove > 0
      /\ UNCHANGED <<pktSts, rdSts, waitPkt, toAck, call>> /\ waitPkt = FALSE
  BY DEF IssueFirst, IssueNext, StartDma, Running, pktVars, TypeOK, FwType
<1>2. Len(readQ') = Len(readQ) + 1
  BY AreQueues, AppendFacts DEF IssueFirst, IssueNext, StartDma
<1>3. inFlight' = inFlight + 1 /\ inFlight < MaxInFlight
  BY <1>1, IssuedFacts
<1>4. /\ inFlight + Early = Len(pktSts) + Len(Pend)
      /\ inFlight = Len(rdSts) + Len(readQ) /\ waitPkt' = FALSE
      /\ toAck # call.len => inFlight + 1 >= MaxInFlight
  BY <1>1, Lengths DEF Counts
<1>5. inFlight' = Len(rdSts') + Len(readQ') + 0
  BY <1>1, <1>2, <1>3, <1>4, Lengths
<1>a. PICK f \in Nat, e \in Nat, s \in Nat, h \in Nat :
        /\ f = inFlight /\ e = Early /\ s = Len(pktSts) /\ h = Len(Pend)
        /\ f + e = s + h
  BY <1>4, Lengths
<1>b. inFlight' = f + 1 /\ Len(pktSts') = s
  BY <1>1, <1>3, <1>a
<1>6. inFlight' + Early' = Len(pktSts') + Len(Pend')
  <2>1. CASE IssueFirst
    <3>1. Pend' = Pend /\ Early' = Early - 1
      BY <2>1, FirstPend
    <3>2. (f + 1) + (e - 1) = s + h
      BY <1>a
    <3>3. QED
      BY <1>a, <1>b, <3>1, <3>2
  <2>2. CASE IssueNext
    <3>1. Len(Pend') = Len(Pend) + 1 /\ Early' = 0 /\ Early = 0
      BY <2>2, NextPend
    <3>2. (f + 1) + 0 = s + (h + 1)
      BY <1>a, <3>1
    <3>3. QED
      BY <1>a, <1>b, <3>1, <3>2
  <2>3. QED
    BY <2>1, <2>2
<1>7. toAck' # call'.len => inFlight' + 1 >= MaxInFlight
  <2>1. PICK x \in Nat : x = MaxInFlight
    BY Lengths
  <2>2. f + 1 >= x => (f + 1) + 1 >= x
    OBVIOUS
  <2>3. toAck' = toAck /\ call' = call
    BY <1>1
  <2>4. QED
    BY <1>4, <1>a, <1>b, <2>1, <2>2, <2>3
<1>8. QED
  BY <1>1, <1>4, <1>5, <1>6, <1>7 DEF Counts

LEMMA AckDmaFacts ==
  ASSUME TypeOK, AckDma
  PROVE  /\ Running /\ ~ waitPkt /\ rdSts # <<>> /\ rdSts' = Tail(rdSts)
         /\ dma_tag' = TagAfter(dma_tag, 1) /\ pktSts' = pktSts
         /\ ~ Fail => /\ waitPkt' = TRUE /\ Pend' = Pend /\ Early' = Early
                      /\ UNCHANGED <<retval, call, ncalls, toMove, toAck, inFlight,
                                     dma_tag_tmp, outSeq, failedAt, readQ, sent>>
<1>1. /\ Running /\ ~ waitPkt /\ rdSts # <<>> /\ rdSts' = Tail(rdSts)
      /\ dma_tag' = TagAfter(dma_tag, 1) /\ pktSts' = pktSts
      /\ ~ Fail => /\ waitPkt' = TRUE
                   /\ UNCHANGED <<retval, call, ncalls, toMove, toAck, inFlight, dma_tag_tmp,
                                  outSeq, failedAt, readQ, hdrQ, pkt, sent>>
  BY DEF AckDma
<1>2. ~ Fail => Pend' = Pend /\ Early' = Early
  BY <1>1 DEF Pend, Early, Running
<1>3. QED
  BY <1>1, <1>2

(* The firmware has now both statuses of a segment.                        *)
LEMMA AckPktEarly ==
  ASSUME TypeOK, AckPkt, ~ Fail
  PROVE  /\ Pend' = Pend /\ Early = 0 /\ Early' = 0
         /\ toAck' \in Nat /\ toAck' # call.len /\ Segs(toAck') = Segs(toAck) - 1
         /\ Segs(toAck) \in Nat /\ Segs(toAck) > 0 /\ inFlight > 0
<1>1. /\ waitPkt /\ MustAck /\ toAck' = toAck - SegLen(toAck)
      /\ UNCHANGED <<retval, call, toMove, hdrQ, pkt>>
  BY AckPktFacts
<1>2. /\ toAck' \in Nat /\ toAck' < toAck /\ toAck \in Nat /\ toAck <= call.len
      /\ Segs(toAck') = Segs(toAck) - 1 /\ Segs(toAck) \in Nat /\ Segs(toAck) > 0
      /\ inFlight > 0 /\ call.len \in Nat
  BY <1>1, AckedFacts, Lengths DEF TypeOK, Progress
<1>3. toAck' # call.len
  BY <1>2
<1>4. Early = 0 /\ Early' = 0
  BY <1>1, <1>3, EarlyFacts DEF Early
<1>5. QED
  BY <1>1, <1>2, <1>3, <1>4 DEF Pend

LEMMA AckCounts ==
  ASSUME TypeOK, Counts, AckDma \/ AckPkt, ~ Fail
  PROVE  Counts'
<1>1. CASE AckDma
  <2>1. /\ Running /\ waitPkt = FALSE /\ waitPkt' = TRUE /\ Pend' = Pend /\ Early' = Early
        /\ pktSts' = pktSts /\ Len(rdSts') = Len(rdSts) - 1 /\ Running'
        /\ UNCHANGED <<retval, call, toMove, toAck, inFlight, readQ>>
    BY <1>1, AckDmaFacts, AreQueues, TailFacts, Lengths DEF Running
  <2>2. QED
    BY <2>1, Lengths DEF Counts
<1>2. CASE AckPkt
  <2>1. /\ Running /\ Running' /\ waitPkt = TRUE /\ waitPkt' = FALSE
        /\ inFlight' = inFlight - 1 /\ Len(pktSts') = Len(pktSts) - 1
        /\ UNCHANGED <<retval, call, toMove, readQ, rdSts>>
        /\ toMove = 0 \/ inFlight = MaxInFlight
    BY <1>2, AckPktFacts, AreQueues, TailFacts, Lengths DEF Running, MustAck
  <2>2. Pend' = Pend /\ Early = 0 /\ Early' = 0
    BY <1>2, AckPktEarly
  <2>3. PICK f \in Nat, s \in Nat, h \in Nat, a \in Nat, b \in Nat, x \in Nat :
          /\ f = inFlight /\ s = Len(pktSts) /\ h = Len(Pend) /\ a = Len(rdSts)
          /\ b = Len(readQ) /\ x = MaxInFlight
    BY Lengths
  <2>4. f + 0 = s + h /\ f = a + b + 1
    BY <2>1, <2>2, <2>3 DEF Counts
  <2>5. (f - 1) + 0 = (s - 1) + h /\ f - 1 = a + b + 0 /\ (f = x => (f - 1) + 1 >= x)
    BY <2>4
  <2>6. inFlight' = f - 1 /\ Len(pktSts') = s - 1
    BY <2>1, <2>3
  <2>7. ~ (toMove > 0 /\ toMove = 0)
    BY Lengths
  <2>8. retval # "failed"
    BY DEF Counts
  <2>9. QED
    BY <2>1, <2>2, <2>3, <2>5, <2>6, <2>7, <2>8 DEF Counts
<1>3. QED
  BY <1>1, <1>2

LEMMA FinishFacts ==
  ASSUME TypeOK, FinishSend
  PROVE  /\ Running /\ ~ Running' /\ retval' = "ok" /\ toAck = 0 /\ toMove = 0 /\ ~ waitPkt
         /\ Pend' = Pend /\ Early = 0 /\ Early' = 0
         /\ UNCHANGED <<call, ncalls, toMove, toAck, inFlight, waitPkt, dma_tag_tmp, dma_tag,
                        outSeq, failedAt, readQ, rdSts, pktSts, sent>>
<1>1. /\ Running /\ ~ Running' /\ retval' = "ok" /\ toAck = 0 /\ toMove = 0 /\ ~ waitPkt
      /\ UNCHANGED <<call, ncalls, toMove, toAck, inFlight, waitPkt, dma_tag_tmp, dma_tag,
                     outSeq, failedAt, readQ, rdSts, pktSts, sent, hdrQ, pkt>>
  BY DEF FinishSend, Running, dmaVars, pktVars
<1>2. Early = 0 /\ Early' = 0
  BY <1>1, EarlyFacts DEF Early, MustAck
<1>3. QED
  BY <1>1, <1>2 DEF Pend

LEMMA CountsStep ==
  ASSUME TypeOK, History, Counts, [SendNext]_vars, failedAt' = 0
  PROVE  Counts'
<1>1. CASE UNCHANGED vars
  BY <1>1 DEF vars, fwVars, dmaVars, pktVars, Counts, Early, Running, Pend
<1>2. ASSUME Running, Fail PROVE FALSE
  BY <1>2, FailFacts
<1>3. CASE AckDma \/ AckPkt
  <2>1. Running
    BY <1>3 DEF AckDma, AckPkt
  <2>2. QED
    BY <1>2, <1>3, <2>1, AckCounts
<1>4. CASE AckTimeout
  BY <1>2, <1>4 DEF AckTimeout
<1>5. CASE FinishSend
  BY <1>5, FinishFacts DEF Counts
<1>6. CASE ReadWord
  <2>1. /\ UNCHANGED <<retval, call, toMove, toAck, inFlight, waitPkt, pktSts, hdrQ, pkt>>
    BY <1>6, ReadWordFacts DEF fwVars, pktVars
  <2>2. Pend' = Pend /\ Early' = Early
    BY <2>1 DEF Pend, Early, Running
  <2>3. Len(rdSts') + Len(readQ') = Len(rdSts) + Len(readQ)
    <3>1. CASE UNCHANGED <<readQ, rdSts>>
      BY <3>1
    <3>2. CASE ~ UNCHANGED <<readQ, rdSts>>
      <4>1. /\ readQ # <<>> /\ readQ' = Tail(readQ)
            /\ \E ok \in BOOLEAN : rdSts' = Append(rdSts, [tag |-> readQ[1].tag, ok |-> ok])
        BY <1>6, <3>2, ReadWordFacts
      <4>2. Len(readQ') = Len(readQ) - 1 /\ Len(rdSts') = Len(rdSts) + 1
        BY <4>1, AreQueues, TailFacts, AppendFacts
      <4>3. QED
        BY <4>2, Lengths
    <3>3. QED
      BY <3>1, <3>2
  <2>4. inFlight = (Len(rdSts) + Len(readQ)) + (IF waitPkt THEN 1 ELSE 0)
    BY Lengths DEF Counts
  <2>5. inFlight = (Len(rdSts') + Len(readQ')) + (IF waitPkt THEN 1 ELSE 0)
    BY <2>3, <2>4
  <2>6. QED
    BY <2>1, <2>2, <2>5 DEF Counts, Running
<1>7. CASE PktStart \/ PktWord
  <2>1. Pend' = Pend /\ Early' = Early /\ UNCHANGED <<fwVars, dmaVars, pktSts>>
    BY <1>7, PktStartPend, PktWordPend
  <2>2. QED
    BY <2>1 DEF Counts, Running, fwVars, dmaVars
<1>8. CASE PktDone
  <2>1. /\ Early' = Early /\ Len(Pend) = Len(Pend') + 1 /\ Len(Pend') \in Nat
        /\ UNCHANGED <<fwVars, dmaVars>>
    BY <1>8, PktDonePend
  <2>2. Len(pktSts') = Len(pktSts) + 1
    BY <1>8, PktDonePend, AreQueues, AppendFacts
  <2>3. Len(pktSts') + Len(Pend') = Len(pktSts) + Len(Pend)
    BY <2>1, <2>2, Lengths
  <2>4. QED
    BY <2>1, <2>3 DEF Counts, Running, fwVars, dmaVars
<1>9. QED
  BY <1>1, <1>3, <1>4, <1>5, <1>6, <1>7, <1>8, CallCounts, IssueCounts
     DEF SendNext, Firmware, Packetizer

LEMMA CallSeqs ==
  ASSUME TypeOK, Counts, SeqsRun, NEW c \in Calls, CallSend(c)
  PROVE  SeqsRun'
<1>1. /\ ~ Running /\ call' = c /\ UNCHANGED <<pktSts, sent, outSeq>>
  BY DEF CallSend, pktVars
<1>2. Len(pktSts) = 0 /\ Len(Pend) = 0
  BY <1>1, EndedFacts
<1>3. Len(Pend') = Early' /\ Early' \in Nat
      /\ \A i \in 1 .. Early' : IsHeader(Pend'[0 + i], c.dst, c.len, 0, i)
  BY <1>2, CallPend DEF Queued
<1>4. ASSUME NEW i \in 1 .. Len(Pend')
      PROVE  /\ Pend'[i].seq = outSeq[c.dst] + 0 + i
             /\ Pend'[i].dst = c.dst /\ Pend'[i].call = ncalls'
  <2>1. 0 + i = i
    BY <1>3, <1>4
  <2>2. IsHeader(Pend'[i], c.dst, c.len, 0, i)
    BY <1>3, <1>4, <2>1
  <2>3. QED
    BY <2>2 DEF IsHeader
<1>5. \A d \in Dsts : Len(sent[d]) = outSeq[d] + 0
  BY <1>2 DEF SeqsRun
<1>6. \A i \in 1 .. Len(pktSts') : FALSE
  BY <1>1, <1>2
<1>7. QED
  BY <1>1, <1>2, <1>4, <1>5, <1>6 DEF SeqsRun

LEMMA IssueSeqs ==
  ASSUME TypeOK, Counts, SeqsRun, IssueFirst \/ IssueNext
  PROVE  SeqsRun'
<1>1. /\ StartDma /\ Running /\ toMove > 0
      /\ UNCHANGED <<pktSts, sent, outSeq, call, ncalls>>
  BY DEF IssueFirst, IssueNext, StartDma, pktVars
<1>2. CASE IssueFirst
  <2>1. Pend' = Pend
    BY <1>2, FirstPend
  <2>2. QED
    BY <1>1, <2>1 DEF SeqsRun
<1>3. CASE IssueNext
  <2>1. /\ Early = 0 /\ Len(Pend') = Len(Pend) + 1 /\ Len(Pend) \in Nat
        /\ \A i \in 1 .. Len(Pend) : Pend'[i] = Pend[i]
        /\ Pend'[Len(Pend) + 1].call = ncalls
        /\ Pend'[Len(Pend) + 1].dst = call.dst
        /\ Pend'[Len(Pend) + 1].seq = outSeq[call.dst] + MaxInFlight
    BY <1>3, NextPend
  <2>2. PICK f \in Nat, s \in Nat, h \in Nat, x \in Nat, o \in Nat :
          /\ f = inFlight /\ s = Len(pktSts) /\ h = Len(Pend) /\ x = MaxInFlight
          /\ o = outSeq[call.dst]
    BY Lengths
  <2>3. f + 0 = s + h /\ f + 1 >= x /\ f < x
    BY <1>1, <1>3, <2>1, <2>2, IssuedFacts DEF Counts, IssueNext
  <2>4. o + x = o + s + (h + 1)
    <3>1. x = s + h + 1
      BY <2>3
    <3>2. QED
      BY <3>1, Regroup
  <2>5. ASSUME NEW i \in 1 .. Len(Pend')
        PROVE  /\ Pend'[i].seq = outSeq[call.dst] + Len(pktSts) + i
               /\ Pend'[i].dst = call.dst /\ Pend'[i].call = ncalls
    <3>1. CASE i \in 1 .. Len(Pend)
      BY <2>1, <3>1 DEF SeqsRun
    <3>2. CASE i = h + 1
      BY <2>1, <2>2, <2>4, <3>2
    <3>3. QED
      BY <2>1, <2>2, <2>5, <3>1, <3>2
  <2>6. QED
    BY <1>1, <2>5 DEF SeqsRun
<1>4. QED
  BY <1>2, <1>3

LEMMA AckSeqs ==
  ASSUME TypeOK, SeqsRun, AckPkt, ~ Fail
  PROVE  SeqsRun'
<1>1. /\ pktSts # <<>> /\ pktSts' = Tail(pktSts)
      /\ outSeq' = [outSeq EXCEPT ![call.dst] = @ + 1]
      /\ UNCHANGED <<call, ncalls, hdrQ, pkt, sent>>
  BY AckPktFacts
<1>2. Pend' = Pend
  BY <1>1 DEF Pend
<1>3. /\ Len(pktSts') = Len(pktSts) - 1 /\ Len(pktSts) \in Nat \ {0}
      /\ \A i \in 1 .. Len(pktSts') : pktSts'[i] = pktSts[i + 1]
  BY <1>1, AreQueues, TailFacts
<1>4. outSeq \in [Dsts -> Nat] /\ call.dst \in Dsts /\ outSeq'[call.dst] = outSeq[call.dst] + 1
  BY <1>1, Lengths DEF TypeOK, FwType
<1>5. PICK o \in Nat, s \in Nat : o = outSeq[call.dst] /\ s = Len(pktSts)
  BY Lengths
<1>6. outSeq'[call.dst] = o + 1 /\ Len(pktSts') = s - 1 /\ s > 0
  BY <1>3, <1>4, <1>5
<1>7. ASSUME NEW i \in 1 .. Len(pktSts') PROVE pktSts'[i] = outSeq'[call.dst] + i
  <2>1. PICK k \in 1 .. Len(pktSts) : k = i + 1 /\ k \in Nat /\ i \in Nat
    BY <1>3, <1>7
  <2>a. o + k = (o + 1) + i
    BY <1>5, <2>1
  <2>2. pktSts'[i] = pktSts[k] /\ pktSts[k] = o + k
    BY <1>3, <1>5, <1>7, <2>1 DEF SeqsRun
  <2>3. QED
    BY <1>6, <2>1, <2>a, <2>2
<1>8. ASSUME NEW i \in 1 .. Len(Pend)
      PROVE  /\ Pend[i].seq = outSeq'[call.dst] + Len(pktSts') + i
             /\ Pend[i].dst = call.dst /\ Pend[i].call = ncalls
  <2>1. Pend[i].seq = o + s + i /\ Pend[i].dst = call.dst /\ Pend[i].call = ncalls
    BY <1>5 DEF SeqsRun
  <2>2. i \in Nat
    BY Lengths
  <2>3. o + s + i = (o + 1) + (s - 1) + i
    BY <2>2, Regroup
  <2>4. QED
    BY <1>6, <2>1, <2>3
<1>9. ASSUME NEW d \in Dsts
      PROVE  Len(sent[d]) = outSeq'[d] + (IF d = call.dst THEN Len(pktSts') ELSE 0)
  <2>1. CASE d = call.dst
    <3>1. Len(sent[d]) = o + s
      BY <1>5, <2>1 DEF SeqsRun
    <3>2. o + s = (o + 1) + (s - 1)
      BY <1>5
    <3>3. QED
      BY <1>6, <2>1, <3>1, <3>2
  <2>2. CASE d # call.dst
    <3>1. outSeq'[d] = outSeq[d]
      BY <1>1, <1>4, <2>2
    <3>2. QED
      BY <2>2, <3>1 DEF SeqsRun
  <2>3. QED
    BY <2>1, <2>2
<1>10. QED
  BY <1>1, <1>2, <1>7, <1>8, <1>9 DEF SeqsRun

LEMMA DoneSeqs ==
  ASSUME TypeOK, SeqsRun, PktDone
  PROVE  SeqsRun'
<1>1. /\ pkt # NoPkt /\ sent' = [sent EXCEPT ![pkt.hdr.dst] = Append(@, pkt)]
      /\ pktSts' = Append(pktSts, pkt.hdr.seq) /\ UNCHANGED <<call, ncalls, outSeq>>
      /\ Pend[1] = pkt.hdr /\ Len(Pend) = Len(Pend') + 1 /\ Len(Pend') \in Nat
      /\ \A i \in 1 .. Len(Pend') : Pend'[i] = Pend[i + 1]
  BY PktDonePend DEF fwVars
<1>2. PICK o \in Nat, s \in Nat : o = outSeq[call.dst] /\ s = Len(pktSts)
  BY Lengths
<1>3. pkt.hdr.seq = o + s + 1 /\ pkt.hdr.dst = call.dst
  <2>1. 1 \in 1 .. Len(Pend)
    BY <1>1
  <2>2. QED
    BY <1>1, <1>2, <2>1 DEF SeqsRun
<1>4. /\ Len(pktSts') = s + 1
      /\ \A i \in 1 .. s : pktSts'[i] = pktSts[i]
      /\ pktSts'[s + 1] = o + s + 1
  BY <1>1, <1>2, <1>3, AreQueues, AppendFacts
<1>5. ASSUME NEW i \in 1 .. Len(pktSts') PROVE pktSts'[i] = o + i
  <2>1. CASE i \in 1 .. s
    BY <1>2, <1>4, <2>1 DEF SeqsRun
  <2>2. CASE i = s + 1
    <3>1. o + s + 1 = o + i
      BY <1>2, <2>2
    <3>2. QED
      BY <1>4, <2>2, <3>1
  <2>3. QED
    BY <1>2, <1>4, <1>5, <2>1, <2>2
<1>6. ASSUME NEW i \in 1 .. Len(Pend')
      PROVE  /\ Pend'[i].seq = o + Len(pktSts') + i
             /\ Pend'[i].dst = call.dst /\ Pend'[i].call = ncalls
  <2>1. PICK k \in 1 .. Len(Pend) : k = i + 1 /\ k \in Nat /\ i \in Nat
    BY <1>1, <1>6
  <2>a. o + s + k = o + (s + 1) + i
    BY <2>1, Regroup
  <2>2. Pend'[i] = Pend[k]
    BY <1>1, <1>6, <2>1
  <2>3. Pend[k].seq = o + s + k /\ Pend[k].dst = call.dst /\ Pend[k].call = ncalls
    BY <1>2, <2>1 DEF SeqsRun
  <2>4. QED
    BY <1>4, <2>1, <2>a, <2>2, <2>3
<1>7. ASSUME NEW d \in Dsts
      PROVE  Len(sent'[d]) = outSeq[d] + (IF d = call.dst THEN Len(pktSts') ELSE 0)
  <2>1. sent \in [Dsts -> Seq(Segments)]
    BY DEF TypeOK, DeviceType
  <2>2. CASE d = call.dst
    <3>1. sent'[d] = Append(sent[d], pkt)
      BY <1>1, <1>3, <2>1, <2>2
    <3>2. Len(sent'[d]) = Len(sent[d]) + 1
      BY <3>1, AreQueues, AppendFacts
    <3>3. Len(sent[d]) = o + s
      BY <1>2, <2>2 DEF SeqsRun
    <3>4. (o + s) + 1 = o + (s + 1)
      BY <1>2
    <3>5. QED
      BY <1>2, <1>4, <2>2, <3>2, <3>3, <3>4
  <2>3. CASE d # call.dst
    <3>1. sent'[d] = sent[d]
      BY <1>1, <1>3, <2>1, <2>3
    <3>2. QED
      BY <2>3, <3>1 DEF SeqsRun
  <2>4. QED
    BY <2>2, <2>3
<1>8. QED
  BY <1>1, <1>2, <1>5, <1>6, <1>7 DEF SeqsRun

LEMMA SeqsStep ==
  ASSUME TypeOK, History, Counts, SeqsRun, [SendNext]_vars, failedAt' = 0
  PROVE  SeqsRun'
<1>1. ASSUME UNCHANGED <<call, ncalls, outSeq, pktSts, sent>>, Pend' = Pend
      PROVE  SeqsRun'
  BY <1>1 DEF SeqsRun
<1>2. ASSUME Running, Fail PROVE FALSE
  BY <1>2, FailFacts
<1>3. CASE UNCHANGED vars
  BY <1>1, <1>3 DEF vars, fwVars, pktVars, Pend
<1>4. CASE AckDma
  BY <1>1, <1>2, <1>4, AckDmaFacts
<1>5. CASE AckPkt
  BY <1>2, <1>5, AckPktFacts, AckSeqs
<1>6. CASE AckTimeout
  BY <1>2, <1>6 DEF AckTimeout
<1>7. CASE FinishSend
  BY <1>1, <1>7, FinishFacts
<1>8. CASE ReadWord
  <2>1. UNCHANGED <<call, ncalls, outSeq, pktSts, sent, hdrQ, pkt>>
    BY <1>8, ReadWordFacts DEF fwVars, pktVars
  <2>2. QED
    BY <1>1, <2>1 DEF Pend
<1>9. CASE PktStart \/ PktWord
  <2>1. Pend' = Pend /\ UNCHANGED <<fwVars, pktSts, sent>>
    BY <1>9, PktStartPend, PktWordPend
  <2>2. QED
    BY <1>1, <2>1 DEF fwVars
<1>10. QED
  BY <1>3, <1>4, <1>5, <1>6, <1>7, <1>8, <1>9, CallSeqs, IssueSeqs, DoneSeqs
     DEF SendNext, Firmware, Packetizer

LEMMA ModUnique ==
  ASSUME NEW x \in Nat, NEW m \in Nat, m > 0, NEW k \in Nat, NEW r \in Nat,
         r < m, x = k * m + r
  PROVE  x % m = r
  OBVIOUS

(* Tags run on, modulo their number.                                       *)
LEMMA ModPlus ==
  ASSUME NEW x \in Nat, NEW m \in Nat, m > 0, NEW n \in Nat
  PROVE  ((x % m) + n) % m = (x + n) % m /\ (x % m) \in Nat /\ x % m < m
<1>1. \A y \in Nat : \E q \in Nat, r \in Nat : y = q * m + r /\ r < m /\ y % m = r
  <2>1. SUFFICES ASSUME NEW y \in Nat
                 PROVE  \E q \in Nat, r \in Nat : y = q * m + r /\ r < m /\ y % m = r
    OBVIOUS
  <2>2. PICK q \in Nat : q * m <= y /\ y <= q * m + m - 1
    <3>1. y \div m \in Nat /\ (y \div m) * m <= y /\ y <= (y \div m) * m + m - 1
      OBVIOUS
    <3>2. QED
      BY <3>1
  <2>3. q * m \in Nat
    OBVIOUS
  <2>4. PICK r \in Nat : y = q * m + r /\ r < m
    BY <2>2, <2>3
  <2>5. y % m = r
    BY <2>4
  <2>6. QED
    BY <2>4, <2>5
<1>2. PICK q \in Nat, r \in Nat : x = q * m + r /\ r < m /\ x % m = r
  BY <1>1
<1>3. PICK k \in Nat, s \in Nat : r + n = k * m + s /\ s < m /\ (r + n) % m = s
  BY <1>1
<1>4. x + n = (q + k) * m + s
  <2>1. (q + k) * m = q * m + k * m /\ q * m \in Nat /\ k * m \in Nat
    OBVIOUS
  <2>2. QED
    BY <1>2, <1>3, <2>1
<1>5. (x + n) % m = s
  <2>1. PICK y \in Nat, z \in Nat : y = x + n /\ z = q + k /\ y = z * m + s
    BY <1>4
  <2>2. y % m = s
    BY <1>3, <2>1, ModUnique
  <2>3. QED
    BY <2>1, <2>2
<1>6. QED
  BY <1>2, <1>3, <1>5

LEMMA TagPlus ==
  ASSUME NEW t \in Nat, NEW i \in Nat, NEW n \in Nat
  PROVE  /\ TagAfter(TagAfter(t, i), n) = TagAfter(t, i + n)
         /\ TagAfter(t, i) < TagMod
<1>1. PICK m \in Nat : m = TagMod /\ m > 0
  BY SendAssumption
<1>2. (((t + i) % m) + n) % m = ((t + i) + n) % m /\ (t + i) % m < m
  <2>1. PICK u \in Nat : u = t + i
    OBVIOUS
  <2>2. ((u % m) + n) % m = (u + n) % m /\ u % m < m
    BY <1>1, ModPlus
  <2>3. QED
    BY <2>1, <2>2
<1>3. (t + i) + n = t + (i + n)
  OBVIOUS
<1>4. QED
  BY <1>1, <1>2, <1>3 DEF TagAfter

LEMMA CallTagsRun ==
  ASSUME TypeOK, Counts, TagsRun, NEW c \in Calls, CallSend(c)
  PROVE  TagsRun'
<1>1. /\ ~ Running /\ dma_tag_tmp' = dma_tag /\ UNCHANGED <<dma_tag, readQ, rdSts>>
  BY DEF CallSend, dmaVars
<1>2. Len(rdSts) = 0 /\ Len(readQ) = 0
  BY <1>1, EndedFacts
<1>3. dma_tag = TagAfter(dma_tag, 0 + 0)
  <2>1. dma_tag \in Nat /\ dma_tag < TagMod /\ TagMod \in Nat
    BY SendAssumption DEF TypeOK, FwType, TagsRun
  <2>2. QED
    BY <2>1 DEF TagAfter
<1>4. QED
  BY <1>1, <1>2, <1>3 DEF TagsRun

LEMMA IssueTagsRun ==
  ASSUME TypeOK, TagsRun, IssueFirst \/ IssueNext
  PROVE  TagsRun'
<1>1. PICK x : x = [call |-> ncalls, off |-> call.len - toMove,
                    len |-> SegLen(toMove), tag |-> TagAfter(dma_tag_tmp, 1)]
  OBVIOUS
<1>2. /\ readQ' = Append(readQ, x) /\ dma_tag_tmp' = TagAfter(dma_tag_tmp, 1)
      /\ UNCHANGED <<dma_tag, rdSts>> /\ x.tag = TagAfter(dma_tag_tmp, 1)
  BY <1>1 DEF IssueFirst, IssueNext, StartDma
<1>3. /\ Len(readQ') = Len(readQ) + 1
      /\ \A i \in 1 .. Len(readQ) : readQ'[i] = readQ[i]
      /\ readQ'[Len(readQ) + 1] = x
  BY <1>2, AreQueues, AppendFacts
<1>4. PICK t \in Nat, s \in Nat, r \in Nat : t = dma_tag /\ s = Len(rdSts) /\ r = Len(readQ)
  BY Lengths
<1>5. TagAfter(dma_tag_tmp, 1) = TagAfter(t, s + (r + 1))
  <2>1. dma_tag_tmp = TagAfter(t, s + r)
    BY <1>4 DEF TagsRun
  <2>2. TagAfter(TagAfter(t, s + r), 1) = TagAfter(t, (s + r) + 1)
    <3>1. PICK v \in Nat : v = s + r
      OBVIOUS
    <3>2. 1 \in Nat
      OBVIOUS
    <3>3. TagAfter(TagAfter(t, v), 1) = TagAfter(t, v + 1)
      BY <3>2, TagPlus
    <3>4. QED
      BY <3>1, <3>3
  <2>3. (s + r) + 1 = s + (r + 1)
    OBVIOUS
  <2>4. QED
    BY <2>1, <2>2, <2>3
<1>6. ASSUME NEW i \in 1 .. Len(readQ') PROVE readQ'[i].tag = TagAfter(t, s + i)
  <2>1. CASE i \in 1 .. Len(readQ)
    BY <1>3, <1>4, <2>1 DEF TagsRun
  <2>2. CASE i = r + 1
    BY <1>2, <1>3, <1>4, <1>5, <2>2
  <2>3. QED
    BY <1>3, <1>4, <1>6, <2>1, <2>2
<1>7. QED
  BY <1>2, <1>3, <1>4, <1>5, <1>6 DEF TagsRun

LEMMA AckTagsRun ==
  ASSUME TypeOK, TagsRun, AckDma, ~ Fail
  PROVE  TagsRun'
<1>1. /\ rdSts # <<>> /\ rdSts' = Tail(rdSts) /\ dma_tag' = TagAfter(dma_tag, 1)
      /\ UNCHANGED <<dma_tag_tmp, readQ>>
  BY AckDmaFacts
<1>2. /\ Len(rdSts') = Len(rdSts) - 1 /\ Len(rdSts) \in Nat \ {0}
      /\ \A i \in 1 .. Len(rdSts') : rdSts'[i] = rdSts[i + 1]
  BY <1>1, AreQueues, TailFacts
<1>3. PICK t \in Nat, s \in Nat, r \in Nat :
        t = dma_tag /\ s = Len(rdSts') /\ r = Len(readQ) /\ Len(rdSts) = s + 1
  BY <1>2, Lengths
<1>4. \A i \in Nat : TagAfter(dma_tag', i) = TagAfter(t, 1 + i) /\ dma_tag' < TagMod
  <2>1. SUFFICES ASSUME NEW i \in Nat
                 PROVE  TagAfter(dma_tag', i) = TagAfter(t, 1 + i) /\ dma_tag' < TagMod
    OBVIOUS
  <2>2. 1 \in Nat /\ dma_tag' = TagAfter(t, 1)
    BY <1>1, <1>3
  <2>3. TagAfter(TagAfter(t, 1), i) = TagAfter(t, 1 + i) /\ TagAfter(t, 1) < TagMod
    BY <2>2, TagPlus
  <2>4. QED
    BY <2>2, <2>3
<1>5. dma_tag_tmp = TagAfter(dma_tag', s + r)
  <2>1. 1 + (s + r) = (s + 1) + r
    OBVIOUS
  <2>2. dma_tag_tmp = TagAfter(t, (s + 1) + r)
    BY <1>3 DEF TagsRun
  <2>3. TagAfter(dma_tag', s + r) = TagAfter(t, 1 + (s + r))
    BY <1>4
  <2>4. QED
    BY <2>1, <2>2, <2>3
<1>6. ASSUME NEW i \in 1 .. Len(rdSts') PROVE rdSts'[i].tag = TagAfter(dma_tag', i)
  <2>1. i \in Nat /\ i + 1 \in 1 .. Len(rdSts) /\ 1 + i = i + 1
    BY <1>3, <1>6
  <2>2. rdSts'[i] = rdSts[i + 1] /\ rdSts[i + 1].tag = TagAfter(t, i + 1)
    BY <1>2, <1>3, <1>6, <2>1 DEF TagsRun
  <2>3. QED
    BY <1>4, <2>1, <2>2
<1>7. ASSUME NEW i \in 1 .. Len(readQ) PROVE readQ[i].tag = TagAfter(dma_tag', s + i)
  <2>1. i \in Nat /\ s + i \in Nat /\ 1 + (s + i) = (s + 1) + i
    BY <1>3, <1>7
  <2>2. readQ[i].tag = TagAfter(t, (s + 1) + i)
    BY <1>3, <1>7 DEF TagsRun
  <2>3. TagAfter(dma_tag', s + i) = TagAfter(t, 1 + (s + i))
    BY <1>4, <2>1
  <2>4. QED
    BY <2>1, <2>2, <2>3
<1>8. dma_tag' < TagMod
  BY <1>4
<1>9. QED
  BY <1>1, <1>3, <1>5, <1>6, <1>7, <1>8 DEF TagsRun

LEMMA ReadTagsRun ==
  ASSUME TypeOK, TagsRun, ReadWord
  PROVE  TagsRun'
<1>1. UNCHANGED <<dma_tag, dma_tag_tmp>>
  BY ReadWordFacts DEF fwVars
<1>2. CASE UNCHANGED <<readQ, rdSts>>
  BY <1>1, <1>2 DEF TagsRun
<1>3. CASE ~ UNCHANGED <<readQ, rdSts>>
  <2>1. /\ readQ # <<>> /\ readQ' = Tail(readQ)
        /\ \E ok \in BOOLEAN : rdSts' = Append(rdSts, [tag |-> readQ[1].tag, ok |-> ok])
    BY <1>3, ReadWordFacts
  <2>2. PICK x : rdSts' = Append(rdSts, x) /\ x.tag = readQ[1].tag
    BY <2>1
  <2>3. /\ Len(readQ') = Len(readQ) - 1 /\ Len(readQ) \in Nat \ {0}
        /\ \A i \in 1 .. Len(readQ') : readQ'[i] = readQ[i + 1]
    BY <2>1, AreQueues, TailFacts
  <2>4. /\ Len(rdSts') = Len(rdSts) + 1
        /\ \A i \in 1 .. Len(rdSts) : rdSts'[i] = rdSts[i]
        /\ rdSts'[Len(rdSts) + 1] = x
    BY <2>2, AreQueues, AppendFacts
  <2>5. PICK s \in Nat, r \in Nat :
          s = Len(rdSts) /\ r = Len(readQ') /\ Len(readQ) = r + 1 /\ Len(rdSts') = s + 1
    BY <2>3, <2>4, Lengths
  <2>6. dma_tag_tmp = TagAfter(dma_tag, (s + 1) + r)
    <3>1. s + (r + 1) = (s + 1) + r
      OBVIOUS
    <3>2. dma_tag_tmp = TagAfter(dma_tag, s + (r + 1))
      BY <2>5 DEF TagsRun
    <3>3. QED
      BY <3>1, <3>2
  <2>7. ASSUME NEW i \in 1 .. Len(rdSts') PROVE rdSts'[i].tag = TagAfter(dma_tag, i)
    <3>1. CASE i \in 1 .. Len(rdSts)
      BY <2>4, <3>1 DEF TagsRun
    <3>2. CASE i = s + 1
      <4>1. 1 \in 1 .. Len(readQ)
        BY <2>5
      <4>2. readQ[1].tag = TagAfter(dma_tag, s + 1)
        BY <2>5, <4>1 DEF TagsRun
      <4>3. QED
        BY <2>2, <2>4, <2>5, <3>2, <4>2
    <3>3. QED
      BY <2>5, <2>7, <3>1, <3>2
  <2>8. ASSUME NEW i \in 1 .. Len(readQ') PROVE readQ'[i].tag = TagAfter(dma_tag, (s + 1) + i)
    <3>1. i \in Nat /\ i + 1 \in 1 .. Len(readQ) /\ s + (i + 1) = (s + 1) + i
      BY <2>5, <2>8
    <3>2. readQ'[i] = readQ[i + 1] /\ readQ[i + 1].tag = TagAfter(dma_tag, s + (i + 1))
      BY <2>3, <2>5, <2>8, <3>1 DEF TagsRun
    <3>3. QED
      BY <3>1, <3>2
  <2>9. QED
    BY <1>1, <2>5, <2>6, <2>7, <2>8 DEF TagsRun
<1>4. QED
  BY <1>2, <1>3

LEMMA TagsStep ==
  ASSUME TypeOK, History, Counts, TagsRun, [SendNext]_vars, failedAt' = 0
  PROVE  TagsRun'
<1>1. ASSUME UNCHANGED <<dma_tag, dma_tag_tmp, readQ, rdSts>> PROVE TagsRun'
  BY <1>1 DEF TagsRun
<1>2. ASSUME Running, Fail PROVE FALSE
  BY <1>2, FailFacts
<1>3. CASE UNCHANGED vars
  BY <1>1, <1>3 DEF vars, fwVars, dmaVars
<1>4. CASE AckDma
  BY <1>2, <1>4, AckDmaFacts, AckTagsRun
<1>5. CASE AckPkt
  BY <1>1, <1>2, <1>5, AckPktFacts
<1>6. CASE AckTimeout
  BY <1>2, <1>6 DEF AckTimeout
<1>7. CASE FinishSend
  BY <1>1, <1>7, FinishFacts
<1>8. CASE PktStart \/ PktWord \/ PktDone
  <2>1. UNCHANGED <<fwVars, dmaVars>>
    BY <1>8 DEF PktStart, PktWord, PktDone
  <2>2. QED
    BY <1>1, <2>1 DEF fwVars, dmaVars
<1>9. QED
  BY <1>3, <1>4, <1>5, <1>6, <1>7, <1>8, CallTagsRun, IssueTagsRun, ReadTagsRun
     DEF SendNext, Firmware, Packetizer

LEMMA SegsMonotone ==
  ASSUME NEW a \in Nat, NEW b \in Nat, a <= b
  PROVE  Segs(a) <= Segs(b)
<1>1. PICK t \in Nat : t = TxnSize /\ t > 0
  BY SendAssumption
<1>2. PICK x \in Nat, y \in Nat :
        x = Segs(a) /\ y = Segs(b) /\ x * t < a + t /\ b <= y * t
  BY <1>1, SegsFacts
<1>3. SUFFICES ASSUME y < x PROVE FALSE
  BY <1>2
<1>4. x * t = y * t + t + (x - y - 1) * t /\ (x - y - 1) * t \in Nat /\ y * t \in Nat
  BY <1>1, <1>2, <1>3
<1>5. QED
  BY <1>1, <1>2, <1>4

(* What was sent stays sent.                                               *)
LEMMA SentGrows ==
  ASSUME TypeOK, [SendNext]_vars
  PROVE  /\ \A d \in Dsts : /\ Len(sent[d]) \in Nat /\ Len(sent'[d]) \in Nat
                            /\ Len(sent[d]) <= Len(sent'[d])
                            /\ \A i \in 1 .. Len(sent[d]) : sent'[d][i] = sent[d][i]
         /\ ~ PktDone => sent' = sent
<1>1. sent \in [Dsts -> Seq(Segments)]
  BY DEF TypeOK, DeviceType
<1>2. CASE PktDone
  <2>1. pkt \in Segments /\ sent' = [sent EXCEPT ![pkt.hdr.dst] = Append(@, pkt)]
    BY <1>2, PktDonePend
  <2>2. ASSUME NEW d \in Dsts
        PROVE  /\ Len(sent[d]) \in Nat /\ Len(sent'[d]) \in Nat
               /\ Len(sent[d]) <= Len(sent'[d])
               /\ \A i \in 1 .. Len(sent[d]) : sent'[d][i] = sent[d][i]
    <3>1. sent[d] \in Seq(Segments) /\ (sent'[d] = sent[d] \/ sent'[d] = Append(sent[d], pkt))
      BY <1>1, <2>1
    <3>2. QED
      BY <2>1, <3>1
  <2>3. QED
    BY <1>2, <2>2
<1>3. CASE ~ PktDone
  <2>1. sent' = sent
    BY <1>3 DEF SendNext, Firmware, Packetizer, CallSend, IssueFirst, IssueNext,
       StartDma, AckDma, AckPkt, AckTimeout, FinishSend, Fail, ReadWord, PktStart,
       PktWord, PktDone, vars, pktVars
  <2>2. QED
    BY <1>1, <2>1
<1>4. QED
  BY <1>2, <1>3

LEMMA SentKept ==
  ASSUME TypeOK, [SendNext]_vars, UNCHANGED <<call, ncalls>>, NEW k, WasSent(k)
  PROVE  WasSent(k)'
<1>1. PICK i \in 1 .. Len(sent[call.dst]) :
        /\ sent[call.dst][i].hdr.call = ncalls
        /\ sent[call.dst][i].data[1].off = (k - 1) * TxnSize
  BY DEF WasSent
<1>2. call.dst \in Dsts
  BY Lengths
<1>3. i \in 1 .. Len(sent'[call.dst]) /\ sent'[call.dst][i] = sent[call.dst][i]
  BY <1>2, SentGrows
<1>4. QED
  BY <1>1, <1>3 DEF WasSent

(* The segment that the packetizer sends is the next one of the call.      *)
LEMMA NextSent ==
  ASSUME TypeOK, FlowInv, Counts, SeqsRun, failedAt = 0, PktDone,
         NEW b, b = AckedSegs + Len(pktSts) + 1
  PROVE  WasSent(b)'
<1>1. PICK n, seg, from, p, r : Flow(n, seg, from, p, r)
  BY DEF FlowInv
<1>2. /\ pkt # NoPkt /\ sent' = [sent EXCEPT ![pkt.hdr.dst] = Append(@, pkt)]
      /\ pkt \in Segments /\ Len(pkt.data) = Words(pkt.hdr.len)
      /\ UNCHANGED <<call, ncalls>> /\ Pend[1] = pkt.hdr
      /\ Len(Pend) = Len(Pend') + 1 /\ Len(Pend') \in Nat
  BY PktDonePend DEF fwVars
<1>3. pkt.data # <<>> /\ 1 \in 1 .. Len(pkt.data)
  <2>1. pkt.hdr.len \in Nat /\ pkt.hdr.len > 0
    BY <1>1, <1>2, HeaderInHand
  <2>2. Words(pkt.hdr.len) > 0 /\ pkt.data \in Seq(StrmWords)
    BY <1>2, <2>1, WordsFacts, PendFacts
  <2>3. QED
    BY <1>2, <2>2
<1>4. /\ n \in Nat /\ p \in 1 .. n /\ seg[p].off \in Nat
  BY <1>1, <1>2, <1>3, SegmentInHand
<1>5. pkt.data[1].off = seg[p].off
  <2>1. pkt.data[1] = [call |-> seg[p].call, off |-> seg[p].off + (1 - 1) * WordSize]
    BY <1>1, <1>2, <1>3 DEF Flow, PktCut
  <2>2. pkt.data[1].off = seg[p].off + (1 - 1) * WordSize
    BY <2>1
  <2>3. seg[p].off + (1 - 1) * WordSize = seg[p].off
    BY <1>4, SendAssumption
  <2>4. QED
    BY <2>2, <2>3
<1>6. PICK a \in Nat, m \in Nat, c \in Nat, f \in Nat, e \in Nat, s \in Nat, h \in Nat :
        /\ a = Segs(toAck) /\ m = Segs(toMove) /\ c = Segs(call.len) /\ f = inFlight
        /\ e = Early /\ s = Len(pktSts) /\ h = Len(Pend)
  BY Lengths
<1>7. /\ a = m + f /\ f + e = s + h /\ h + p = n + 1 + e
  BY <1>1, <1>6 DEF TypeOK, Progress, Counts, Flow, HeadersCut
<1>8. a <= c
  <2>1. toAck <= call.len /\ toAck \in Nat /\ call.len \in Nat
    BY Lengths DEF TypeOK, Progress
  <2>2. QED
    BY <1>6, <2>1, SegsMonotone
<1>9. PICK k \in Nat : k = c - a + s /\ k + n + 1 - p = c - m
  <2>1. c - a + s \in Nat
    BY <1>6, <1>8
  <2>2. (c - a + s) + n + 1 - p = c - m
    BY <1>4, <1>7
  <2>3. QED
    BY <2>1, <2>2
<1>10. seg[p].off = k * TxnSize
  <2>1. Offsets(n, seg, p) /\ p >= p
    BY <1>1, <1>4 DEF Flow
  <2>2. QED
    BY <1>4, <1>6, <1>9, <2>1 DEF Offsets
<1>11. pkt.hdr.dst = call.dst /\ pkt.hdr.call = ncalls
  <2>1. 1 \in 1 .. Len(Pend)
    BY <1>2
  <2>2. QED
    BY <1>2, <2>1 DEF SeqsRun
<1>12. PICK j \in 1 .. Len(sent'[call.dst]) : sent'[call.dst][j] = pkt
  <2>1. call.dst \in Dsts /\ sent \in [Dsts -> Seq(Segments)]
    BY Lengths DEF TypeOK, DeviceType
  <2>2. sent'[call.dst] = Append(sent[call.dst], pkt) /\ sent[call.dst] \in Seq(Segments)
    BY <1>2, <1>11, <2>1
  <2>3. /\ Len(sent'[call.dst]) = Len(sent[call.dst]) + 1 /\ Len(sent[call.dst]) \in Nat
        /\ sent'[call.dst][Len(sent[call.dst]) + 1] = pkt
    BY <2>1, <2>2, AreQueues, AppendFacts
  <2>4. PICK l \in Nat : l = Len(sent[call.dst])
    BY <2>3
  <2>5. l + 1 \in 1 .. l + 1
    OBVIOUS
  <2>6. QED
    BY <2>3, <2>4, <2>5
<1>13. b - 1 = k
  BY <1>6, <1>8, <1>9 DEF AckedSegs
<1>14. sent'[call'.dst][j].hdr.call = ncalls' /\ j \in 1 .. Len(sent'[call'.dst])
       /\ sent'[call'.dst][j].data[1].off = (b - 1) * TxnSize
  BY <1>2, <1>5, <1>10, <1>11, <1>12, <1>13
<1>15. QED
  BY <1>14 DEF WasSent

LEMMA AckedFew ==
  ASSUME TypeOK
  PROVE  AckedSegs \in Nat
<1>1. toAck <= call.len /\ toAck \in Nat /\ call.len \in Nat
  BY Lengths DEF TypeOK, Progress
<1>2. Segs(toAck) <= Segs(call.len) /\ Segs(toAck) \in Nat /\ Segs(call.len) \in Nat
  BY <1>1, SegsMonotone, SegsFacts
<1>3. QED
  BY <1>2 DEF AckedSegs

LEMMA StatusesSentStep ==
  ASSUME TypeOK, FlowInv, History, Counts, SeqsRun, StatusesSent, [SendNext]_vars,
         failedAt = 0, failedAt' = 0
  PROVE  StatusesSent'
<1>1. ASSUME UNCHANGED <<retval, call, ncalls, toAck, pktSts>> PROVE StatusesSent'
  <2>1. SUFFICES ASSUME retval # "idle", NEW k \in 1 .. AckedSegs + Len(pktSts)
                 PROVE  WasSent(k)'
    BY <1>1 DEF StatusesSent, AckedSegs
  <2>2. WasSent(k)
    BY <2>1 DEF StatusesSent
  <2>3. QED
    BY <1>1, <2>2, SentKept
<1>2. ASSUME Running, Fail PROVE FALSE
  BY <1>2, FailFacts
<1>3. CASE UNCHANGED vars
  BY <1>1, <1>3 DEF vars, fwVars, pktVars
<1>4. ASSUME NEW c \in Calls, CallSend(c) PROVE StatusesSent'
  <2>1. ~ Running /\ call' = c /\ toAck' = c.len /\ pktSts' = pktSts
    BY <1>4 DEF CallSend, pktVars
  <2>2. Len(pktSts) = 0
    BY <2>1, EndedFacts
  <2>3. Segs(c.len) \in Nat
    BY CallFacts, SegsFacts
  <2>4. \A k \in 1 .. (Segs(c.len) - Segs(c.len)) + 0 : FALSE
    BY <2>3
  <2>5. QED
    BY <2>1, <2>2, <2>4 DEF StatusesSent, AckedSegs
<1>5. CASE IssueFirst \/ IssueNext
  BY <1>1, <1>5 DEF IssueFirst, IssueNext, StartDma, pktVars
<1>6. CASE AckDma
  BY <1>1, <1>2, <1>6, AckDmaFacts
<1>7. CASE AckPkt
  <2>1. /\ ~ Fail /\ Running /\ pktSts # <<>> /\ pktSts' = Tail(pktSts)
        /\ UNCHANGED <<retval, call, ncalls>>
    BY <1>2, <1>7, AckPktFacts
  <2>2. Segs(toAck') = Segs(toAck) - 1
    BY <1>7, <2>1, AckPktEarly
  <2>3. Len(pktSts') = Len(pktSts) - 1
    BY <2>1, AreQueues, TailFacts
  <2>4. PICK a \in Nat, s \in Nat, x \in Nat :
          a = Segs(toAck) /\ s = Len(pktSts) /\ x = Segs(call.len)
    BY Lengths
  <2>5. (x - (a - 1)) + (s - 1) = (x - a) + s
    BY Regroup
  <2>6. AckedSegs' + Len(pktSts') = AckedSegs + Len(pktSts)
    BY <2>1, <2>2, <2>3, <2>4, <2>5 DEF AckedSegs
  <2>7. SUFFICES ASSUME NEW k \in 1 .. AckedSegs + Len(pktSts) PROVE WasSent(k)'
    BY <2>6 DEF StatusesSent
  <2>8. WasSent(k)
    BY <2>1 DEF StatusesSent, Running
  <2>9. QED
    BY <2>1, <2>8, SentKept
<1>8. CASE AckTimeout
  BY <1>2, <1>8 DEF AckTimeout
<1>9. CASE FinishSend
  <2>1. Running /\ UNCHANGED <<call, ncalls, toAck, pktSts>>
    BY <1>9, FinishFacts
  <2>2. SUFFICES ASSUME NEW k \in 1 .. AckedSegs + Len(pktSts) PROVE WasSent(k)'
    BY <2>1 DEF StatusesSent, AckedSegs
  <2>3. WasSent(k)
    BY <2>1 DEF StatusesSent, Running
  <2>4. QED
    BY <2>1, <2>3, SentKept
<1>10. CASE ReadWord
  BY <1>1, <1>10, ReadWordFacts DEF fwVars, pktVars
<1>11. CASE PktStart \/ PktWord
  <2>1. UNCHANGED <<fwVars, pktSts>>
    BY <1>11, PktStartPend, PktWordPend
  <2>2. QED
    BY <1>1, <2>1 DEF fwVars
<1>12. CASE PktDone
  <2>1. /\ UNCHANGED <<retval, call, ncalls, toAck>>
        /\ Len(pktSts') = Len(pktSts) + 1
    BY <1>12, PktDonePend, AreQueues, AppendFacts DEF fwVars
  <2>2. PICK x \in Nat : x = AckedSegs + Len(pktSts)
    BY AckedFew, Lengths
  <2>3. AckedSegs' + Len(pktSts') = x + 1
    <3>1. PICK a \in Int, s \in Nat : a = AckedSegs /\ s = Len(pktSts)
      BY AckedFew, Lengths
    <3>2. x = a + s /\ a + (s + 1) = x + 1
      BY <2>2, <3>1
    <3>3. AckedSegs' = AckedSegs
      BY <2>1 DEF AckedSegs
    <3>4. QED
      BY <2>1, <3>1, <3>2, <3>3
  <2>4. SUFFICES ASSUME retval # "idle", NEW k \in 1 .. x + 1 PROVE WasSent(k)'
    BY <2>1, <2>3 DEF StatusesSent
  <2>5. CASE k \in 1 .. x
    <3>1. WasSent(k)
      BY <2>2, <2>4, <2>5 DEF StatusesSent
    <3>2. QED
      BY <2>1, <3>1, SentKept
  <2>6. CASE k = x + 1
    BY <1>12, <2>2, <2>6, NextSent
  <2>7. QED
    BY <2>2, <2>4, <2>5, <2>6
<1>13. QED
  BY <1>3, <1>4, <1>5, <1>6, <1>7, <1>8, <1>9, <1>10, <1>11, <1>12
     DEF SendNext, Firmware, Packetizer

LEMMA HistoryStep ==
  ASSUME TypeOK, History, [SendNext]_vars
  PROVE  History'
<1>1. /\ ncalls \in Nat /\ failedAt \in Nat /\ Len(Pend) \in Nat
  BY Lengths
<1>2. CASE UNCHANGED vars
  BY <1>2 DEF vars, fwVars, pktVars, History, Pend, Running
<1>3. ASSUME UNCHANGED <<retval, ncalls, failedAt, sent>>, Pend' = Pend PROVE History'
  BY <1>3 DEF History, Running
<1>4. ASSUME Running, Fail PROVE History'
  <2>1. /\ failedAt' \in {failedAt, ncalls} /\ retval' = "failed" /\ ncalls' = ncalls
        /\ ncalls > 0 /\ sent' = sent /\ Pend' = Pend
    BY <1>4, FailFacts
  <2>2. QED
    BY <1>1, <2>1 DEF History, Running
<1>5. ASSUME NEW c \in Calls, CallSend(c) PROVE History'
  <2>1. /\ retval' = "running" /\ ncalls' = ncalls + 1 /\ UNCHANGED <<failedAt, sent>>
    BY <1>5 DEF CallSend, pktVars
  <2>2. PICK m \in Nat : Queued(m, c.dst, c.len, 0)
    BY <1>5, CallPend
  <2>3. ASSUME NEW i \in 1 .. Len(Pend') PROVE Pend'[i].call <= ncalls'
    <3>1. CASE i \in 1 .. Len(Pend)
      <4>1. Pend'[i] = Pend[i] /\ Pend[i].call <= ncalls
        BY <2>2, <3>1 DEF Queued, History
      <4>2. Pend[i].call \in Nat
        <5>1. Pend \in Seq(SegHeaders)
          BY PendFacts
        <5>2. Pend[i] \in SegHeaders
          BY <3>1, <5>1
        <5>3. QED
          BY <5>2 DEF SegHeaders
      <4>3. QED
        BY <1>1, <2>1, <4>1, <4>2
    <3>2. CASE i \notin 1 .. Len(Pend)
      <4>1. PICK k \in 1 .. m : i = Len(Pend) + k
        <5>1. Len(Pend') = Len(Pend) + m
          BY <2>2 DEF Queued
        <5>2. i - Len(Pend) \in 1 .. m /\ i = Len(Pend) + (i - Len(Pend))
          BY <1>1, <2>3, <3>2, <5>1
        <5>3. QED
          BY <5>2
      <4>2. Pend'[i].call = ncalls'
        BY <2>2, <4>1 DEF Queued, IsHeader
      <4>3. QED
        BY <1>1, <2>1, <4>2
    <3>3. QED
      BY <3>1, <3>2
  <2>4. ASSUME NEW d \in Dsts, NEW i \in 1 .. Len(sent[d])
        PROVE  sent[d][i].hdr.call <= ncalls'
    <3>1. sent \in [Dsts -> Seq(Segments)]
      BY DEF TypeOK, DeviceType
    <3>2. sent[d][i] \in Segments
      BY <2>4, <3>1
    <3>3. sent[d][i].hdr.call \in Nat
      BY <3>2 DEF Segments, SegHeaders
    <3>4. sent[d][i].hdr.call <= ncalls
      BY <2>4 DEF History
    <3>5. QED
      BY <1>1, <2>1, <3>3, <3>4
  <2>5. QED
    BY <1>1, <2>1, <2>3, <2>4 DEF History, Running
<1>6. CASE IssueFirst
  BY <1>3, <1>6, FirstPend DEF IssueFirst, StartDma, pktVars
<1>7. CASE IssueNext
  <2>1. UNCHANGED <<retval, ncalls, failedAt, sent>>
    BY <1>7 DEF IssueNext, StartDma, pktVars
  <2>2. /\ Len(Pend') = Len(Pend) + 1 /\ Pend'[Len(Pend) + 1].call = ncalls
        /\ \A i \in 1 .. Len(Pend) : Pend'[i] = Pend[i]
    BY <1>7, NextPend
  <2>3. ASSUME NEW i \in 1 .. Len(Pend') PROVE Pend'[i].call <= ncalls
    <3>1. CASE i \in 1 .. Len(Pend)
      BY <2>2, <3>1 DEF History
    <3>2. CASE i = Len(Pend) + 1
      BY <1>1, <2>2, <3>2
    <3>3. QED
      BY <1>1, <2>2, <2>3, <3>1, <3>2
  <2>4. QED
    BY <2>1, <2>3 DEF History, Running
<1>8. CASE AckDma
  BY <1>3, <1>4, <1>8, AckDmaFacts
<1>9. CASE AckPkt
  BY <1>3, <1>4, <1>9, AckPktFacts, AckPktEarly
<1>10. CASE AckTimeout
  BY <1>4, <1>10 DEF AckTimeout
<1>11. CASE FinishSend
  <2>1. /\ Running /\ retval' = "ok" /\ UNCHANGED <<ncalls, failedAt, sent>> /\ Pend' = Pend
    BY <1>11, FinishFacts
  <2>2. QED
    BY <1>1, <2>1 DEF History, Running
<1>12. CASE ReadWord
  BY <1>3, <1>12, ReadWordFacts DEF fwVars, pktVars, Pend
<1>13. CASE PktStart \/ PktWord
  <2>1. Pend' = Pend /\ UNCHANGED <<fwVars, sent>>
    BY <1>13, PktStartPend, PktWordPend
  <2>2. QED
    BY <1>3, <2>1 DEF fwVars
<1>14. CASE PktDone
  <2>1. /\ UNCHANGED <<retval, ncalls, failedAt>>
        /\ sent' = [sent EXCEPT ![pkt.hdr.dst] = Append(@, pkt)]
        /\ Pend[1] = pkt.hdr /\ Len(Pend) = Len(Pend') + 1 /\ Len(Pend') \in Nat
        /\ \A i \in 1 .. Len(Pend') : Pend'[i] = Pend[i + 1]
        /\ pkt \in Segments
    BY <1>14, PktDonePend DEF fwVars
  <2>2. pkt.hdr.call <= ncalls
    BY <2>1 DEF History
  <2>3. ASSUME NEW i \in 1 .. Len(Pend') PROVE Pend'[i].call <= ncalls
    <3>1. i + 1 \in 1 .. Len(Pend)
      BY <2>1, <2>3
    <3>2. QED
      BY <2>1, <2>3, <3>1 DEF History
  <2>4. ASSUME NEW d \in Dsts, NEW i \in 1 .. Len(sent'[d])
        PROVE  sent'[d][i].hdr.call <= ncalls
    <3>1. sent \in [Dsts -> Seq(Segments)]
      BY DEF TypeOK, DeviceType
    <3>2. sent'[d] = sent[d] \/ sent'[d] = Append(sent[d], pkt)
      BY <2>1, <2>4, <3>1
    <3>3. sent'[d][i] = pkt \/ (i \in 1 .. Len(sent[d]) /\ sent'[d][i] = sent[d][i])
      <4>1. sent[d] \in Seq(Segments)
        BY <3>1
      <4>2. CASE sent'[d] = sent[d]
        BY <2>4, <4>2
      <4>3. CASE sent'[d] = Append(sent[d], pkt)
        <5>1. /\ Len(sent'[d]) = Len(sent[d]) + 1 /\ Len(sent[d]) \in Nat
              /\ \A k \in 1 .. Len(sent[d]) : sent'[d][k] = sent[d][k]
              /\ sent'[d][Len(sent[d]) + 1] = pkt
          BY <4>3, AreQueues, AppendFacts
        <5>2. PICK l \in Nat : l = Len(sent[d]) /\ Len(sent'[d]) = l + 1
          BY <5>1
        <5>3. i \in 1 .. l \/ i = l + 1
          BY <2>4, <5>2
        <5>4. QED
          BY <5>1, <5>2, <5>3
      <4>4. QED
        BY <3>2, <4>2, <4>3
    <3>4. QED
      BY <2>2, <2>4, <3>3 DEF History
  <2>5. QED
    BY <2>1, <2>3, <2>4 DEF History, Running
<1>15. QED
  BY <1>2, <1>5, <1>6, <1>7, <1>8, <1>9, <1>10, <1>11, <1>12, <1>13, <1>14
     DEF SendNext, Firmware, Packetizer

LEMMA FailedSentStep ==
  ASSUME TypeOK, History, InStep, FailedSent, [SendNext]_vars
  PROVE  FailedSent'
<1>1. ncalls \in Nat /\ failedAt \in Nat
  BY Lengths
<1>2. ASSUME UNCHANGED <<call, ncalls, failedAt, toAck>> PROVE FailedSent'
  <2>1. SUFFICES ASSUME failedAt = ncalls, ncalls > 0, NEW k \in 1 .. AckedSegs
                 PROVE  WasSent(k)'
    BY <1>2 DEF FailedSent, AckedSegs
  <2>2. WasSent(k)
    BY <2>1 DEF FailedSent
  <2>3. QED
    BY <1>2, <2>2, SentKept
<1>3. ASSUME Running, UNCHANGED <<ncalls, failedAt>> PROVE FailedSent'
  <2>1. ~ (failedAt = ncalls /\ ncalls > 0)
    BY <1>3 DEF History, Running
  <2>2. QED
    BY <1>3, <2>1 DEF FailedSent
<1>4. ASSUME Running, Fail PROVE FailedSent'
  <2>1. /\ ncalls' = ncalls /\ ncalls > 0 /\ call' = call /\ toAck' = toAck
        /\ failedAt # 0 => failedAt' = failedAt
    BY <1>4, FailFacts
  <2>2. CASE failedAt # 0
    BY <1>3, <1>4, <2>1, <2>2
  <2>3. CASE failedAt = 0
    <3>1. SUFFICES ASSUME NEW k \in 1 .. AckedSegs PROVE WasSent(k)'
      BY <2>1 DEF FailedSent, AckedSegs
    <3>2. k \in 1 .. AckedSegs + Len(pktSts)
      <4>1. PICK a \in Nat, s \in Nat : a = AckedSegs /\ s = Len(pktSts)
        BY AckedFew, Lengths
      <4>2. \A l \in 1 .. a : l \in 1 .. a + s
        OBVIOUS
      <4>3. QED
        BY <4>1, <4>2
    <3>3. WasSent(k)
      BY <1>4, <2>3, <3>2 DEF InStep, StatusesSent, Running
    <3>4. QED
      BY <2>1, <3>3, SentKept
  <2>4. QED
    BY <2>2, <2>3
<1>5. CASE UNCHANGED vars
  BY <1>2, <1>5 DEF vars, fwVars
<1>6. ASSUME NEW c \in Calls, CallSend(c) PROVE FailedSent'
  <2>1. ncalls' = ncalls + 1 /\ failedAt' = failedAt /\ failedAt <= ncalls
    BY <1>6 DEF CallSend, History
  <2>2. QED
    BY <1>1, <2>1 DEF FailedSent
<1>7. CASE IssueFirst \/ IssueNext
  BY <1>3, <1>7 DEF IssueFirst, IssueNext, StartDma
<1>8. CASE AckDma
  BY <1>3, <1>4, <1>8, AckDmaFacts
<1>9. CASE AckPkt
  BY <1>3, <1>4, <1>9, AckPktFacts
<1>10. CASE AckTimeout
  BY <1>4, <1>10 DEF AckTimeout
<1>11. CASE FinishSend
  BY <1>3, <1>11, FinishFacts
<1>12. CASE ReadWord \/ Packetizer
  BY <1>2, <1>12, ReadWordFacts DEF Packetizer, PktStart, PktWord, PktDone, fwVars
<1>13. QED
  BY <1>5, <1>6, <1>7, <1>8, <1>9, <1>10, <1>11, <1>12
     DEF SendNext, Firmware

-----------------------------------------------------------------------------
(* The numbers that a receiver sees                                        *)

(* The headers of calls up to the first that failed come first, and run on *)
(* in the numbers of the segments already sent.                            *)
PendNumbered ==
  \A i \in 1 .. Len(Pend) :
    Counted(Pend[i]) =>
      /\ \A j \in 1 .. i : Counted(Pend[j]) /\ Pend[j].dst = Pend[i].dst
      /\ \A k \in 1 .. Len(sent[Pend[i].dst]) : Counted(sent[Pend[i].dst][k].hdr)
      /\ Pend[i].seq = Len(sent[Pend[i].dst]) + i

(* So do the segments sent.                                                *)
SentCounted ==
  \A d \in Dsts : \E n \in 0 .. Len(sent[d]) :
    \A i \in 1 .. Len(sent[d]) : i <= n <=> Counted(sent[d][i].hdr)

LEMMA AllCounted ==
  ASSUME TypeOK, SeqsRun, failedAt = 0
  PROVE  PendNumbered
<1>1. \A m : Counted(m)
  BY DEF Counted
<1>2. PICK o \in Nat, s \in Nat : o = outSeq[call.dst] /\ s = Len(pktSts)
  BY Lengths
<1>3. Len(sent[call.dst]) = o + s
  BY <1>2, Lengths DEF SeqsRun
<1>4. \A i \in 1 .. Len(Pend) : Pend[i].seq = o + s + i /\ Pend[i].dst = call.dst
  BY <1>2 DEF SeqsRun
<1>5. \A i \in 1 .. Len(Pend) : \A j \in 1 .. i : j \in 1 .. Len(Pend)
  BY Lengths
<1>6. QED
  BY <1>1, <1>3, <1>4, <1>5 DEF PendNumbered

(* All that was queued and sent is of calls up to the first that failed.   *)
FirstCalls == failedAt # 0 => PendNumbered /\ SentCounted

LEMMA FailedStays ==
  ASSUME TypeOK, History, [SendNext]_vars
  PROVE  failedAt' = failedAt \/ (failedAt = 0 /\ Running /\ Fail)
<1>1. Running /\ Fail => failedAt' = failedAt \/ failedAt = 0
  BY FailFacts
<1>2. CASE UNCHANGED vars
  BY <1>2 DEF vars, fwVars
<1>3. CASE AckDma
  BY <1>1, <1>3, AckDmaFacts
<1>4. CASE AckPkt
  BY <1>1, <1>4, AckPktFacts
<1>5. CASE AckTimeout
  BY <1>1, <1>5 DEF AckTimeout
<1>6. CASE (\E c \in Calls : CallSend(c)) \/ IssueFirst \/ IssueNext \/ FinishSend
  BY <1>6 DEF CallSend, IssueFirst, IssueNext, StartDma, FinishSend
<1>7. CASE ReadWord \/ Packetizer
  BY <1>7, ReadWordFacts DEF Packetizer, PktStart, PktWord, PktDone, fwVars
<1>8. QED
  BY <1>2, <1>3, <1>4, <1>5, <1>6, <1>7 DEF SendNext, Firmware

(* The first failure: all so far counts.                                   *)
LEMMA FirstFailure ==
  ASSUME TypeOK, History, SeqsRun, failedAt = 0, Running, Fail
  PROVE  PendNumbered' /\ SentCounted'
<1>1. /\ failedAt' = ncalls /\ failedAt' # 0 /\ sent' = sent /\ Pend' = Pend
  BY FailFacts
<1>2. \A i \in 1 .. Len(Pend) : Pend[i].call <= failedAt'
  BY <1>1 DEF History
<1>3. \A d \in Dsts : \A i \in 1 .. Len(sent[d]) : sent[d][i].hdr.call <= failedAt'
  BY <1>1 DEF History
<1>4. \A i \in 1 .. Len(Pend) : Pend[i].dst \in Dsts
  <2>1. Pend \in Seq(SegHeaders)
    BY PendFacts
  <2>2. \A i \in 1 .. Len(Pend) : Pend[i] \in SegHeaders
    BY <2>1
  <2>3. QED
    BY <2>2 DEF SegHeaders
<1>5. PendNumbered'
  <2>1. SUFFICES ASSUME NEW i \in 1 .. Len(Pend)
                 PROVE  /\ \A j \in 1 .. i : /\ Pend[j].call <= failedAt'
                                             /\ Pend[j].dst = Pend[i].dst
                        /\ \A k \in 1 .. Len(sent[Pend[i].dst]) :
                             sent[Pend[i].dst][k].hdr.call <= failedAt'
                        /\ Pend[i].seq = Len(sent[Pend[i].dst]) + i
    BY <1>1 DEF PendNumbered, Counted
  <2>2. /\ \A j \in 1 .. i : Pend[j].dst = Pend[i].dst
        /\ Pend[i].seq = Len(sent[Pend[i].dst]) + i
    BY AllCounted DEF PendNumbered, Counted
  <2>3. \A j \in 1 .. i : j \in 1 .. Len(Pend)
    BY Lengths
  <2>4. QED
    BY <1>2, <1>3, <1>4, <2>2, <2>3
<1>6. SentCounted'
  <2>1. SUFFICES ASSUME NEW d \in Dsts
                 PROVE  \E n \in 0 .. Len(sent[d]) :
                          \A i \in 1 .. Len(sent[d]) :
                            i <= n <=> (failedAt' = 0 \/ sent[d][i].hdr.call <= failedAt')
    BY <1>1 DEF SentCounted, Counted
  <2>2. sent \in [Dsts -> Seq(Segments)]
    BY DEF TypeOK, DeviceType
  <2>3. PICK n \in Nat : n = Len(sent[d])
    BY <2>2
  <2>4. n \in 0 .. n /\ \A i \in 1 .. n : i <= n
    BY <2>3
  <2>5. QED
    BY <1>3, <2>1, <2>3, <2>4
<1>7. QED
  BY <1>5, <1>6

LEMMA PendNumberedStep ==
  ASSUME TypeOK, History, failedAt # 0, failedAt' = failedAt, PendNumbered,
         [SendNext]_vars
  PROVE  PendNumbered'
<1>1. ncalls \in Nat /\ failedAt \in Nat /\ Len(Pend) \in Nat
  BY Lengths
<1>2. ASSUME sent' = sent, Pend' = Pend PROVE PendNumbered'
  BY <1>2 DEF PendNumbered, Counted
<1>3. ASSUME sent' = sent, Len(Pend') \in Nat, Len(Pend) <= Len(Pend'),
             \A i \in 1 .. Len(Pend) : Pend'[i] = Pend[i],
             \A i \in 1 .. Len(Pend') : i > Len(Pend) => ~ (Pend'[i].call <= failedAt)
      PROVE  PendNumbered'
  <2>1. SUFFICES ASSUME NEW i \in 1 .. Len(Pend'), Pend'[i].call <= failedAt
                 PROVE  /\ \A j \in 1 .. i : /\ Pend'[j].call <= failedAt
                                             /\ Pend'[j].dst = Pend'[i].dst
                        /\ \A k \in 1 .. Len(sent[Pend'[i].dst]) :
                             sent[Pend'[i].dst][k].hdr.call <= failedAt
                        /\ Pend'[i].seq = Len(sent[Pend'[i].dst]) + i
    BY <1>3 DEF PendNumbered, Counted
  <2>2. i \in 1 .. Len(Pend)
    <3>1. SUFFICES ASSUME i > Len(Pend) PROVE FALSE
      BY <1>1, <2>1
    <3>2. ~ (Pend'[i].call <= failedAt)
      BY <1>3, <2>1, <3>1
    <3>3. QED
      BY <1>1, <2>1, <3>2
  <2>3. \A j \in 1 .. i : j \in 1 .. Len(Pend)
    BY <1>1, <2>2
  <2>4. Pend'[i] = Pend[i] /\ \A j \in 1 .. i : Pend'[j] = Pend[j]
    BY <1>3, <2>2, <2>3
  <2>5. Counted(Pend[i])
    BY <2>1, <2>4 DEF Counted
  <2>6. /\ \A j \in 1 .. i : Counted(Pend[j]) /\ Pend[j].dst = Pend[i].dst
        /\ \A k \in 1 .. Len(sent[Pend[i].dst]) : Counted(sent[Pend[i].dst][k].hdr)
        /\ Pend[i].seq = Len(sent[Pend[i].dst]) + i
    BY <2>2, <2>5 DEF PendNumbered
  <2>7. \A m : Counted(m) <=> m.call <= failedAt
    BY DEF Counted
  <2>8. QED
    BY <2>4, <2>6, <2>7
<1>4. CASE UNCHANGED vars
  BY <1>2, <1>4 DEF vars, pktVars, Pend
<1>5. ASSUME NEW c \in Calls, CallSend(c) PROVE PendNumbered'
  <2>1. ncalls' = ncalls + 1 /\ sent' = sent
    BY <1>5 DEF CallSend, pktVars
  <2>2. PICK m \in Nat : Queued(m, c.dst, c.len, 0)
    BY <1>5, CallPend
  <2>3. Len(Pend') = Len(Pend) + m
    BY <2>2 DEF Queued
  <2>4. ASSUME NEW i \in 1 .. Len(Pend'), i > Len(Pend)
        PROVE  ~ (Pend'[i].call <= failedAt)
    <3>1. PICK k \in 1 .. m : i = Len(Pend) + k
      <4>1. i - Len(Pend) \in 1 .. m /\ i = Len(Pend) + (i - Len(Pend))
        BY <1>1, <2>3, <2>4
      <4>2. QED
        BY <4>1
    <3>2. Pend'[i].call = ncalls'
      BY <2>2, <3>1 DEF Queued, IsHeader
    <3>3. QED
      BY <1>1, <2>1, <3>2 DEF History
  <2>5. Len(Pend') \in Nat /\ Len(Pend) <= Len(Pend')
    BY <1>1, <2>3
  <2>6. \A i \in 1 .. Len(Pend) : Pend'[i] = Pend[i]
    BY <2>2 DEF Queued
  <2>7. QED
    BY <1>3, <2>1, <2>4, <2>5, <2>6
<1>6. CASE IssueFirst
  BY <1>2, <1>6, FirstPend DEF IssueFirst, StartDma, pktVars
<1>7. CASE IssueNext
  <2>1. sent' = sent /\ Running
    BY <1>7 DEF IssueNext, StartDma, pktVars
  <2>2. /\ Len(Pend') = Len(Pend) + 1 /\ Pend'[Len(Pend) + 1].call = ncalls
        /\ \A i \in 1 .. Len(Pend) : Pend'[i] = Pend[i]
    BY <1>7, NextPend
  <2>3. failedAt < ncalls
    BY <1>1, <2>1 DEF History, Running
  <2>4. \A i \in 1 .. Len(Pend') : i > Len(Pend) => ~ (Pend'[i].call <= failedAt)
    <3>1. \A i \in 1 .. Len(Pend') : i > Len(Pend) => i = Len(Pend) + 1
      BY <1>1, <2>2
    <3>2. QED
      BY <1>1, <2>2, <2>3, <3>1
  <2>5. Len(Pend') \in Nat /\ Len(Pend) <= Len(Pend')
    BY <1>1, <2>2
  <2>6. QED
    BY <1>3, <2>1, <2>2, <2>4, <2>5
<1>8. CASE AckDma
  BY <1>2, <1>8, AckDmaFacts, FailFacts
<1>9. CASE AckPkt
  BY <1>2, <1>9, AckPktFacts, AckPktEarly, FailFacts
<1>10. CASE AckTimeout
  BY <1>2, <1>10, FailFacts DEF AckTimeout
<1>11. CASE FinishSend
  BY <1>2, <1>11, FinishFacts
<1>12. CASE ReadWord
  BY <1>2, <1>12, ReadWordFacts DEF pktVars, Pend
<1>13. CASE PktStart \/ PktWord
  BY <1>2, <1>13, PktStartPend, PktWordPend
<1>14. CASE PktDone
  <2>1. /\ sent' = [sent EXCEPT ![pkt.hdr.dst] = Append(@, pkt)]
        /\ Pend[1] = pkt.hdr /\ Len(Pend) = Len(Pend') + 1 /\ Len(Pend') \in Nat
        /\ \A i \in 1 .. Len(Pend') : Pend'[i] = Pend[i + 1]
        /\ pkt \in Segments
    BY <1>14, PktDonePend
  <2>2. SUFFICES ASSUME NEW i \in 1 .. Len(Pend'), Pend'[i].call <= failedAt
                 PROVE  /\ \A j \in 1 .. i : /\ Pend'[j].call <= failedAt
                                             /\ Pend'[j].dst = Pend'[i].dst
                        /\ \A k \in 1 .. Len(sent'[Pend'[i].dst]) :
                             sent'[Pend'[i].dst][k].hdr.call <= failedAt
                        /\ Pend'[i].seq = Len(sent'[Pend'[i].dst]) + i
    BY DEF PendNumbered, Counted
  <2>3. PICK h \in 1 .. Len(Pend) : h = i + 1 /\ Pend'[i] = Pend[h] /\ h \in Nat /\ i \in Nat
    BY <2>1, <2>2
  <2>4. Counted(Pend[h])
    BY <2>2, <2>3 DEF Counted
  <2>5. /\ \A j \in 1 .. h : Counted(Pend[j]) /\ Pend[j].dst = Pend[h].dst
        /\ \A k \in 1 .. Len(sent[Pend[h].dst]) : Counted(sent[Pend[h].dst][k].hdr)
        /\ Pend[h].seq = Len(sent[Pend[h].dst]) + h
    BY <2>3, <2>4 DEF PendNumbered
  <2>6. \A j \in 1 .. i : /\ Pend'[j].call <= failedAt /\ Pend'[j].dst = Pend'[i].dst
    <3>1. \A j \in 1 .. i : j + 1 \in 1 .. h /\ j \in 1 .. Len(Pend')
      BY <2>1, <2>3
    <3>2. QED
      BY <2>1, <2>3, <2>5, <3>1 DEF Counted
  <2>7. PICK d : d = pkt.hdr.dst /\ Pend[h].dst = d /\ pkt.hdr.call <= failedAt /\ d \in Dsts
    <3>1. 1 \in 1 .. h /\ pkt.hdr.dst \in Dsts
      BY <2>1, <2>3 DEF Segments, SegHeaders
    <3>2. QED
      BY <2>1, <2>5, <3>1 DEF Counted
  <2>8. sent'[d] = Append(sent[d], pkt)
    <3>1. sent \in [Dsts -> Seq(Segments)]
      BY DEF TypeOK, DeviceType
    <3>2. QED
      BY <2>1, <2>7, <3>1
  <2>9. /\ Len(sent'[d]) = Len(sent[d]) + 1 /\ Len(sent[d]) \in Nat
        /\ \A k \in 1 .. Len(sent[d]) : sent'[d][k] = sent[d][k]
        /\ sent'[d][Len(sent[d]) + 1] = pkt
    BY <2>7, <2>8, AreQueues, AppendFacts
  <2>10. PICK l \in Nat : l = Len(sent[d]) /\ Len(sent'[d]) = l + 1
    BY <2>9
  <2>11. \A k \in 1 .. l + 1 : sent'[d][k].hdr.call <= failedAt
    <3>1. SUFFICES ASSUME NEW k \in 1 .. l + 1 PROVE sent'[d][k].hdr.call <= failedAt
      OBVIOUS
    <3>2. k \in 1 .. l \/ k = l + 1
      OBVIOUS
    <3>3. QED
      BY <2>5, <2>7, <2>9, <2>10, <3>2 DEF Counted
  <2>12. Pend'[i].seq = (l + 1) + i
    <3>1. l + (i + 1) = (l + 1) + i
      BY <2>3
    <3>2. QED
      BY <2>3, <2>5, <2>7, <2>10, <3>1
  <2>13. QED
    BY <2>3, <2>6, <2>7, <2>10, <2>11, <2>12
<1>15. QED
  BY <1>4, <1>5, <1>6, <1>7, <1>8, <1>9, <1>10, <1>11, <1>12, <1>13, <1>14
     DEF SendNext, Firmware, Packetizer

LEMMA SentCountedStep ==
  ASSUME TypeOK, History, failedAt # 0, failedAt' = failedAt, PendNumbered, SentCounted,
         [SendNext]_vars
  PROVE  SentCounted'
<1>1. CASE ~ PktDone
  <2>1. sent' = sent
    BY <1>1, SentGrows
  <2>2. QED
    BY <2>1 DEF SentCounted, Counted
<1>2. CASE PktDone
  <2>1. /\ sent' = [sent EXCEPT ![pkt.hdr.dst] = Append(@, pkt)]
        /\ Pend[1] = pkt.hdr /\ Len(Pend) = Len(Pend') + 1 /\ Len(Pend') \in Nat
        /\ pkt \in Segments
    BY <1>2, PktDonePend
  <2>2. SUFFICES ASSUME NEW d \in Dsts
                 PROVE  \E n \in 0 .. Len(sent'[d]) :
                          \A i \in 1 .. Len(sent'[d]) :
                            i <= n <=> sent'[d][i].hdr.call <= failedAt
    BY DEF SentCounted, Counted
  <2>3. PICK n \in 0 .. Len(sent[d]) :
          \A i \in 1 .. Len(sent[d]) : i <= n <=> sent[d][i].hdr.call <= failedAt
    BY DEF SentCounted, Counted
  <2>4. sent \in [Dsts -> Seq(Segments)]
    BY DEF TypeOK, DeviceType
  <2>5. CASE d # pkt.hdr.dst
    BY <2>1, <2>3, <2>4, <2>5
  <2>6. CASE d = pkt.hdr.dst
    <3>1. /\ Len(sent'[d]) = Len(sent[d]) + 1 /\ Len(sent[d]) \in Nat
          /\ \A k \in 1 .. Len(sent[d]) : sent'[d][k] = sent[d][k]
          /\ sent'[d][Len(sent[d]) + 1] = pkt
      <4>1. sent'[d] = Append(sent[d], pkt)
        BY <2>1, <2>4, <2>6
      <4>2. QED
        BY <4>1, AreQueues, AppendFacts
    <3>2. PICK l \in Nat : l = Len(sent[d]) /\ Len(sent'[d]) = l + 1
      BY <3>1
    <3>3. CASE pkt.hdr.call <= failedAt
      <4>1. \A k \in 1 .. l : sent[d][k].hdr.call <= failedAt
        <5>1. 1 \in 1 .. Len(Pend)
          BY <2>1
        <5>2. QED
          BY <2>1, <2>6, <3>2, <3>3, <5>1 DEF PendNumbered, Counted
      <4>2. \A k \in 1 .. l + 1 : sent'[d][k].hdr.call <= failedAt /\ k <= l + 1
        <5>1. \A k \in 1 .. l + 1 : (k \in 1 .. l \/ k = l + 1) /\ k <= l + 1
          OBVIOUS
        <5>2. QED
          BY <3>1, <3>2, <3>3, <4>1, <5>1
      <4>3. l + 1 \in 0 .. l + 1
        OBVIOUS
      <4>4. QED
        BY <3>2, <4>2, <4>3
    <3>4. CASE ~ (pkt.hdr.call <= failedAt)
      <4>1. n \in Nat /\ n <= l /\ n \in 0 .. l + 1
        BY <2>3, <3>2
      <4>2. ASSUME NEW k \in 1 .. l + 1
            PROVE  k <= n <=> sent'[d][k].hdr.call <= failedAt
        <5>1. CASE k \in 1 .. l
          BY <2>3, <3>1, <3>2, <5>1
        <5>2. CASE k = l + 1
          BY <3>1, <3>2, <3>4, <4>1, <5>2
        <5>3. QED
          BY <4>2, <5>1, <5>2
      <4>3. QED
        BY <3>2, <4>1, <4>2
    <3>5. QED
      BY <3>3, <3>4
  <2>7. QED
    BY <2>5, <2>6
<1>3. QED
  BY <1>1, <1>2

-----------------------------------------------------------------------------
(* The whole invariant                                                     *)

SendInv ==
  /\ TypeOK /\ FlowInv /\ SentIntact
  /\ History /\ InStep /\ FailedSent /\ FirstCalls

LEMMA InvInit == SendInit => SendInv
<1> SUFFICES ASSUME SendInit PROVE SendInv
  OBVIOUS
<1>1. /\ retval = "idle" /\ ncalls = 0 /\ toMove = 0 /\ toAck = 0 /\ inFlight = 0
      /\ waitPkt = FALSE /\ failedAt = 0 /\ dma_tag = 0 /\ dma_tag_tmp = 0
      /\ outSeq = [d \in Dsts |-> 0] /\ sent = [d \in Dsts |-> <<>>]
      /\ readQ = <<>> /\ rdSts = <<>> /\ pktSts = <<>> /\ hdrQ = <<>> /\ pkt = NoPkt
  BY DEF SendInit
<1>2. Len(<<>>) = 0 /\ 1 .. 0 = {} /\ 1 .. Len(<<>>) = {}
  OBVIOUS
<1>3. Pend = <<>> /\ Early = 0
  BY <1>1 DEF Pend, Early, Running
<1>4. TypeOK /\ FlowInv
  BY TypeInit, FlowInit
<1>5. \A d \in Dsts : sent[d] = <<>> /\ outSeq[d] = 0
  BY <1>1
<1>6. SentIntact
  BY <1>2, <1>5 DEF SentIntact
<1>7. History
  BY <1>1, <1>2, <1>3, <1>5 DEF History, Running
<1>8. Counts
  BY <1>1, <1>2, <1>3 DEF Counts, Running
<1>9. SeqsRun
  BY <1>1, <1>2, <1>3, <1>5 DEF SeqsRun
<1>10. TagsRun
  <2>1. 0 < TagMod /\ TagMod \in Nat
    BY SendAssumption
  <2>2. (0 + (0 + 0)) % TagMod = 0
    BY <2>1
  <2>3. QED
    BY <1>1, <1>2, <2>1, <2>2 DEF TagsRun, TagAfter
<1>11. InStep
  BY <1>1, <1>8, <1>9, <1>10 DEF InStep, StatusesSent
<1>12. QED
  BY <1>1, <1>4, <1>6, <1>7, <1>11 DEF SendInv, FailedSent, FirstCalls

LEMMA InStepStep ==
  ASSUME TypeOK, FlowInv, History, InStep, [SendNext]_vars
  PROVE  InStep'
<1>1. SUFFICES ASSUME failedAt' = 0 PROVE (Counts /\ SeqsRun /\ TagsRun /\ StatusesSent)'
  BY DEF InStep
<1>2. failedAt = 0
  BY <1>1, FailedStays, FailFacts
<1>3. Counts /\ SeqsRun /\ TagsRun /\ StatusesSent
  BY <1>2 DEF InStep
<1>4. QED
  BY <1>1, <1>2, <1>3, CountsStep, SeqsStep, TagsStep, StatusesSentStep

LEMMA FirstCallsStep ==
  ASSUME TypeOK, History, InStep, FirstCalls, [SendNext]_vars
  PROVE  FirstCalls'
<1>1. CASE failedAt = 0 /\ Running /\ Fail
  BY <1>1, FirstFailure DEF FirstCalls, InStep
<1>2. CASE failedAt' = failedAt
  BY <1>2, PendNumberedStep, SentCountedStep DEF FirstCalls
<1>3. QED
  BY <1>1, <1>2, FailedStays

LEMMA InvStep == ASSUME SendInv, [SendNext]_vars PROVE SendInv'
<1>1. /\ TypeOK /\ FlowInv /\ SentIntact
      /\ History /\ InStep /\ FailedSent /\ FirstCalls
  BY DEF SendInv
<1>2. TypeOK' /\ FlowInv' /\ SentIntact'
  BY <1>1, TypeStep, FlowStep, SentIntactStep
<1>3. History' /\ InStep' /\ FailedSent' /\ FirstCalls'
  BY <1>1, HistoryStep, InStepStep, FailedSentStep, FirstCallsStep
<1>4. QED
  BY <1>2, <1>3 DEF SendInv

(* A call that succeeds, none having failed, has left all queues empty.    *)
LEMMA EmptyAfter ==
  ASSUME SendInv, retval = "ok", Undisturbed
  PROVE  /\ failedAt = 0 /\ Len(pktSts) = 0 /\ Len(rdSts) = 0
         /\ readQ = <<>> /\ rdSts = <<>> /\ strm = <<>> /\ hdrQ = <<>>
         /\ pkt = NoPkt /\ pktSts = <<>> /\ dma_tag = dma_tag_tmp
<1>1. TypeOK /\ FlowInv /\ History /\ InStep /\ ncalls \in Nat /\ failedAt \in Nat
  BY Lengths DEF SendInv
<1>2. failedAt = 0
  BY <1>1 DEF Undisturbed, History
<1>3. Counts /\ TagsRun
  BY <1>1, <1>2 DEF InStep
<1>4. /\ Len(pktSts) = 0 /\ Len(Pend) = 0 /\ Len(rdSts) = 0 /\ Len(readQ) = 0
      /\ Early = 0
  BY <1>1, <1>3, EndedFacts DEF Running
<1>5. readQ = <<>> /\ rdSts = <<>> /\ pktSts = <<>>
  BY <1>1, <1>4, AreQueues, EmptyFacts
<1>6. pkt = NoPkt /\ hdrQ = <<>>
  <2>1. Len(hdrQ) \in Nat /\ IsSeq(hdrQ)
    BY <1>1 DEF TypeOK, DeviceType, IsSeq
  <2>2. pkt = NoPkt
    BY <1>1, <1>4, <2>1, PendFacts
  <2>3. QED
    BY <1>1, <1>4, <2>1, <2>2, PendFacts, EmptyFacts
<1>7. strm = <<>>
  <2>1. PICK n, seg, from, p, r : Flow(n, seg, from, p, r)
    BY <1>1 DEF FlowInv
  <2>2. /\ n \in Nat /\ p \in 1 .. n + 1 /\ r \in 1 .. n + 1 /\ from[n + 1] \in Nat
        /\ Len(readQ) + r = n + 1 /\ rdWords = 0 /\ Len(Pend) + p = n + 1 + Early
        /\ Len(strm) + from[p] + Taken = from[r] + rdWords
    BY <1>5, <2>1 DEF Flow, Cuts, ReadsCut, HeadersCut, WordsCut
  <2>3. p = n + 1 /\ r = n + 1
    BY <1>4, <2>2
  <2>4. Taken = 0
    BY <1>1, <1>6, PendFacts
  <2>5. Len(strm) \in Nat /\ IsSeq(strm)
    BY <1>1 DEF TypeOK, DeviceType, IsSeq
  <2>6. Len(strm) = 0
    BY <2>2, <2>3, <2>4, <2>5
  <2>7. QED
    BY <2>5, <2>6, EmptyFacts
<1>8. dma_tag = dma_tag_tmp
  <2>1. dma_tag \in Nat /\ dma_tag < TagMod /\ TagMod \in Nat
    BY <1>1, <1>3, SendAssumption DEF TypeOK, FwType, TagsRun
  <2>2. dma_tag_tmp = TagAfter(dma_tag, 0 + 0)
    BY <1>3, <1>4 DEF TagsRun
  <2>3. QED
    BY <2>1, <2>2 DEF TagAfter
<1>9. QED
  BY <1>2, <1>4, <1>5, <1>6, <1>7, <1>8

LEMMA LeftNothing == ASSUME SendInv PROVE NothingLeft
<1>1. SUFFICES ASSUME retval = "ok", Undisturbed
               PROVE  /\ readQ = <<>> /\ rdSts = <<>> /\ strm = <<>> /\ hdrQ = <<>>
                      /\ pkt = NoPkt /\ pktSts = <<>> /\ dma_tag = dma_tag_tmp
                      /\ \A d \in Dsts : outSeq[d] = Len(sent[d])
  BY DEF NothingLeft
<1>2. failedAt = 0 /\ Len(pktSts) = 0
  BY <1>1, EmptyAfter
<1>3. SeqsRun /\ TypeOK
  BY <1>2 DEF SendInv, InStep
<1>4. \A d \in Dsts : outSeq[d] \in Nat
  BY <1>3 DEF TypeOK, FwType
<1>5. \A d \in Dsts : outSeq[d] = Len(sent[d])
  <2>1. SUFFICES ASSUME NEW d \in Dsts PROVE outSeq[d] = Len(sent[d])
    OBVIOUS
  <2>2. Len(sent[d]) = outSeq[d] + 0
    BY <1>2, <1>3 DEF SeqsRun
  <2>3. QED
    BY <1>4, <2>2
<1>6. QED
  BY <1>1, <1>5, EmptyAfter

LEMMA AckedWasSent == ASSUME SendInv PROVE AckMeansSent
<1>1. TypeOK /\ History /\ InStep /\ FailedSent /\ ncalls \in Nat /\ failedAt \in Nat
  BY Lengths DEF SendInv
<1>2. SUFFICES ASSUME retval # "idle", Undisturbed, NEW k \in 1 .. AckedSegs
               PROVE  \E i \in SentOfCall(ncalls) :
                        sent[call.dst][i].data[1].off = (k - 1) * TxnSize
  BY DEF AckMeansSent, AckedSegs
<1>3. WasSent(k)
  <2>1. CASE failedAt = 0
    <3>1. k \in 1 .. AckedSegs + Len(pktSts)
      BY <1>1, <1>2, AckedFew, Lengths
    <3>2. QED
      BY <1>1, <1>2, <2>1, <3>1 DEF InStep, StatusesSent
  <2>2. CASE failedAt # 0
    BY <1>1, <1>2, <2>2 DEF Undisturbed, FailedSent
  <2>3. QED
    BY <2>1, <2>2
<1>4. sent[call.dst] \in Seq(Segments)
  BY <1>1, Lengths DEF TypeOK, DeviceType
<1>5. DOMAIN sent[call.dst] = 1 .. Len(sent[call.dst])
  BY <1>4
<1>6. QED
  BY <1>3, <1>5 DEF WasSent, SentOfCall

-----------------------------------------------------------------------------
(* The segments that count are emitted in order                            *)

(* The first n segments sent to d, and no others, are counted.             *)
CountIs(d, n) ==
  /\ n \in 0 .. Len(sent[d])
  /\ \A i \in DOMAIN sent[d] : i <= n <=> Counted(sent[d][i].hdr)

LEMMA OneCount ==
  ASSUME NEW s, IsSeq(s), NEW P, NEW m \in 0 .. Len(s), NEW n \in 0 .. Len(s),
         \A i \in DOMAIN s : i <= m <=> i \in P,
         \A i \in DOMAIN s : i <= n <=> i \in P
  PROVE  m = n
<1>1. Len(s) \in Nat /\ DOMAIN s = 1 .. Len(s)
  BY DEF IsSeq
<1>2. CASE m < n
  <2>1. m + 1 \in DOMAIN s /\ m + 1 <= n /\ ~ (m + 1 <= m)
    BY <1>1, <1>2
  <2>2. QED
    BY <2>1
<1>3. CASE n < m
  <2>1. n + 1 \in DOMAIN s /\ n + 1 <= m /\ ~ (n + 1 <= n)
    BY <1>1, <1>3
  <2>2. QED
    BY <2>1
<1>4. QED
  BY <1>1, <1>2, <1>3

(* What Numbers(d) is.                                                     *)
LEMMA CountFacts ==
  ASSUME TypeOK, NEW d \in Dsts, NEW n, CountIs(d, n)
  PROVE  CountedSent(d) = n /\ Numbers(d) = [i \in 1 .. n |-> sent[d][i].hdr.seq]
<1>1. sent[d] \in Seq(Segments)
  BY DEF TypeOK, DeviceType
<1>2. IsSeq(sent[d])
  BY <1>1 DEF IsSeq
<1>3. PICK m : m = CountedSent(d)
  OBVIOUS
<1>4. CountIs(d, m)
  BY <1>3 DEF CountedSent, CountIs
<1>5. PICK P : P = {i \in DOMAIN sent[d] : Counted(sent[d][i].hdr)}
  OBVIOUS
<1>6. /\ \A i \in DOMAIN sent[d] : i <= m <=> i \in P
      /\ \A i \in DOMAIN sent[d] : i <= n <=> i \in P
  BY <1>4, <1>5 DEF CountIs
<1>7. m = n
  BY <1>2, <1>4, <1>6, OneCount DEF CountIs
<1>8. QED
  BY <1>3, <1>7 DEF Numbers

NumbersAre ==
  \A d \in Dsts : \A n :
    CountIs(d, n) => Numbers(d) = [i \in 1 .. n |-> sent[d][i].hdr.seq]

LEMMA NumbersOf == TypeOK => NumbersAre
  BY CountFacts DEF NumbersAre

LEMMA NumbersOfNext == TypeOK' => NumbersAre'
  BY NumbersOf, PTL

(* How many are counted, and where the next one goes.                      *)
LEMMA SomeCount == ASSUME SendInv, NEW d \in Dsts PROVE \E n : CountIs(d, n)
<1>1. sent[d] \in Seq(Segments)
  BY DEF SendInv, TypeOK, DeviceType
<1>2. DOMAIN sent[d] = 1 .. Len(sent[d]) /\ Len(sent[d]) \in Nat
  BY <1>1
<1>3. CASE failedAt = 0
  <2>1. CountIs(d, Len(sent[d]))
    BY <1>2, <1>3 DEF CountIs, Counted
  <2>2. QED
    BY <2>1
<1>4. CASE failedAt # 0
  <2>1. SentCounted
    BY <1>4 DEF SendInv, FirstCalls
  <2>2. QED
    BY <1>2, <2>1 DEF SentCounted, CountIs
<1>5. QED
  BY <1>3, <1>4

LEMMA NumberedPend == ASSUME SendInv PROVE PendNumbered
<1>1. CASE failedAt = 0
  BY <1>1, AllCounted DEF SendInv, InStep
<1>2. CASE failedAt # 0
  BY <1>2 DEF SendInv, FirstCalls
<1>3. QED
  BY <1>1, <1>2

(* What a failure leaves uncounted is yet to come.                         *)
LEMMA CountKept ==
  ASSUME SendInv, [SendNext]_vars, NEW d \in Dsts, NEW n, CountIs(d, n),
         sent'[d] = sent[d]
  PROVE  CountIs(d, n)'
<1>1. TypeOK /\ History
  BY DEF SendInv
<1>2. sent[d] \in Seq(Segments)
  BY <1>1 DEF TypeOK, DeviceType
<1>3. DOMAIN sent[d] = 1 .. Len(sent[d])
  BY <1>2
<1>4. CASE failedAt' = failedAt
  BY <1>4 DEF CountIs, Counted
<1>5. CASE failedAt = 0 /\ Running /\ Fail
  <2>1. failedAt' = ncalls
    BY <1>1, <1>5, FailFacts
  <2>2. ASSUME NEW i \in DOMAIN sent[d]
        PROVE  i <= n /\ sent[d][i].hdr.call <= failedAt'
    BY <1>1, <1>3, <1>5, <2>1 DEF CountIs, Counted, History
  <2>3. QED
    BY <2>2 DEF CountIs, Counted
<1>6. QED
  BY <1>1, <1>4, <1>5, FailedStays

LEMMA NumbersKept ==
  ASSUME SendInv, SendInv', [SendNext]_vars, NEW d \in Dsts, sent'[d] = sent[d]
  PROVE  Numbers(d)' = Numbers(d)
<1>1. PICK n : CountIs(d, n)
  BY SomeCount
<1>2. CountIs(d, n)'
  BY <1>1, CountKept
<1>3. TypeOK /\ TypeOK'
  BY DEF SendInv
<1>4. QED
  BY <1>1, <1>2, <1>3, NumbersOf, NumbersOfNext DEF NumbersAre

LEMMA NumbersDone ==
  ASSUME SendInv, SendInv', PktDone, NEW d \in Dsts, d = pkt.hdr.dst
  PROVE  Numbers(d)' = Numbers(d) \/ Numbers(d)' = Append(Numbers(d), Len(Numbers(d)) + 1)
<1>1. TypeOK /\ TypeOK' /\ PendNumbered
  BY NumberedPend DEF SendInv
<1>2. /\ sent' = [sent EXCEPT ![pkt.hdr.dst] = Append(@, pkt)]
      /\ Pend[1] = pkt.hdr /\ Len(Pend) = Len(Pend') + 1 /\ Len(Pend') \in Nat
      /\ pkt \in Segments /\ failedAt' = failedAt
  BY <1>1, PktDonePend DEF PktDone, fwVars
<1>3. 1 \in 1 .. Len(Pend)
  BY <1>2
<1>4. sent[d] \in Seq(Segments) /\ sent'[d] = Append(sent[d], pkt)
  BY <1>1, <1>2 DEF TypeOK, DeviceType
<1>5. PICK l \in Nat : /\ l = Len(sent[d]) /\ Len(sent'[d]) = l + 1
                       /\ DOMAIN sent[d] = 1 .. l /\ DOMAIN sent'[d] = 1 .. l + 1
                       /\ \A i \in 1 .. l : sent'[d][i] = sent[d][i]
                       /\ sent'[d][l + 1] = pkt
  BY <1>4
<1>6. PICK n : CountIs(d, n)
  BY SomeCount
<1>7. n \in 0 .. l /\ \A i \in 1 .. l : i <= n <=> Counted(sent[d][i].hdr)
  BY <1>5, <1>6 DEF CountIs
<1>8. Numbers(d) = [i \in 1 .. n |-> sent[d][i].hdr.seq]
  BY <1>1, <1>6, NumbersOf DEF NumbersAre
<1>9. CASE Counted(pkt.hdr)
  <2>1. /\ \A k \in 1 .. l : Counted(sent[d][k].hdr)
        /\ pkt.hdr.seq = l + 1
    BY <1>1, <1>2, <1>3, <1>5, <1>9 DEF PendNumbered
  <2>2. n = l
    <3>1. SUFFICES ASSUME n < l PROVE FALSE
      BY <1>7
    <3>2. n + 1 \in 1 .. l /\ ~ (n + 1 <= n)
      BY <1>7, <3>1
    <3>3. QED
      BY <1>7, <2>1, <3>2
  <2>3. CountIs(d, l + 1)'
    <3>1. \A i \in 1 .. l + 1 : i <= l + 1 /\ (i \in 1 .. l \/ i = l + 1)
      OBVIOUS
    <3>2. \A i \in 1 .. l + 1 : Counted(sent'[d][i].hdr)
      BY <1>5, <1>9, <2>1, <3>1
    <3>3. l + 1 \in 0 .. l + 1
      OBVIOUS
    <3>4. QED
      BY <1>2, <1>5, <3>1, <3>2, <3>3 DEF CountIs, Counted
  <2>4. Numbers(d)' = [i \in 1 .. l + 1 |-> sent'[d][i].hdr.seq]
    BY <1>1, <2>3, NumbersOfNext DEF NumbersAre
  <2>5. Numbers(d) = [i \in 1 .. l |-> sent[d][i].hdr.seq]
    BY <1>8, <2>2
  <2>6. Numbers(d) \in Seq(Nat) /\ Len(Numbers(d)) = l
    <3>1. \A i \in 1 .. l : sent[d][i].hdr.seq \in Nat
      <4>1. \A i \in 1 .. l : sent[d][i] \in Segments
        BY <1>4, <1>5
      <4>2. QED
        BY <4>1 DEF Segments, SegHeaders
    <3>2. QED
      BY <2>5, <3>1
  <2>7. Append(Numbers(d), l + 1) = [i \in 1 .. l + 1 |-> sent'[d][i].hdr.seq]
    <3>1. PICK q \in Seq(Nat) : q = Numbers(d)
      BY <2>6
    <3>2. Len(q) = l /\ \A i \in 1 .. l : q[i] = sent[d][i].hdr.seq
      BY <2>5, <2>6, <3>1
    <3>3. PICK a : a = Append(q, l + 1)
      OBVIOUS
    <3>4. /\ a \in Seq(Nat) /\ Len(a) = l + 1 /\ a[l + 1] = l + 1
          /\ \A i \in 1 .. l : a[i] = q[i]
      BY <3>1, <3>2, <3>3
    <3>5. a = [i \in 1 .. l + 1 |-> a[i]]
      BY <3>4
    <3>6. \A i \in 1 .. l + 1 : a[i] = sent'[d][i].hdr.seq
      <4>1. \A i \in 1 .. l + 1 : i \in 1 .. l \/ i = l + 1
        OBVIOUS
      <4>2. QED
        BY <1>5, <2>1, <3>2, <3>4, <4>1
    <3>7. QED
      BY <3>1, <3>3, <3>5, <3>6
  <2>8. QED
    BY <2>4, <2>6, <2>7
<1>10. CASE ~ Counted(pkt.hdr)
  <2>1. CountIs(d, n)'
    <3>1. n \in 0 .. l + 1 /\ \A i \in 1 .. l + 1 : i \in 1 .. l \/ (i = l + 1 /\ ~ (i <= n))
      BY <1>7
    <3>2. \A i \in 1 .. l + 1 : i <= n <=> Counted(sent'[d][i].hdr)
      BY <1>5, <1>7, <1>10, <3>1
    <3>3. QED
      BY <1>2, <1>5, <3>1, <3>2 DEF CountIs, Counted
  <2>2. Numbers(d)' = [i \in 1 .. n |-> sent'[d][i].hdr.seq]
    BY <1>1, <2>1, NumbersOfNext DEF NumbersAre
  <2>3. \A i \in 1 .. n : sent'[d][i] = sent[d][i]
    <3>1. \A i \in 1 .. n : i \in 1 .. l
      BY <1>7
    <3>2. QED
      BY <1>5, <3>1
  <2>4. QED
    BY <1>8, <2>2, <2>3
<1>11. QED
  BY <1>9, <1>10

Emitted == [d \in Dsts |-> Numbers(d)]

LEMMA EmitInit ==
  ASSUME SendInit
  PROVE  Emitted = [d \in Dsts |-> <<>>]
<1>1. SendInv
  BY InvInit
<1>2. ASSUME NEW d \in Dsts PROVE Numbers(d) = <<>>
  <2>1. PICK n : CountIs(d, n)
    BY <1>1, SomeCount
  <2>2. sent[d] = <<>>
    BY DEF SendInit
  <2>3. n = 0
    <3>1. Len(<<>>) = 0
      OBVIOUS
    <3>2. QED
      BY <2>1, <2>2, <3>1 DEF CountIs
  <2>4. Numbers(d) = [i \in 1 .. 0 |-> sent[d][i].hdr.seq]
    BY <1>1, <2>1, <2>3, NumbersOf DEF NumbersAre, SendInv
  <2>5. QED
    BY <2>4
<1>3. QED
  BY <1>2 DEF Emitted

LEMMA EmitStep ==
  ASSUME SendInv, SendInv', [SendNext]_vars
  PROVE  \/ Emitted' = Emitted
         \/ \E d \in Dsts : Emitted' = [Emitted EXCEPT ![d] = Append(@, Len(@) + 1)]
<1>1. CASE PktDone
  <2>1. PICK d \in Dsts : /\ d = pkt.hdr.dst
                          /\ sent' = [sent EXCEPT ![d] = Append(@, pkt)]
    <3>1. pkt \in Segments /\ sent' = [sent EXCEPT ![pkt.hdr.dst] = Append(@, pkt)]
      BY <1>1, PktDonePend DEF SendInv
    <3>2. QED
      BY <3>1 DEF Segments, SegHeaders
  <2>2. \A c \in Dsts : c # d => sent'[c] = sent[c]
    BY <2>1 DEF SendInv, TypeOK, DeviceType
  <2>3. \A c \in Dsts : c # d => Numbers(c)' = Numbers(c)
    BY <2>2, NumbersKept
  <2>4. Numbers(d)' = Numbers(d) \/ Numbers(d)' = Append(Numbers(d), Len(Numbers(d)) + 1)
    BY <1>1, <2>1, NumbersDone
  <2>5. CASE Numbers(d)' = Numbers(d)
    BY <2>3, <2>5 DEF Emitted
  <2>6. CASE Numbers(d)' = Append(Numbers(d), Len(Numbers(d)) + 1)
    <3>1. Emitted' = [Emitted EXCEPT ![d] = Append(@, Len(@) + 1)]
      BY <2>3, <2>6 DEF Emitted
    <3>2. QED
      BY <3>1
  <2>7. QED
    BY <2>4, <2>5, <2>6
<1>2. CASE ~ PktDone
  <2>1. sent' = sent
    BY <1>2, SentGrows DEF SendInv
  <2>2. \A d \in Dsts : Numbers(d)' = Numbers(d)
    BY <2>1, NumbersKept
  <2>3. QED
    BY <2>2 DEF Emitted
<1>3. QED
  BY <1>1, <1>2

-----------------------------------------------------------------------------
(* Theorems                                                                *)

(* What the firmware has still to issue and to acknowledge differs by      *)
(* whole segments, no more of them than may be in flight, for any lengths  *)
(* of message and segment.                                                 *)
THEOREM TypeCorrect == SendSpec => []TypeOK
<1>1. SendInit => TypeOK
  BY TypeInit
<1>2. TypeOK /\ [SendNext]_vars => TypeOK'
  BY TypeStep
<1>3. QED
  BY <1>1, <1>2, PTL DEF SendSpec

(* The headers that the firmware queues ahead and the commands it gives    *)
(* to the DMA cut the messages into the same segments, also when calls     *)
(* fail and leave both behind: every segment sent carries the words its    *)
(* header stands for.                                                      *)
THEOREM CutsAgree == SendSpec => []SegmentsIntact
<1>1. SendInit => SendInv
  BY InvInit
<1>2. SendInv /\ [SendNext]_vars => SendInv'
  BY InvStep
<1>3. SendInv => SegmentsIntact
  <2>1. SUFFICES ASSUME TypeOK, SentIntact, NEW d \in Dsts, NEW i \in DOMAIN sent[d]
                 PROVE  \A k \in DOMAIN sent[d][i].data :
                          /\ sent[d][i].data[k].call = sent[d][i].hdr.call
                          /\ sent[d][i].data[k].off
                                = sent[d][i].data[1].off + (k - 1) * WordSize
                          /\ sent[d][i].data[1].off % TxnSize = 0
    BY DEF SendInv, SegmentsIntact
  <2>2. sent[d] \in Seq(Segments) /\ i \in 1 .. Len(sent[d])
    BY <2>1 DEF TypeOK, DeviceType
  <2>3. sent[d][i] \in Segments
    BY <2>2
  <2>4. sent[d][i].data \in Seq(StrmWords)
    BY <2>3 DEF Segments
  <2>5. DOMAIN sent[d][i].data = 1 .. Len(sent[d][i].data)
    BY <2>4
  <2>6. QED
    BY <2>1, <2>2, <2>5 DEF SentIntact, Intact
<1>4. QED
  BY <1>1, <1>2, <1>3, PTL DEF SendSpec

(* A send that succeeds, none before it having failed, leaves every queue  *)
(* between the firmware and the devices empty, and the tags and numbers of *)
(* both sides agreeing for the next call.                                  *)
THEOREM NothingBehind == SendSpec => []NothingLeft
<1>1. SendInit => SendInv
  BY InvInit
<1>2. SendInv /\ [SendNext]_vars => SendInv'
  BY InvStep
<1>3. SendInv => NothingLeft
  BY LeftNothing
<1>4. QED
  BY <1>1, <1>2, <1>3, PTL DEF SendSpec

(* What ack_packetizer acknowledged of a call was sent, each segment of    *)
(* it, for any lengths and any number of segments in flight.               *)
THEOREM AcknowledgedSent == SendSpec => []AckMeansSent
<1>1. SendInit => SendInv
  BY InvInit
<1>2. SendInv /\ [SendNext]_vars => SendInv'
  BY InvStep
<1>3. SendInv => AckMeansSent
  BY AckedWasSent
<1>4. QED
  BY <1>1, <1>2, <1>3, PTL DEF SendSpec

(* The transmit path implements the source of numbered segments that the   *)
(* receive side of every other rank relies on.                             *)
THEOREM ImplementsSource == SendSpec => NumberedInOrder
<1>1. SendInit => SendInv
  BY InvInit
<1>2. SendInv /\ [SendNext]_vars => SendInv'
  BY InvStep
<1>3. SendInit => Source!SourceInit
  BY EmitInit DEF Source!SourceInit, Emitted
<1>4. SendInv /\ SendInv' /\ [SendNext]_vars
        => [Source!SourceNext]_([d \in Dsts |-> Numbers(d)])
  BY EmitStep DEF Source!SourceNext, Source!Emit, Emitted
<1>5. QED
  BY <1>1, <1>2, <1>3, <1>4, PTL DEF SendSpec, NumberedInOrder, Source!SourceSpec

=============================================================================
