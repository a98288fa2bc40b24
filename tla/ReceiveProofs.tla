--------------------------- MODULE ReceiveProofs ---------------------------
(***************************************************************************)
(* Proofs about the receive side: the spare buffers (RxBuffers), for any   *)
(* number of buffers, tags and sources, over TCP or UDP, with or without   *)
(* DMA faults and timeouts; and the receives that use them                 *)
(* (ReceiveOffchip).                                                       *)
(*                                                                         *)
(* receive_offchip_world touches the spare buffers only as the main loop   *)
(* of RxBuffers may: every step of the detailed specification is a step of *)
(* RxBuffers or leaves its variables alone. The theorems about RxBuffers   *)
(* therefore hold while receives run. On top of them, the counts of        *)
(* segments claimed, copied and acknowledged lead to what a receive        *)
(* returns.                                                                *)
(***************************************************************************)
EXTENDS ReceiveOffchip, ProofFacts, SequenceTheorems, FiniteSetTheorems, TLAPS

(* The headers that wait belong to the statuses that wait: the i-th header *)
(* describes what the i-th status says was written, and the last header is *)
(* that of the payload at the DMA.                                         *)
HeadersInStep ==
  /\ stream # NoMsg => hdrQ[Len(hdrQ)] = stream
  /\ \A i \in DOMAIN stsQ :
       stsQ[i].ok => mem[lookup[stsQ[i].tag]] = hdrQ[i]

HeldInfo == \A i \in DOMAIN held : rx[held[i]] # NoMsg

IInv ==
  /\ TypeOK
  /\ TagAccounting
  /\ TagsInFlight
  /\ ChecksNeverFail
  /\ HeaderAvailable
  /\ HeadersInStep
  /\ HeaderMatchesPayload
  /\ HeldOnce
  /\ HeldInfo

-----------------------------------------------------------------------------
(* Steps that change the buffers, the tag table or the FIFOs, and the rest *)

LEMMA InitTypeOK == Init => TypeOK
<1> USE SizesAssumption, NoBufAssumption DEF Bufs, DmaTags
<1> SUFFICES ASSUME Init PROVE TypeOK
  OBVIOUS
<1>1. /\ cmdQ \in Seq(Commands) /\ dmaQ \in Seq(Commands)
      /\ stsQ \in Seq(DmaStatuses) /\ hdrQ \in Seq(Messages) /\ held \in Seq(Bufs)
  BY DEF Init
<1>2. QED
  BY <1>1 DEF Init, TypeOK, Statuses, Faults, IrqLines

LEMMA LatchType ==
  ASSUME TypeOK, NEW acked, Latch(acked)
  PROVE  pend' \subseteq IrqLines
  BY DEF Latch, ActiveLines, TypeOK

LEMMA QueueTypes ==
  ASSUME NEW S, NEW q \in Seq(S)
  PROVE  /\ \A e \in S : Append(q, e) \in Seq(S)
         /\ q # <<>> => Head(q) \in S /\ Tail(q) \in Seq(S)
  OBVIOUS

LEMMA HardwareType == TypeOK /\ Hardware => TypeOK'
<1> SUFFICES ASSUME TypeOK, Hardware PROVE TypeOK'
  OBVIOUS
<1> USE DEF fwVars, isrVars, mainVars, irqVars, netVars, dmaVars
<1>1. ASSUME NEW m \in Messages, Arrive(m) PROVE TypeOK'
  BY <1>1, MessagesAssumption DEF Arrive, TypeOK
<1>2. ASSUME DmaFetch PROVE TypeOK'
  BY <1>2, LatchType, QueueTypes DEF DmaFetch, TypeOK
<1>3. ASSUME DmaWrite PROVE TypeOK'
  <2>1. PICK ok \in Outcomes :
          /\ mem' = [mem EXCEPT ![Head(dmaQ).buf] = IF ok THEN stream ELSE NoMsg]
          /\ stsQ' = Append(stsQ, [tag |-> Head(dmaQ).tag, ok |-> ok])
    BY <1>3, Zenon DEF DmaWrite
  <2>a. ok \in BOOLEAN
    BY Zenon DEF Outcomes
  <2>b. Head(dmaQ) \in Commands /\ dmaQ' \in Seq(Commands)
    BY <1>3, QueueTypes DEF DmaWrite, TypeOK
  <2>2. /\ Head(dmaQ).tag \in DmaTags /\ Head(dmaQ).buf \in Bufs
        /\ dmaQ' \in Seq(Commands)
    BY <2>b DEF Commands
  <2>3. stsQ' \in Seq(DmaStatuses)
    BY <2>1, <2>a, <2>2, QueueTypes DEF TypeOK, DmaStatuses
  <2>4. mem' \in [Bufs -> Messages \cup {NoMsg}]
    BY <2>1, <2>2 DEF TypeOK
  <2>5. QED
    BY <1>3, <2>2, <2>3, <2>4, LatchType DEF DmaWrite, TypeOK
<1>4. ASSUME TimerFire PROVE TypeOK'
  BY <1>4, LatchType DEF TimerFire, TypeOK
<1>5. QED
  BY <1>1, <1>2, <1>3, <1>4 DEF Hardware

LEMMA MainType == TypeOK /\ Main => TypeOK'
<1> SUFFICES ASSUME TypeOK, Main PROVE TypeOK'
  OBVIOUS
<1> USE SizesAssumption
    DEF fwVars, isrVars, mainVars, irqVars, netVars, dmaVars, MainRuns, Idle
<1>1. ASSUME EnableIrq PROVE TypeOK'
  BY <1>1 DEF EnableIrq, TypeOK, IrqLines
<1>2. ASSUME DisableIrq PROVE TypeOK'
  BY <1>2, LatchType DEF DisableIrq, TypeOK, IrqLines
<1>3. ASSUME NEW r \in Requests, StartWait(r) PROVE TypeOK'
  BY <1>3 DEF StartWait, TypeOK
<1>4. ASSUME ScanMatch PROVE TypeOK'
  <2>1. pos \in Bufs /\ req.src \in Srcs
    <3>1. pos \in Bufs
      BY <1>4 DEF ScanMatch, TypeOK, Bufs
    <3>2. req \in Requests
      BY <1>4 DEF ScanMatch, TypeOK
    <3>3. QED
      BY <3>1, <3>2, RequestsAssumption
  <2>2. held' \in Seq(Bufs) /\ inSeq' \in [Srcs -> Nat]
    <3>1. held' \in Seq(Bufs)
      BY <1>4, <2>1, QueueTypes DEF ScanMatch, TypeOK
    <3>2. inSeq' \in [Srcs -> Nat]
      BY <1>4, <2>1 DEF ScanMatch, TypeOK
    <3>3. QED
      BY <3>1, <3>2
  <2>3. QED
    BY <1>4, <2>2, SMTT(30) DEF ScanMatch, TypeOK
<1>5. ASSUME ScanMiss PROVE TypeOK'
  BY <1>5 DEF ScanMiss, TypeOK
<1>6. ASSUME ScanAgain PROVE TypeOK'
  BY <1>6 DEF ScanAgain, TypeOK
<1>7. ASSUME ReceiveTimeout \/ CopyFails PROVE TypeOK'
  <2>1. /\ fault' \in Faults /\ req' = NoMsg /\ pos' = 0 /\ held' = <<>>
        /\ UNCHANGED <<inSeq, fwVars, isrVars, irqVars, pend, netVars, dmaVars>>
    BY <1>7 DEF ReceiveTimeout, CopyFails, Raise, Faults
  <2>2. held' \in Seq(Bufs)
    BY <2>1
  <2>3. QED
    BY <2>1, <2>2 DEF TypeOK
<1>8. ASSUME FreeOldest PROVE TypeOK'
  <2>1. held' \in Seq(Bufs) /\ Head(held) \in Bufs
    BY <1>8, QueueTypes DEF FreeOldest, TypeOK
  <2>2. status' \in [Bufs -> Statuses]
    BY <1>8, <2>1 DEF FreeOldest, TypeOK, Statuses
  <2>3. QED
    BY <1>8, <2>1, <2>2 DEF FreeOldest, TypeOK
<1>9. QED
  BY <1>1, <1>2, <1>3, <1>4, <1>5, <1>6, <1>7, <1>8 DEF Main

-----------------------------------------------------------------------------
(* Counting the tags in use                                                *)

LEMMA TagsFinite ==
  /\ IsFiniteSet(DmaTags)
  /\ Cardinality(DmaTags) = MaxDmaTags
  /\ IsFiniteSet(UsedTags)
  /\ Cardinality(UsedTags) \in Nat
<1>1. IsFiniteSet(DmaTags)
  BY FS_Interval, SizesAssumption DEF DmaTags
<1>2. Cardinality(DmaTags) = MaxDmaTags
  BY FS_Interval, SizesAssumption DEF DmaTags
<1>3. IsFiniteSet(UsedTags)
  BY <1>1, FS_Subset DEF UsedTags
<1>4. QED
  BY <1>1, <1>2, <1>3, FS_CardinalityType

(* While num_rx_enqueued is below its limit the search for a tag succeeds. *)
LEMMA TagLeft ==
  ASSUME TagAccounting, numEnq < MaxEnqueued
  PROVE  FreeTags # {}
<1> SUFFICES ASSUME FreeTags = {} PROVE FALSE
  OBVIOUS
<1>1. UsedTags = DmaTags
  BY DEF FreeTags, UsedTags
<1>2. numEnq = MaxDmaTags
  BY <1>1, TagsFinite DEF TagAccounting
<1>3. QED
  BY <1>2, SizesAssumption

LEMMA TagLeftNext ==
  ASSUME TagAccounting', (numEnq < MaxEnqueued)'
  PROVE  FreeTags' # {}
<1> SUFFICES ASSUME FreeTags' = {} PROVE FALSE
  OBVIOUS
<1>1. UsedTags' = DmaTags
  BY DEF FreeTags, UsedTags
<1>2. numEnq' = MaxDmaTags
  BY <1>1, TagsFinite DEF TagAccounting
<1>3. QED
  BY <1>2, SizesAssumption

(* What a round of dequeue_rx_buffers finds: the three checks pass and the *)
(* header is there, so only its last alternative can be taken.             *)
LEMMA DequeueSound ==
  ASSUME IInv, IsrDequeue,
         NEW sts, sts = Head(stsQ),
         NEW b, b = lookup[sts.tag]
  PROVE  /\ sts \in DmaStatuses /\ sts.tag \in UsedTags /\ b \in Bufs
         /\ status[b] = "ENQUEUED" /\ dmaTag[b] = sts.tag
         /\ hdrQ # <<>> /\ numEnq - 1 \in 0 .. MaxEnqueued
         /\ Reclaim(b, sts.tag)
         /\ \/ sts.ok /\ status' = [status EXCEPT ![b] = "RESERVED"]
               /\ UNCHANGED <<isrVars, mainVars, fault, irqVars>>
            \/ ~ sts.ok /\ status' = [status EXCEPT ![b] = "ERROR"]
               /\ RaiseFromIsr("DMA_ERROR")
<1>1. stsQ # <<>> /\ stsQ \in Seq(DmaStatuses)
  BY DEF IsrDequeue, IInv, TypeOK
<1>2. sts \in DmaStatuses /\ 1 \in DOMAIN stsQ /\ stsQ[1] = sts
  BY <1>1
<1>3. sts.tag \in UsedTags /\ sts.tag \in DmaTags
  BY <1>2 DEF IInv, TagsInFlight, TagsOf, DmaStatuses
<1>4. b \in Bufs /\ b # NoBuf
  BY <1>3, NoBufAssumption DEF IInv, TypeOK, UsedTags
<1>5. status[b] = "ENQUEUED" /\ dmaTag[b] = sts.tag
  BY <1>3 DEF IInv, TagAccounting
<1>6. hdrQ # <<>>
  BY <1>1, SMT DEF IInv, HeaderAvailable, TypeOK
<1>7. numEnq # 0
  <2>1. UsedTags # {}
    BY <1>3
  <2>2. Cardinality(UsedTags) # 0
    BY <2>1, TagsFinite, FS_EmptySet
  <2>3. QED
    BY <2>2 DEF IInv, TagAccounting
<1>8. numEnq - 1 \in 0 .. MaxEnqueued
  BY <1>7, SizesAssumption DEF IInv, TypeOK
<1>9. /\ Reclaim(b, sts.tag)
      /\ \/ sts.ok /\ status' = [status EXCEPT ![b] = "RESERVED"]
            /\ UNCHANGED <<isrVars, mainVars, fault, irqVars>>
         \/ ~ sts.ok /\ status' = [status EXCEPT ![b] = "ERROR"]
            /\ RaiseFromIsr("DMA_ERROR")
  BY <1>4, <1>5, Zenon DEF IsrDequeue
<1>10. QED
  BY <1>2, <1>3, <1>4, <1>5, <1>6, <1>8, <1>9

-----------------------------------------------------------------------------
(* The interrupt handler preserves the invariant.                          *)

LEMMA DequeueStep == IInv /\ IsrDequeue => IInv'
<1> SUFFICES ASSUME IInv, IsrDequeue PROVE IInv'
  OBVIOUS
<1> DEFINE sts == Head(stsQ)
           b   == lookup[sts.tag]
<1>1. /\ sts \in DmaStatuses /\ sts.tag \in UsedTags /\ b \in Bufs
      /\ status[b] = "ENQUEUED" /\ dmaTag[b] = sts.tag
      /\ hdrQ # <<>> /\ numEnq - 1 \in 0 .. MaxEnqueued
  BY DequeueSound
<1>2. Reclaim(b, sts.tag)
  BY DequeueSound
<1>3. \/ sts.ok /\ status' = [status EXCEPT ![b] = "RESERVED"]
         /\ UNCHANGED <<isrVars, mainVars, fault, irqVars>>
      \/ ~ sts.ok /\ status' = [status EXCEPT ![b] = "ERROR"]
         /\ RaiseFromIsr("DMA_ERROR")
  BY DequeueSound
<1>4. /\ stsQ # <<>> /\ stsQ' = Tail(stsQ)
      /\ UNCHANGED <<cmdQ, dmaQ, mem, arrivals, stream>> /\ Latch({})
  BY DEF IsrDequeue
<1>5. PICK s \in {"RESERVED", "ERROR"} :
        /\ status' = [status EXCEPT ![b] = s]
        /\ s = "RESERVED" => sts.ok
  BY <1>3
<1>6. \/ UNCHANGED <<isrVars, mainVars, fault, irqVars>>
      \/ RaiseFromIsr("DMA_ERROR")
  BY <1>3
<1>7. /\ \A x \in Bufs \ {b} : status'[x] = status[x] /\ rx'[x] = rx[x]
      /\ status'[b] = s /\ rx'[b] = Head(hdrQ)
      /\ \A t \in DmaTags \ {sts.tag} : lookup'[t] = lookup[t]
      /\ lookup'[sts.tag] = NoBuf
      /\ UNCHANGED dmaTag
  BY <1>1, <1>2, <1>5 DEF Reclaim, IInv, TypeOK, UsedTags
<1>8. UsedTags' = UsedTags \ {sts.tag}
  BY <1>1, <1>7 DEF UsedTags
<1>9. /\ Len(stsQ') = Len(stsQ) - 1 /\ Len(hdrQ') = Len(hdrQ) - 1
      /\ DOMAIN stsQ = 1 .. Len(stsQ) /\ DOMAIN stsQ' = 1 .. (Len(stsQ) - 1)
      /\ \A i \in 1 .. (Len(stsQ) - 1) : stsQ'[i] = stsQ[i + 1]
      /\ \A i \in 1 .. (Len(hdrQ) - 1) : hdrQ'[i] = hdrQ[i + 1]
      /\ stsQ' \in Seq(DmaStatuses) /\ hdrQ' \in Seq(Messages)
      /\ stsQ[1] = sts /\ Head(hdrQ) = hdrQ[1] /\ hdrQ[1] \in Messages
      /\ Len(stsQ) \in Nat \ {0} /\ Len(hdrQ) \in Nat \ {0}
  BY <1>1, <1>2, <1>4, HeadTailProperties, LenProperties DEF IInv, TypeOK, Reclaim
<1>10. TypeOK'
  <2>1. /\ status' \in [Bufs -> Statuses] /\ rx' \in [Bufs -> Messages \cup {NoMsg}]
        /\ lookup' \in [DmaTags -> Bufs \cup {NoBuf}]
    BY <1>1, <1>2, <1>5, <1>9 DEF IInv, TypeOK, Reclaim, Statuses
  <2>2. pend' \subseteq IrqLines
    BY <1>4, LatchType DEF IInv
  <2>3. CASE UNCHANGED <<isrVars, mainVars, fault, irqVars>>
    BY <1>1, <1>2, <1>4, <1>9, <2>1, <2>2, <2>3
       DEF IInv, TypeOK, Reclaim, isrVars, mainVars, irqVars
  <2>4. CASE RaiseFromIsr("DMA_ERROR")
    <3>1. /\ fault' = "DMA_ERROR" /\ req' = NoMsg /\ pos' = 0 /\ held' = <<>>
          /\ isrPc' = "out" /\ irq' = {} /\ enqIdx' = 0 /\ nEnqueued' = 0
          /\ ie' = FALSE /\ UNCHANGED <<inSeq, mask, timer>>
      BY <2>4 DEF RaiseFromIsr, Raise
    <3>2. held' \in Seq(Bufs) /\ fault' \in Faults /\ irq' \subseteq IrqLines
          /\ enqIdx' \in 0 .. NBufs /\ pos' \in 0 .. NBufs
      BY <3>1, SizesAssumption DEF Faults
    <3>3. /\ numEnq' \in 0 .. MaxEnqueued /\ hdrQ' \in Seq(Messages)
          /\ stsQ' \in Seq(DmaStatuses)
          /\ UNCHANGED <<cmdQ, dmaQ, mem, arrivals, stream, dmaTag>>
      BY <1>1, <1>2, <1>4, <1>9 DEF Reclaim
    <3>4. TypeOK
      BY DEF IInv
    <3>5. QED
      BY <2>1, <2>2, <3>1, <3>2, <3>3, <3>4 DEF TypeOK
  <2>5. QED
    BY <1>6, <2>3, <2>4
<1>11. TagAccounting'
  <2>1. numEnq' = Cardinality(UsedTags')
    BY <1>1, <1>2, <1>8, TagsFinite, FS_RemoveElement
       DEF IInv, TypeOK, TagAccounting, Reclaim
  <2>2. \A t \in UsedTags' : status'[lookup'[t]] = "ENQUEUED" /\ dmaTag'[lookup'[t]] = t
    BY <1>1, <1>7, <1>8, NoBufAssumption DEF IInv, TypeOK, TagAccounting, UsedTags
  <2>3. \A x \in Bufs : status'[x] = "ENQUEUED" =>
                          dmaTag'[x] \in DmaTags /\ lookup'[dmaTag'[x]] = x
    BY <1>1, <1>7, NoBufAssumption DEF IInv, TypeOK, TagAccounting, UsedTags
  <2>4. QED
    BY <2>1, <2>2, <2>3 DEF TagAccounting
<1>12. TagsInFlight'
  <2>0. /\ \A i \in DOMAIN stsQ' : i + 1 \in DOMAIN stsQ /\ stsQ'[i] = stsQ[i + 1]
        /\ \A i \in DOMAIN stsQ : i = 1 \/ i - 1 \in DOMAIN stsQ'
        /\ 1 \in DOMAIN stsQ
    BY <1>9
  <2>a. TagOnce(stsQ)
    BY DEF IInv, TagsInFlight
  <2>b. \A i \in DOMAIN stsQ' : stsQ'[i].tag # sts.tag
    BY <1>9, <2>0, <2>a DEF TagOnce
  <2>c. TagsOf(stsQ)' \subseteq TagsOf(stsQ) \ {sts.tag}
    BY <2>0, <2>b DEF TagsOf
  <2>d. ASSUME NEW i \in DOMAIN stsQ, stsQ[i].tag # sts.tag
        PROVE  stsQ[i].tag \in TagsOf(stsQ)'
    <3>1. i - 1 \in DOMAIN stsQ' /\ stsQ'[i - 1] = stsQ[i]
      BY <1>9, <2>d
    <3>2. QED
      BY <3>1 DEF TagsOf
  <2>1. TagsOf(stsQ)' = TagsOf(stsQ) \ {sts.tag}
    BY <2>c, <2>d DEF TagsOf
  <2>e. TagOnce(stsQ)'
    BY <1>9, <2>0, <2>a DEF TagOnce
  <2>2. /\ sts.tag \in TagsOf(stsQ)
        /\ sts.tag \notin TagsOf(cmdQ) /\ sts.tag \notin TagsOf(dmaQ)
    <3>1. sts.tag \in TagsOf(stsQ)
      BY <1>9, <2>0 DEF TagsOf
    <3>2. QED
      BY <3>1 DEF IInv, TagsInFlight
  <2>3. \A i \in DOMAIN cmdQ : lookup'[cmdQ[i].tag] = cmdQ[i].buf
    BY <1>7, <2>2 DEF IInv, TagsInFlight, TagsOf, UsedTags
  <2>4. \A i \in DOMAIN dmaQ : lookup'[dmaQ[i].tag] = dmaQ[i].buf
    BY <1>7, <2>2 DEF IInv, TagsInFlight, TagsOf, UsedTags
  <2>5. QED
    <3>1. /\ TagsOf(cmdQ)' = TagsOf(cmdQ) /\ TagOnce(cmdQ)' = TagOnce(cmdQ)
          /\ TagsOf(dmaQ)' = TagsOf(dmaQ) /\ TagOnce(dmaQ)' = TagOnce(dmaQ)
          /\ cmdQ' = cmdQ /\ dmaQ' = dmaQ
      BY <1>4 DEF TagsOf, TagOnce
    <3>2. QED
      BY <1>8, <2>1, <2>e, <2>2, <2>3, <2>4, <3>1 DEF IInv, TagsInFlight
<1>13. ChecksNeverFail'
  <2>1. fault' \notin {"SPARE_BUFFER_STATUS_ERROR", "SPARE_BUFFER_DMATAG_MISMATCH"}
    BY <1>6 DEF RaiseFromIsr, Raise, IInv, ChecksNeverFail
  <2>2. sts.tag \in FreeTags'
    BY <1>1, <1>7 DEF FreeTags, UsedTags
  <2>3. QED
    BY <2>1, <2>2 DEF ChecksNeverFail
<1>14. HeaderAvailable'
  BY <1>4, <1>9 DEF IInv, HeaderAvailable
<1>15. HeadersInStep'
  <2>1. stream' # NoMsg => hdrQ'[Len(hdrQ')] = stream'
    BY <1>4, <1>9 DEF IInv, HeaderAvailable, HeadersInStep
  <2>2. ASSUME NEW i \in DOMAIN stsQ', stsQ'[i].ok
        PROVE  mem'[lookup'[stsQ'[i].tag]] = hdrQ'[i]
    <3>1. i + 1 \in DOMAIN stsQ /\ stsQ'[i] = stsQ[i + 1] /\ i + 1 # 1
      BY <1>9
    <3>a. 1 \in DOMAIN stsQ /\ stsQ[1] = sts /\ TagOnce(stsQ) /\ stsQ'[i] \in DmaStatuses
      BY <1>9 DEF IInv, TagsInFlight
    <3>2. stsQ'[i].tag # sts.tag /\ stsQ'[i].tag \in DmaTags
      BY <3>1, <3>a DEF TagOnce, DmaStatuses
    <3>3. hdrQ'[i] = hdrQ[i + 1]
      BY <1>9, <3>1 DEF IInv, HeaderAvailable
    <3>4. QED
      BY <1>4, <1>7, <2>2, <3>1, <3>2, <3>3 DEF IInv, HeadersInStep
  <2>3. QED
    BY <2>1, <2>2 DEF HeadersInStep
<1>16. HeaderMatchesPayload'
  <2>1. ASSUME s = "RESERVED" PROVE rx'[b] # NoMsg /\ mem'[b] = rx'[b]
    BY <1>4, <1>5, <1>7, <1>9, <2>1, NoMsgAssumption DEF IInv, HeadersInStep
  <2>2. QED
    BY <1>4, <1>5, <1>7, <2>1 DEF IInv, HeaderMatchesPayload
<1>17. HeldOnce' /\ HeldInfo'
  <2>1. CASE UNCHANGED <<isrVars, mainVars, fault, irqVars>>
    <3>1. \A i \in DOMAIN held : held[i] \in Bufs /\ held[i] # b
      BY <1>1 DEF IInv, TypeOK, HeldOnce
    <3>2. QED
      BY <1>7, <2>1, <3>1 DEF mainVars, IInv, HeldOnce, HeldInfo
  <2>2. CASE RaiseFromIsr("DMA_ERROR")
    BY <2>2 DEF RaiseFromIsr, Raise, HeldOnce, HeldInfo
  <2>3. QED
    BY <1>6, <2>1, <2>2
<1>18. QED
  BY <1>10, <1>11, <1>12, <1>13, <1>14, <1>15, <1>16, <1>17 DEF IInv

(* Giving a buffer to the DMA under a tag that was free.                   *)
LEMMA EnqueueStep ==
  ASSUME NEW tag \in DmaTags PROVE IInv /\ IsrEnqueue(tag) => IInv'
<1> SUFFICES ASSUME IInv, IsrEnqueue(tag) PROVE IInv'
  OBVIOUS
<1> DEFINE b   == enqIdx
           cmd == [tag |-> tag, buf |-> b]
<1>1. /\ b \in Bufs /\ status[b] = "IDLE" /\ lookup[tag] = NoBuf
      /\ numEnq < MaxEnqueued
  BY SizesAssumption
     DEF IsrEnqueue, EnqueueReturns, Spare, FreeTags, Bufs, IInv, TypeOK
<1>2. /\ cmdQ' = Append(cmdQ, cmd) /\ numEnq' = numEnq + 1
      /\ UNCHANGED <<dmaQ, stsQ, mem, rx, held, inSeq, fault, stream, hdrQ>>
  BY DEF IsrEnqueue, Issue, mainVars, netVars
<1>3. /\ \A x \in Bufs \ {b} : status'[x] = status[x] /\ dmaTag'[x] = dmaTag[x]
      /\ status'[b] = "ENQUEUED" /\ dmaTag'[b] = tag
      /\ \A t \in DmaTags \ {tag} : lookup'[t] = lookup[t]
      /\ lookup'[tag] = b
  BY <1>1 DEF IsrEnqueue, Issue, IInv, TypeOK
<1>4. UsedTags' = UsedTags \cup {tag} /\ tag \notin UsedTags
  BY <1>1, <1>3, NoBufAssumption DEF UsedTags
<1>5. /\ Len(cmdQ') = Len(cmdQ) + 1
      /\ DOMAIN cmdQ = 1 .. Len(cmdQ) /\ DOMAIN cmdQ' = 1 .. (Len(cmdQ) + 1)
      /\ \A i \in 1 .. Len(cmdQ) : cmdQ'[i] = cmdQ[i]
      /\ cmdQ'[Len(cmdQ) + 1] = cmd
      /\ cmd \in Commands /\ cmdQ' \in Seq(Commands) /\ Len(cmdQ) \in Nat
  BY <1>1, <1>2, AppendProperties, LenProperties DEF IInv, TypeOK, Commands
<1>6. TypeOK'
  <2>1. /\ status' \in [Bufs -> Statuses] /\ dmaTag' \in [Bufs -> Nat]
        /\ lookup' \in [DmaTags -> Bufs \cup {NoBuf}]
    BY <1>1 DEF IInv, TypeOK, IsrEnqueue, Issue, Statuses, DmaTags
  <2>2. numEnq' \in 0 .. MaxEnqueued /\ enqIdx' \in 0 .. NBufs /\ nEnqueued' \in Nat
    BY <1>1, <1>2, SizesAssumption DEF IsrEnqueue, IInv, TypeOK, Bufs
  <2>3. pend' \subseteq IrqLines
    BY LatchType DEF IInv, IsrEnqueue
  <2>4. QED
    BY <1>2, <1>5, <2>1, <2>2, <2>3
       DEF IInv, TypeOK, IsrEnqueue, mainVars, netVars
<1>7. TagAccounting'
  <2>1. numEnq' = Cardinality(UsedTags')
    BY <1>2, <1>4, TagsFinite, FS_AddElement DEF IInv, TagAccounting
  <2>2. \A t \in UsedTags : t # tag /\ lookup[t] \in Bufs /\ lookup[t] # b
    BY <1>1, <1>4 DEF IInv, TypeOK, TagAccounting, UsedTags
  <2>3. \A t \in UsedTags' : status'[lookup'[t]] = "ENQUEUED" /\ dmaTag'[lookup'[t]] = t
    BY <1>3, <1>4, <2>2 DEF IInv, TagAccounting, UsedTags
  <2>4. \A x \in Bufs : status'[x] = "ENQUEUED" =>
                          dmaTag'[x] \in DmaTags /\ lookup'[dmaTag'[x]] = x
    <3>1. SUFFICES ASSUME NEW x \in Bufs, x # b, status[x] = "ENQUEUED"
                   PROVE  dmaTag'[x] \in DmaTags /\ lookup'[dmaTag'[x]] = x
      BY <1>3
    <3>2. dmaTag[x] \in DmaTags /\ lookup[dmaTag[x]] = x
      BY <3>1 DEF IInv, TagAccounting
    <3>3. dmaTag[x] # tag
      BY <1>1, <3>1, <3>2, NoBufAssumption
    <3>4. QED
      BY <1>3, <3>1, <3>2, <3>3
  <2>5. QED
    BY <2>1, <2>3, <2>4 DEF TagAccounting
<1>8. TagsInFlight'
  <2>1. /\ \A i \in DOMAIN cmdQ : i \in DOMAIN cmdQ' /\ cmdQ'[i] = cmdQ[i]
        /\ \A i \in DOMAIN cmdQ' : i \in DOMAIN cmdQ \/ cmdQ'[i] = cmd
        /\ \E i \in DOMAIN cmdQ' : cmdQ'[i] = cmd
    BY <1>5
  <2>2. TagsOf(cmdQ)' = TagsOf(cmdQ) \cup {tag}
    BY <2>1 DEF TagsOf
  <2>3. tag \notin TagsOf(cmdQ) /\ tag \notin TagsOf(dmaQ) /\ tag \notin TagsOf(stsQ)
    BY <1>4 DEF IInv, TagsInFlight
  <2>4. \A i \in DOMAIN cmdQ : cmdQ[i].tag # tag
    BY <2>3 DEF TagsOf
  <2>5. TagOnce(cmdQ)'
    <3>1. TagOnce(cmdQ)
      BY DEF IInv, TagsInFlight
    <3>2. QED
      BY <1>5, <2>4, <3>1 DEF TagOnce
  <2>6. \A i \in DOMAIN cmdQ' : lookup'[cmdQ'[i].tag] = cmdQ'[i].buf
    <3>1. SUFFICES ASSUME NEW i \in DOMAIN cmdQ
                   PROVE  lookup'[cmdQ[i].tag] = cmdQ[i].buf
      BY <1>3, <2>1
    <3>2. cmdQ[i] \in Commands
      BY ElementOfSeq, <1>5 DEF IInv, TypeOK
    <3>3. cmdQ[i].tag \in DmaTags \ {tag}
      BY <2>4, <3>2 DEF Commands
    <3>4. QED
      BY <1>3, <3>3 DEF IInv, TagsInFlight
  <2>7. \A i \in DOMAIN dmaQ : lookup'[dmaQ[i].tag] = dmaQ[i].buf
    <3>1. SUFFICES ASSUME NEW i \in DOMAIN dmaQ
                   PROVE  lookup'[dmaQ[i].tag] = dmaQ[i].buf
      OBVIOUS
    <3>2. dmaQ[i] \in Commands
      BY ElementOfSeq, LenProperties DEF IInv, TypeOK
    <3>3. dmaQ[i].tag \in DmaTags \ {tag}
      BY <2>3, <3>2 DEF Commands, TagsOf
    <3>4. QED
      BY <1>3, <3>3 DEF IInv, TagsInFlight
  <2>8. /\ TagsOf(dmaQ)' = TagsOf(dmaQ) /\ TagOnce(dmaQ)' = TagOnce(dmaQ)
        /\ TagsOf(stsQ)' = TagsOf(stsQ) /\ TagOnce(stsQ)' = TagOnce(stsQ)
    BY <1>2 DEF TagsOf, TagOnce
  <2>9. QED
    BY <1>2, <1>4, <2>2, <2>3, <2>5, <2>6, <2>7, <2>8 DEF IInv, TagsInFlight
<1>9. ChecksNeverFail'
  <2>1. fault' \notin {"SPARE_BUFFER_STATUS_ERROR", "SPARE_BUFFER_DMATAG_MISMATCH"}
    BY <1>2 DEF IInv, ChecksNeverFail
  <2>2. numEnq' < MaxEnqueued => FreeTags' # {}
    BY <1>7, TagLeftNext
  <2>3. QED
    BY <2>1, <2>2 DEF ChecksNeverFail
<1>10. HeaderAvailable'
  BY <1>2 DEF IInv, HeaderAvailable
<1>11. HeadersInStep'
  <2>1. ASSUME NEW i \in DOMAIN stsQ, stsQ[i].ok
        PROVE  lookup'[stsQ[i].tag] = lookup[stsQ[i].tag]
    <3>1. stsQ[i] \in DmaStatuses
      BY ElementOfSeq, LenProperties DEF IInv, TypeOK
    <3>2. stsQ[i].tag \in UsedTags
      BY DEF IInv, TagsInFlight, TagsOf
    <3>3. QED
      BY <1>3, <1>4, <3>1, <3>2 DEF DmaStatuses
  <2>2. QED
    BY <1>2, <2>1 DEF IInv, HeadersInStep
<1>12. HeaderMatchesPayload'
  BY <1>2, <1>3 DEF IInv, HeaderMatchesPayload
<1>13. HeldOnce' /\ HeldInfo'
  <2>1. \A i \in DOMAIN held : held[i] \in Bufs /\ held[i] # b
    BY <1>1 DEF IInv, TypeOK, HeldOnce
  <2>2. QED
    BY <1>2, <1>3, <2>1 DEF IInv, HeldOnce, HeldInfo
<1>14. QED
  BY <1>6, <1>7, <1>8, <1>9, <1>10, <1>11, <1>12, <1>13 DEF IInv

LEMMA FlightUnchanged ==
  ASSUME TagsInFlight, UNCHANGED <<lookup, cmdQ, dmaQ, stsQ>>
  PROVE  TagsInFlight'
<1>1. UsedTags' = UsedTags
  BY DEF UsedTags
<1>2. /\ TagsOf(cmdQ)' = TagsOf(cmdQ) /\ TagOnce(cmdQ)' = TagOnce(cmdQ)
      /\ TagsOf(dmaQ)' = TagsOf(dmaQ) /\ TagOnce(dmaQ)' = TagOnce(dmaQ)
      /\ TagsOf(stsQ)' = TagsOf(stsQ) /\ TagOnce(stsQ)' = TagOnce(stsQ)
  BY DEF TagsOf, TagOnce
<1>3. QED
  BY <1>1, <1>2 DEF TagsInFlight

(* The steps of the handler that move no buffer, tag or message keep every *)
(* part of the invariant but the types.                                    *)
LEMMA QuietStep ==
  ASSUME IInv, TypeOK',
         UNCHANGED <<fwVars, stream, hdrQ, dmaVars>>,
         fault' \in {fault, "RECEIVE_TIMEOUT_ERROR", "DMA_ERROR"},
         UNCHANGED <<held, inSeq>> \/ held' = <<>>
  PROVE  IInv'
<1> USE DEF fwVars, dmaVars
<1>1. TagAccounting'
  BY DEF IInv, TagAccounting, UsedTags
<1>2. TagsInFlight'
  BY FlightUnchanged DEF IInv
<1>3. ChecksNeverFail'
  BY DEF IInv, ChecksNeverFail, FreeTags
<1>4. HeaderAvailable' /\ HeadersInStep' /\ HeaderMatchesPayload'
  BY DEF IInv, HeaderAvailable, HeadersInStep, HeaderMatchesPayload
<1>5. HeldOnce' /\ HeldInfo'
  <2>1. CASE UNCHANGED <<held, inSeq>>
    BY <2>1 DEF IInv, HeldOnce, HeldInfo
  <2>2. CASE held' = <<>>
    BY <2>2 DEF HeldOnce, HeldInfo
  <2>3. QED
    BY <2>1, <2>2
<1>6. QED
  BY <1>1, <1>2, <1>3, <1>4, <1>5 DEF IInv

LEMMA IsrStep == IInv /\ Isr => IInv'
<1> SUFFICES ASSUME IInv, Isr PROVE IInv'
  OBVIOUS
<1> USE DEF isrVars, mainVars, irqVars, netVars
<1>1. CASE IsrEnter
  <2>1. irq' \subseteq IrqLines
    BY <1>1 DEF IsrEnter, IInv, TypeOK
  <2>2. TypeOK'
    BY <1>1, <2>1, LatchType, SizesAssumption DEF IsrEnter, IInv, TypeOK, fwVars
  <2>3. QED
    BY <1>1, <2>2, QuietStep DEF IsrEnter, dmaVars
<1>2. CASE IsrDequeue
  BY <1>2, DequeueStep
<1>3. CASE IsrDequeueDone
  <2>1. TypeOK'
    BY <1>3 DEF IsrDequeueDone, IInv, TypeOK, fwVars, dmaVars
  <2>2. QED
    BY <1>3, <2>1, QuietStep DEF IsrDequeueDone
<1>4. CASE IsrEnqueueDone
  <2>1. TypeOK'
    BY <1>4 DEF IsrEnqueueDone, IInv, TypeOK, fwVars, dmaVars
  <2>2. QED
    BY <1>4, <2>1, QuietStep DEF IsrEnqueueDone
<1>5. CASE IsrEnqueueSkip
  <2>1. enqIdx' \in 0 .. NBufs
    BY <1>5, SizesAssumption DEF IsrEnqueueSkip, EnqueueReturns, IInv, TypeOK
  <2>2. TypeOK'
    BY <1>5, <2>1 DEF IsrEnqueueSkip, IInv, TypeOK, fwVars, dmaVars
  <2>3. QED
    BY <1>5, <2>2, QuietStep DEF IsrEnqueueSkip
<1>6. CASE \E tag \in DmaTags : IsrEnqueue(tag)
  BY <1>6, EnqueueStep
<1>7. CASE IsrArm
  <2>1. mask' \subseteq IrqLines /\ timer' \in {"off", "running", "fired"}
    BY <1>7 DEF IsrArm, Rearm, IrqLines
  <2>2. pend' \subseteq IrqLines
    BY <1>7, LatchType DEF IsrArm, IInv
  <2>3. TypeOK'
    BY <1>7, <2>1, <2>2, SizesAssumption DEF IsrArm, IInv, TypeOK, fwVars
  <2>4. QED
    BY <1>7, <2>3, QuietStep DEF IsrArm, dmaVars
<1>8. QED
  BY <1>1, <1>2, <1>3, <1>4, <1>5, <1>6, <1>7 DEF Isr

-----------------------------------------------------------------------------
(* The main loop preserves the invariant.                                  *)

LEMMA MainStep == IInv /\ Main => IInv'
<1> SUFFICES ASSUME IInv, Main PROVE IInv'
  OBVIOUS
<1>0. TypeOK'
  BY MainType DEF IInv
<1> USE DEF isrVars, mainVars, irqVars, netVars
<1>1. CASE EnableIrq
  BY <1>0, <1>1, QuietStep DEF EnableIrq
<1>2. CASE DisableIrq
  BY <1>0, <1>2, QuietStep DEF DisableIrq, dmaVars
<1>3. CASE \E r \in Requests : StartWait(r)
  BY <1>0, <1>3, QuietStep DEF StartWait
<1>4. CASE ScanMatch
  <2>1. pos \in Bufs /\ req \in Requests /\ req.src \in Srcs
    <3>1. pos \in Bufs
      BY <1>4, SizesAssumption DEF ScanMatch, IInv, TypeOK, Bufs
    <3>2. req \in Requests
      BY <1>4 DEF ScanMatch, IInv, TypeOK
    <3>3. QED
      BY <3>1, <3>2, RequestsAssumption
  <2>2. /\ status[pos] = "RESERVED" /\ rx[pos].src = req.src
        /\ rx[pos].seq = inSeq[req.src] + 1 /\ rx[pos] # NoMsg
    BY <1>4, <2>1 DEF ScanMatch, Matches, IInv, HeaderMatchesPayload
  <2>3. /\ held' = Append(held, pos) /\ inSeq' = [inSeq EXCEPT ![req.src] = @ + 1]
        /\ UNCHANGED <<fwVars, stream, hdrQ, dmaVars, fault>>
    BY <1>4 DEF ScanMatch
  <2>4. /\ \A s \in Srcs : inSeq[s] \in Nat /\ inSeq'[s] \in Nat
        /\ \A s \in Srcs : inSeq'[s] >= inSeq[s]
        /\ inSeq'[req.src] = inSeq[req.src] + 1
    BY <2>1, <2>3 DEF IInv, TypeOK
  <2>5. /\ DOMAIN held = 1 .. Len(held) /\ DOMAIN held' = 1 .. (Len(held) + 1)
        /\ \A i \in 1 .. Len(held) : held'[i] = held[i] /\ held[i] \in Bufs
        /\ held'[Len(held) + 1] = pos /\ Len(held) \in Nat
    BY <2>1, <2>3, AppendProperties, LenProperties, ElementOfSeq DEF IInv, TypeOK
  <2>6. \A i \in DOMAIN held : held[i] # pos /\ rx[held[i]].src \in Srcs /\ rx[held[i]].seq \in Nat
    <3>1. SUFFICES ASSUME NEW i \in DOMAIN held
          PROVE held[i] # pos /\ rx[held[i]].src \in Srcs /\ rx[held[i]].seq \in Nat
      OBVIOUS
    <3>2. held[i] \in Bufs /\ rx[held[i]] \in Messages
      BY <2>5 DEF IInv, TypeOK, HeldInfo
    <3>3. rx[held[i]].src \in Srcs /\ rx[held[i]].seq \in Nat
      BY <3>2, MessagesAssumption
    <3>4. rx[held[i]].seq <= inSeq[rx[held[i]].src]
      BY DEF IInv, HeldOnce
    <3>5. held[i] # pos
      BY <2>2, <2>4, <3>3, <3>4
    <3>6. QED
      BY <3>3, <3>5
  <2>7. /\ \A i, j \in DOMAIN held' : held'[i] = held'[j] => i = j
        /\ \A i \in DOMAIN held' : i \in DOMAIN held \/ held'[i] = pos
    BY <2>5, <2>6 DEF IInv, HeldOnce
  <2>8. ASSUME NEW i \in DOMAIN held'
        PROVE  /\ status'[held'[i]] = "RESERVED" /\ rx'[held'[i]] # NoMsg
               /\ rx'[held'[i]].seq <= inSeq'[rx'[held'[i]].src]
    <3>1. status' = status /\ rx' = rx
      BY <2>3 DEF fwVars
    <3>2. CASE held'[i] = pos
      BY <2>1, <2>2, <2>4, <3>1, <3>2
    <3>3. CASE held'[i] # pos
      <4>1. i \in DOMAIN held /\ held'[i] = held[i]
        BY <2>5, <2>7, <3>3
      <4>2. /\ status[held[i]] = "RESERVED" /\ rx[held[i]] # NoMsg
            /\ rx[held[i]].seq <= inSeq[rx[held[i]].src]
        BY <4>1 DEF IInv, HeldOnce, HeldInfo
      <4>3. rx[held[i]].src \in Srcs /\ rx[held[i]].seq \in Nat
        BY <2>6, <4>1
      <4>4. QED
        BY <2>4, <3>1, <4>1, <4>2, <4>3
    <3>4. QED
      BY <3>2, <3>3
  <2>9. HeldOnce' /\ HeldInfo'
    BY <2>7, <2>8 DEF HeldOnce, HeldInfo
  <2>10. /\ TagAccounting' /\ TagsInFlight' /\ ChecksNeverFail' /\ HeaderAvailable'
         /\ HeadersInStep' /\ HeaderMatchesPayload'
    <3>1. UNCHANGED <<status, dmaTag, rx, lookup, numEnq, stream, hdrQ, cmdQ, dmaQ, stsQ, mem, fault>>
      BY <2>3 DEF fwVars, dmaVars
    <3>2. TagsInFlight'
      BY <3>1, FlightUnchanged DEF IInv
    <3>3. QED
      BY <3>1, <3>2 DEF IInv, TagAccounting, ChecksNeverFail, HeaderAvailable,
                        HeadersInStep, HeaderMatchesPayload, UsedTags, FreeTags
  <2>11. QED
    BY <1>0, <2>9, <2>10 DEF IInv
<1>5. CASE ScanMiss
  BY <1>0, <1>5, QuietStep DEF ScanMiss
<1>6. CASE ScanAgain
  BY <1>0, <1>6, QuietStep DEF ScanAgain
<1>7. CASE ReceiveTimeout
  BY <1>0, <1>7, QuietStep DEF ReceiveTimeout, Raise
<1>8. CASE FreeOldest
  <2>1. /\ held # <<>> /\ status' = [status EXCEPT ![Head(held)] = "IDLE"]
        /\ held' = Tail(held)
        /\ UNCHANGED <<dmaTag, rx, lookup, numEnq, inSeq, fault, stream, hdrQ, dmaVars>>
    BY <1>8 DEF FreeOldest
  <2>2. /\ DOMAIN held = 1 .. Len(held) /\ DOMAIN held' = 1 .. (Len(held) - 1)
        /\ \A i \in 1 .. (Len(held) - 1) : held'[i] = held[i + 1]
        /\ Head(held) = held[1] /\ Len(held) \in Nat \ {0} /\ 1 \in DOMAIN held
        /\ \A i \in DOMAIN held : held[i] \in Bufs
    BY <2>1, HeadTailProperties, LenProperties, ElementOfSeq DEF IInv, TypeOK
  <2>3. /\ Head(held) \in Bufs /\ status[Head(held)] = "RESERVED"
        /\ status'[Head(held)] = "IDLE"
        /\ \A x \in Bufs \ {Head(held)} : status'[x] = status[x]
    BY <2>1, <2>2 DEF IInv, TypeOK, HeldOnce
  <2>4. TagAccounting'
    <3>1. \A t \in UsedTags : lookup[t] \in Bufs \ {Head(held)}
      BY <2>3 DEF IInv, TypeOK, TagAccounting, UsedTags
    <3>2. UsedTags' = UsedTags
      BY <2>1 DEF UsedTags
    <3>3. QED
      BY <2>1, <2>3, <3>1, <3>2 DEF IInv, TagAccounting
  <2>5. TagsInFlight' /\ ChecksNeverFail' /\ HeaderAvailable' /\ HeadersInStep'
    BY <2>1, FlightUnchanged DEF IInv, ChecksNeverFail, HeaderAvailable,
                                 HeadersInStep, FreeTags, dmaVars
  <2>6. HeaderMatchesPayload'
    BY <2>1, <2>3 DEF IInv, HeaderMatchesPayload, dmaVars
  <2>7. ASSUME NEW i \in DOMAIN held'
        PROVE  /\ i + 1 \in DOMAIN held /\ held'[i] = held[i + 1]
               /\ held[i + 1] \in Bufs \ {Head(held)}
    <3>1. i + 1 \in DOMAIN held /\ held'[i] = held[i + 1] /\ i + 1 # 1
      BY <2>2
    <3>2. held[i + 1] # held[1]
      BY <2>2, <3>1 DEF IInv, HeldOnce
    <3>3. QED
      BY <2>2, <3>1, <3>2
  <2>8. HeldOnce' /\ HeldInfo'
    <3>1. ASSUME NEW i \in DOMAIN held', NEW j \in DOMAIN held', held'[i] = held'[j]
          PROVE  i = j
      <4>1. i + 1 = j + 1
        BY <2>7, <3>1 DEF IInv, HeldOnce
      <4>2. QED
        BY <2>2, <4>1
    <3>2. ASSUME NEW i \in DOMAIN held'
          PROVE  /\ status'[held'[i]] = "RESERVED" /\ rx'[held'[i]] # NoMsg
                 /\ rx'[held'[i]].seq <= inSeq'[rx'[held'[i]].src]
      BY <2>1, <2>3, <2>7 DEF IInv, HeldOnce, HeldInfo
    <3>3. QED
      BY <3>1, <3>2 DEF HeldOnce, HeldInfo
  <2>9. QED
    BY <1>0, <2>4, <2>5, <2>6, <2>8 DEF IInv
<1>9. CASE CopyFails
  BY <1>0, <1>9, QuietStep DEF CopyFails, Raise
<1>10. QED
  BY <1>1, <1>2, <1>3, <1>4, <1>5, <1>6, <1>7, <1>8, <1>9 DEF Main

-----------------------------------------------------------------------------
(* The network, the DMA and the timer preserve the invariant.              *)

LEMMA ArriveStep == ASSUME NEW m \in Messages PROVE IInv /\ Arrive(m) => IInv'
<1> SUFFICES ASSUME IInv, Arrive(m) PROVE IInv'
  OBVIOUS
<1>1. /\ stream = NoMsg /\ stream' = m /\ hdrQ' = Append(hdrQ, m)
      /\ UNCHANGED <<status, dmaTag, rx, lookup, numEnq, held, inSeq, fault,
                     cmdQ, dmaQ, stsQ, mem>>
  BY DEF Arrive, fwVars, mainVars, dmaVars
<1>2. /\ Len(hdrQ') = Len(hdrQ) + 1 /\ Len(hdrQ) \in Nat /\ hdrQ'[Len(hdrQ) + 1] = m
      /\ \A i \in 1 .. Len(hdrQ) : hdrQ'[i] = hdrQ[i]
      /\ DOMAIN stsQ = 1 .. Len(stsQ) /\ Len(stsQ) \in Nat
  BY <1>1, AppendProperties, LenProperties DEF IInv, TypeOK
<1>3. TypeOK'
  BY HardwareType DEF IInv, Hardware
<1>4. TagAccounting' /\ ChecksNeverFail'
  BY <1>1 DEF IInv, TagAccounting, ChecksNeverFail, UsedTags, FreeTags
<1>5. TagsInFlight'
  BY <1>1, FlightUnchanged DEF IInv
<1>6. HeaderAvailable' /\ HeadersInStep'
  <2>1. Len(hdrQ) = Len(stsQ)
    BY <1>1, <1>2 DEF IInv, HeaderAvailable
  <2>2. HeaderAvailable'
    BY <1>1, <1>2, <2>1, NoMsgAssumption DEF HeaderAvailable
  <2>3. \A i \in DOMAIN stsQ : hdrQ'[i] = hdrQ[i]
    BY <1>2, <2>1
  <2>4. HeadersInStep'
    BY <1>1, <1>2, <2>3 DEF IInv, HeadersInStep
  <2>5. QED
    BY <2>2, <2>4
<1>7. HeaderMatchesPayload' /\ HeldOnce' /\ HeldInfo'
  BY <1>1 DEF IInv, HeaderMatchesPayload, HeldOnce, HeldInfo
<1>8. QED
  BY <1>3, <1>4, <1>5, <1>6, <1>7 DEF IInv

LEMMA FetchStep == IInv /\ DmaFetch => IInv'
<1> SUFFICES ASSUME IInv, DmaFetch PROVE IInv'
  OBVIOUS
<1> DEFINE c == Head(cmdQ)
<1>1. /\ cmdQ # <<>> /\ dmaQ' = Append(dmaQ, c) /\ cmdQ' = Tail(cmdQ)
      /\ UNCHANGED <<status, dmaTag, rx, lookup, numEnq, held, inSeq, fault,
                     stream, hdrQ, stsQ, mem>>
  BY DEF DmaFetch, fwVars, mainVars, netVars
<1>2. /\ DOMAIN cmdQ = 1 .. Len(cmdQ) /\ DOMAIN cmdQ' = 1 .. (Len(cmdQ) - 1)
      /\ \A i \in 1 .. (Len(cmdQ) - 1) : cmdQ'[i] = cmdQ[i + 1]
      /\ cmdQ[1] = c /\ c \in Commands /\ Len(cmdQ) \in Nat \ {0}
      /\ DOMAIN dmaQ = 1 .. Len(dmaQ) /\ DOMAIN dmaQ' = 1 .. (Len(dmaQ) + 1)
      /\ \A i \in 1 .. Len(dmaQ) : dmaQ'[i] = dmaQ[i]
      /\ dmaQ'[Len(dmaQ) + 1] = c /\ Len(dmaQ) \in Nat
  BY <1>1, HeadTailProperties, AppendProperties, LenProperties DEF IInv, TypeOK
<1>3. TypeOK'
  BY HardwareType DEF IInv, Hardware
<1>4. TagAccounting' /\ ChecksNeverFail'
  BY <1>1 DEF IInv, TagAccounting, ChecksNeverFail, UsedTags, FreeTags
<1>5. TagsInFlight'
  <2>1. /\ \A i \in DOMAIN cmdQ' : i + 1 \in DOMAIN cmdQ /\ cmdQ'[i] = cmdQ[i + 1]
        /\ 1 \in DOMAIN cmdQ
        /\ \A i \in DOMAIN cmdQ : i = 1 \/ (i - 1 \in DOMAIN cmdQ' /\ cmdQ'[i - 1] = cmdQ[i])
    BY <1>2
  <2>2. TagOnce(cmdQ) /\ TagOnce(dmaQ)
    BY DEF IInv, TagsInFlight
  <2>3. \A i \in DOMAIN cmdQ' : cmdQ'[i].tag # c.tag
    BY <1>2, <2>1, <2>2 DEF TagOnce
  <2>4. TagsOf(cmdQ)' = TagsOf(cmdQ) \ {c.tag}
    <3>1. TagsOf(cmdQ)' \subseteq TagsOf(cmdQ) \ {c.tag}
      BY <2>1, <2>3 DEF TagsOf
    <3>2. TagsOf(cmdQ) \ {c.tag} \subseteq TagsOf(cmdQ)'
      <4>1. SUFFICES ASSUME NEW i \in DOMAIN cmdQ, cmdQ[i].tag # c.tag
                     PROVE  cmdQ[i].tag \in TagsOf(cmdQ)'
        BY DEF TagsOf
      <4>2. i - 1 \in DOMAIN cmdQ' /\ cmdQ'[i - 1] = cmdQ[i]
        BY <1>2, <2>1, <4>1
      <4>3. QED
        BY <4>2 DEF TagsOf
    <3>3. QED
      BY <3>1, <3>2
  <2>5. TagOnce(cmdQ)'
    BY <1>2, <2>1, <2>2 DEF TagOnce
  <2>6. /\ \A i \in DOMAIN dmaQ : i \in DOMAIN dmaQ' /\ dmaQ'[i] = dmaQ[i]
        /\ \A i \in DOMAIN dmaQ' : i \in DOMAIN dmaQ \/ (i = Len(dmaQ) + 1 /\ dmaQ'[i] = c)
        /\ \E i \in DOMAIN dmaQ' : dmaQ'[i] = c
    BY <1>2
  <2>7. TagsOf(dmaQ)' = TagsOf(dmaQ) \cup {c.tag}
    BY <2>6 DEF TagsOf
  <2>8. c.tag \in TagsOf(cmdQ)
    BY <1>2, <2>1 DEF TagsOf
  <2>9. c.tag \notin TagsOf(dmaQ) /\ c.tag \notin TagsOf(stsQ)
    BY <2>8 DEF IInv, TagsInFlight
  <2>10. TagOnce(dmaQ)'
    <3>1. \A i \in DOMAIN dmaQ : dmaQ[i].tag # c.tag
      BY <2>9 DEF TagsOf
    <3>2. QED
      BY <2>2, <2>6, <3>1 DEF TagOnce
  <2>11. /\ \A i \in DOMAIN cmdQ' : lookup'[cmdQ'[i].tag] = cmdQ'[i].buf
         /\ \A i \in DOMAIN dmaQ' : lookup'[dmaQ'[i].tag] = dmaQ'[i].buf
    BY <1>1, <1>2, <2>1, <2>6 DEF IInv, TagsInFlight
  <2>12. /\ UsedTags' = UsedTags /\ TagsOf(stsQ)' = TagsOf(stsQ)
         /\ TagOnce(stsQ)' = TagOnce(stsQ)
    BY <1>1 DEF UsedTags, TagsOf, TagOnce
  <2>13. QED
    BY <2>4, <2>5, <2>7, <2>8, <2>9, <2>10, <2>11, <2>12 DEF IInv, TagsInFlight
<1>6. /\ HeaderAvailable' /\ HeadersInStep' /\ HeaderMatchesPayload'
      /\ HeldOnce' /\ HeldInfo'
  BY <1>1 DEF IInv, HeaderAvailable, HeadersInStep, HeaderMatchesPayload,
              HeldOnce, HeldInfo
<1>7. QED
  BY <1>3, <1>4, <1>5, <1>6 DEF IInv

(* The payload goes where the oldest command says, which is the buffer its *)
(* tag stands for; the status and the header that describe it are the last *)
(* of their queues.                                                        *)
LEMMA WriteStep == IInv /\ DmaWrite => IInv' /\ KeepsUnclaimed
<1> SUFFICES ASSUME IInv, DmaWrite PROVE IInv' /\ KeepsUnclaimed
  OBVIOUS
<1> DEFINE c == Head(dmaQ)
<1>1. PICK ok \in Outcomes :
        /\ mem' = [mem EXCEPT ![Head(dmaQ).buf] = IF ok THEN stream ELSE NoMsg]
        /\ stsQ' = Append(stsQ, [tag |-> Head(dmaQ).tag, ok |-> ok])
  BY Zenon DEF DmaWrite
<1>2. /\ dmaQ # <<>> /\ dmaQ' = Tail(dmaQ) /\ stream # NoMsg /\ stream' = NoMsg
      /\ UNCHANGED <<status, dmaTag, rx, lookup, numEnq, held, inSeq, fault,
                     hdrQ, cmdQ>>
  BY DEF DmaWrite, fwVars, mainVars
<1> DEFINE st == [tag |-> c.tag, ok |-> ok]
<1>3. TypeOK'
  BY HardwareType DEF IInv, Hardware
<1>4. /\ DOMAIN dmaQ = 1 .. Len(dmaQ) /\ DOMAIN dmaQ' = 1 .. (Len(dmaQ) - 1)
      /\ \A i \in 1 .. (Len(dmaQ) - 1) : dmaQ'[i] = dmaQ[i + 1]
      /\ dmaQ[1] = c /\ c \in Commands /\ Len(dmaQ) \in Nat \ {0}
  BY <1>2, HeadTailProperties, LenProperties DEF IInv, TypeOK
<1>5. st \in DmaStatuses
  <2>1. ok \in BOOLEAN
    BY Zenon DEF Outcomes
  <2>2. QED
    BY <1>4, <2>1 DEF DmaStatuses, Commands
<1>6. /\ DOMAIN stsQ = 1 .. Len(stsQ) /\ DOMAIN stsQ' = 1 .. (Len(stsQ) + 1)
      /\ \A i \in 1 .. Len(stsQ) : stsQ'[i] = stsQ[i]
      /\ stsQ'[Len(stsQ) + 1] = st /\ Len(stsQ) \in Nat /\ Len(stsQ') = Len(stsQ) + 1
  BY <1>1, <1>5, AppendProperties, LenProperties DEF IInv, TypeOK
<1>7. TagAccounting' /\ ChecksNeverFail'
  BY <1>2 DEF IInv, TagAccounting, ChecksNeverFail, UsedTags, FreeTags
<1>8. c.tag \in TagsOf(dmaQ) /\ c.tag \notin TagsOf(cmdQ) /\ c.tag \notin TagsOf(stsQ)
  <2>1. 1 \in DOMAIN dmaQ
    BY <1>4
  <2>2. c.tag \in TagsOf(dmaQ)
    BY <1>4, <2>1 DEF TagsOf
  <2>3. QED
    BY <2>2 DEF IInv, TagsInFlight
<1>9. TagsInFlight'
  <2>1. /\ \A i \in DOMAIN dmaQ' : i + 1 \in DOMAIN dmaQ /\ dmaQ'[i] = dmaQ[i + 1]
        /\ 1 \in DOMAIN dmaQ
        /\ \A i \in DOMAIN dmaQ : i = 1 \/ (i - 1 \in DOMAIN dmaQ' /\ dmaQ'[i - 1] = dmaQ[i])
    BY <1>4
  <2>2. TagOnce(dmaQ) /\ TagOnce(stsQ)
    BY DEF IInv, TagsInFlight
  <2>3. \A i \in DOMAIN dmaQ' : dmaQ'[i].tag # c.tag
    BY <1>4, <2>1, <2>2 DEF TagOnce
  <2>4. TagsOf(dmaQ)' = TagsOf(dmaQ) \ {c.tag}
    <3>1. TagsOf(dmaQ)' \subseteq TagsOf(dmaQ) \ {c.tag}
      BY <2>1, <2>3 DEF TagsOf
    <3>2. TagsOf(dmaQ) \ {c.tag} \subseteq TagsOf(dmaQ)'
      <4>1. SUFFICES ASSUME NEW i \in DOMAIN dmaQ, dmaQ[i].tag # c.tag
                     PROVE  dmaQ[i].tag \in TagsOf(dmaQ)'
        BY DEF TagsOf
      <4>2. i - 1 \in DOMAIN dmaQ' /\ dmaQ'[i - 1] = dmaQ[i]
        BY <1>4, <2>1, <4>1
      <4>3. QED
        BY <4>2 DEF TagsOf
    <3>3. QED
      BY <3>1, <3>2
  <2>5. TagOnce(dmaQ)'
    BY <1>4, <2>1, <2>2 DEF TagOnce
  <2>6. /\ \A i \in DOMAIN stsQ : i \in DOMAIN stsQ' /\ stsQ'[i] = stsQ[i]
        /\ \A i \in DOMAIN stsQ' : i \in DOMAIN stsQ \/ (i = Len(stsQ) + 1 /\ stsQ'[i] = st)
        /\ \E i \in DOMAIN stsQ' : stsQ'[i] = st
    BY <1>6
  <2>7. TagsOf(stsQ)' = TagsOf(stsQ) \cup {c.tag}
    BY <2>6 DEF TagsOf
  <2>8. TagOnce(stsQ)'
    <3>1. \A i \in DOMAIN stsQ : stsQ[i].tag # c.tag
      BY <1>8 DEF TagsOf
    <3>2. QED
      BY <2>2, <2>6, <3>1 DEF TagOnce
  <2>9. /\ \A i \in DOMAIN cmdQ' : lookup'[cmdQ'[i].tag] = cmdQ'[i].buf
        /\ \A i \in DOMAIN dmaQ' : lookup'[dmaQ'[i].tag] = dmaQ'[i].buf
    BY <1>2, <2>1 DEF IInv, TagsInFlight
  <2>10. /\ UsedTags' = UsedTags /\ TagsOf(cmdQ)' = TagsOf(cmdQ)
         /\ TagOnce(cmdQ)' = TagOnce(cmdQ)
    BY <1>2 DEF UsedTags, TagsOf, TagOnce
  <2>11. QED
    BY <1>8, <2>4, <2>5, <2>7, <2>8, <2>9, <2>10 DEF IInv, TagsInFlight
<1>10. HeaderAvailable'
  BY <1>2, <1>6 DEF IInv, HeaderAvailable
(* The buffer written to is the one its tag stands for, so it is enqueued. *)
<1>11. /\ lookup[c.tag] = c.buf /\ c.buf \in Bufs /\ c.tag \in DmaTags
       /\ status[c.buf] = "ENQUEUED" /\ dmaTag[c.buf] = c.tag
  <2>1. lookup[c.tag] = c.buf /\ c.tag \in UsedTags
    BY <1>4, <1>8 DEF IInv, TagsInFlight
  <2>2. QED
    BY <1>4, <2>1 DEF IInv, TagAccounting, Commands
<1>12. HeadersInStep'
  <2>1. SUFFICES ASSUME NEW i \in DOMAIN stsQ', stsQ'[i].ok
                 PROVE  mem'[lookup[stsQ'[i].tag]] = hdrQ[i]
    BY <1>2 DEF HeadersInStep
  <2>2. CASE i = Len(stsQ) + 1
    <3>1. stsQ'[i] = st /\ ok /\ Len(hdrQ) = i
      BY <1>2, <1>6, <2>1, <2>2 DEF IInv, HeaderAvailable
    <3>2. mem'[c.buf] = stream
      BY <1>1, <1>11, <3>1 DEF IInv, TypeOK
    <3>3. QED
      BY <1>2, <1>11, <3>1, <3>2 DEF IInv, HeadersInStep
  <2>3. CASE i # Len(stsQ) + 1
    <3>1. i \in DOMAIN stsQ /\ stsQ'[i] = stsQ[i] /\ stsQ[i] \in DmaStatuses
      <4>1. i \in DOMAIN stsQ /\ stsQ'[i] = stsQ[i]
        BY <1>6, <2>3
      <4>2. stsQ \in Seq(DmaStatuses)
        BY DEF IInv, TypeOK
      <4>3. QED
        BY <4>1, <4>2
    <3>2. stsQ[i].tag # c.tag /\ stsQ[i].tag \in UsedTags
      BY <1>8, <3>1 DEF IInv, TagsInFlight, TagsOf
    <3>3. lookup[stsQ[i].tag] \in Bufs /\ lookup[stsQ[i].tag] # c.buf
      BY <1>11, <3>2 DEF IInv, TypeOK, TagAccounting, UsedTags
    <3>4. mem'[lookup[stsQ[i].tag]] = mem[lookup[stsQ[i].tag]]
      BY <1>1, <3>3 DEF IInv, TypeOK
    <3>5. QED
      BY <2>1, <3>1, <3>4 DEF IInv, HeadersInStep
  <2>4. QED
    BY <2>2, <2>3
<1>13. \A x \in Bufs : status[x] = "RESERVED" => mem'[x] = mem[x]
  BY <1>1, <1>11 DEF IInv, TypeOK
<1>14. HeaderMatchesPayload' /\ KeepsUnclaimed
  BY <1>2, <1>13 DEF IInv, HeaderMatchesPayload, KeepsUnclaimed
<1>15. HeldOnce' /\ HeldInfo'
  BY <1>2 DEF IInv, HeldOnce, HeldInfo
<1>16. QED
  BY <1>3, <1>7, <1>9, <1>10, <1>12, <1>14, <1>15 DEF IInv

LEMMA HardwareStep == IInv /\ Hardware => IInv'
<1> SUFFICES ASSUME IInv, Hardware PROVE IInv'
  OBVIOUS
<1>1. CASE TimerFire
  <2>1. TypeOK'
    BY HardwareType DEF IInv
  <2>2. QED
    BY <1>1, <2>1, QuietStep DEF TimerFire, netVars, mainVars, dmaVars
<1>2. QED
  BY <1>1, ArriveStep, FetchStep, WriteStep DEF Hardware

-----------------------------------------------------------------------------
(* The invariant, and the properties that follow from it.                  *)

LEMMA InitIInv == Init => IInv
<1> SUFFICES ASSUME Init PROVE IInv
  OBVIOUS
<1>1. TypeOK
  BY InitTypeOK
<1>2. UsedTags = {} /\ FreeTags = DmaTags
  BY DEF Init, UsedTags, FreeTags
<1>3. TagAccounting
  BY <1>2, FS_EmptySet DEF Init, TagAccounting
<1>4. TagsInFlight
  BY <1>2 DEF Init, TagsInFlight, TagsOf, TagOnce
<1>5. ChecksNeverFail
  BY <1>2, SizesAssumption DEF Init, ChecksNeverFail, DmaTags
<1>6. /\ HeaderAvailable /\ HeadersInStep /\ HeaderMatchesPayload
      /\ HeldOnce /\ HeldInfo
  BY DEF Init, HeaderAvailable, HeadersInStep, HeaderMatchesPayload, HeldOnce,
         HeldInfo
<1>7. QED
  BY <1>1, <1>3, <1>4, <1>5, <1>6 DEF IInv

LEMMA NextStep == IInv /\ [Next]_vars => IInv'
<1> SUFFICES ASSUME IInv, [Next]_vars PROVE IInv'
  OBVIOUS
<1>1. CASE UNCHANGED vars
  <2>1. TypeOK'
    BY <1>1 DEF IInv, TypeOK, vars, fwVars, isrVars, mainVars, irqVars, netVars, dmaVars
  <2>2. QED
    BY <1>1, <2>1, QuietStep DEF vars, mainVars, netVars
<1>2. QED
  BY <1>1, HardwareStep, IsrStep, MainStep DEF Next

(* The invariant from which the other theorems follow holds in every       *)
(* behaviour.                                                              *)
THEOREM Invariance == Spec => []IInv
<1>1. Init => IInv
  BY InitIInv
<1>2. IInv /\ [Next]_vars => IInv'
  BY NextStep
<1>3. QED
  BY <1>1, <1>2, PTL DEF Spec

(* Every variable keeps its type: see TypeOK.                              *)
THEOREM TypeCorrect == Spec => []TypeOK
<1>1. IInv => TypeOK
  BY DEF IInv
<1>2. QED
  BY Invariance, <1>1, PTL

(* dma_tag_lookup, the buffers' dma_tag and num_rx_enqueued agree, for any *)
(* number of buffers and tags.                                             *)
THEOREM TagsAccounted == Spec => []TagAccounting
<1>1. IInv => TagAccounting
  BY DEF IInv
<1>2. QED
  BY Invariance, <1>1, PTL

(* Each DMA tag in use is in exactly one of the three FIFOs, once.         *)
THEOREM TagsAreInFlight == Spec => []TagsInFlight
<1>1. IInv => TagsInFlight
  BY DEF IInv
<1>2. QED
  BY Invariance, <1>1, PTL

(* The handler's consistency checks on tags and buffers never fail.        *)
THEOREM ChecksHold == Spec => []ChecksNeverFail
<1>1. IInv => ChecksNeverFail
  BY DEF IInv
<1>2. QED
  BY Invariance, <1>1, PTL

(* The handler never waits for a header.                                   *)
THEOREM HeaderIsThere == Spec => []HeaderAvailable
<1>1. IInv => HeaderAvailable
  BY DEF IInv
<1>2. QED
  BY Invariance, <1>1, PTL

(* A received buffer holds the message its header fields describe.         *)
THEOREM HeaderDescribesPayload == Spec => []HeaderMatchesPayload
<1>1. IInv => HeaderMatchesPayload
  BY DEF IInv
<1>2. QED
  BY Invariance, <1>1, PTL

(* No buffer is claimed twice.                                             *)
THEOREM ClaimedOnce == Spec => []HeldOnce
<1>1. IInv => HeldOnce
  BY DEF IInv
<1>2. QED
  BY Invariance, <1>1, PTL

-----------------------------------------------------------------------------
(* What no step may do to a received segment.                              *)

LEMMA KeepsUnclaimedStep == IInv /\ [Next]_vars => [KeepsUnclaimed]_vars
<1> SUFFICES ASSUME IInv, Next PROVE KeepsUnclaimed
  OBVIOUS
<1> USE DEF fwVars, dmaVars
<1>1. CASE UNCHANGED <<status, rx, mem>>
  BY <1>1 DEF KeepsUnclaimed
<1>2. CASE DmaWrite
  BY <1>2, WriteStep
<1>3. CASE IsrDequeue
  <2> DEFINE b == lookup[Head(stsQ).tag]
  <2>1. b \in Bufs /\ status[b] = "ENQUEUED" /\ mem' = mem
    BY <1>3, DequeueSound DEF IsrDequeue
  <2>2. Reclaim(b, Head(stsQ).tag)
    BY <1>3, DequeueSound
  <2>3. \/ status' = [status EXCEPT ![b] = "RESERVED"]
        \/ status' = [status EXCEPT ![b] = "ERROR"]
    BY <1>3, DequeueSound
  <2>4. \A x \in Bufs : x # b => status'[x] = status[x] /\ rx'[x] = rx[x]
    BY <2>1, <2>2, <2>3 DEF Reclaim, IInv, TypeOK
  <2>5. QED
    BY <2>1, <2>4 DEF KeepsUnclaimed
<1>4. CASE \E tag \in DmaTags : IsrEnqueue(tag)
  <2>1. PICK tag \in DmaTags : IsrEnqueue(tag)
    BY <1>4
  <2>2. /\ status[enqIdx] = "IDLE" /\ UNCHANGED <<mem, rx>>
        /\ status' = [status EXCEPT ![enqIdx] = "ENQUEUED"]
    BY <2>1 DEF IsrEnqueue, Issue, Spare
  <2>3. QED
    BY <2>2 DEF KeepsUnclaimed, IInv, TypeOK
<1>5. CASE FreeOldest
  <2>1. /\ held # <<>> /\ held' = Tail(held) /\ UNCHANGED <<mem, rx>>
        /\ status' = [status EXCEPT ![Head(held)] = "IDLE"]
    BY <1>5 DEF FreeOldest
  <2>2. QED
    BY <2>1 DEF KeepsUnclaimed, IInv, TypeOK
<1>6. Hardware => DmaWrite \/ UNCHANGED <<status, rx, mem>>
  BY DEF Hardware, Arrive, DmaFetch, TimerFire
<1>7. Isr => \/ IsrDequeue \/ UNCHANGED <<status, rx, mem>>
             \/ \E tag \in DmaTags : IsrEnqueue(tag)
  BY DEF Isr, IsrEnter, IsrDequeueDone, IsrEnqueueDone, IsrEnqueueSkip, IsrArm
<1>8. Main => FreeOldest \/ UNCHANGED <<status, rx, mem>>
  BY DEF Main, EnableIrq, DisableIrq, StartWait, ScanMatch, ScanMiss, ScanAgain,
         ReceiveTimeout, CopyFails
<1>9. QED
  BY <1>1, <1>2, <1>3, <1>4, <1>5, <1>6, <1>7, <1>8 DEF Next

LEMMA ClaimsNextStep == IInv /\ [Next]_vars => [ClaimsNext]_vars
<1> SUFFICES ASSUME IInv, Next PROVE ClaimsNext
  OBVIOUS
<1>1. CASE ScanMatch
  <2>1. pos \in Bufs
    BY <1>1, SizesAssumption DEF ScanMatch, IInv, TypeOK, Bufs
  <2>2. req \in Requests /\ req.src \in Srcs
    BY <1>1, RequestsAssumption DEF ScanMatch, IInv, TypeOK
  <2>3. /\ status[pos] = "RESERVED" /\ rx[pos].src = req.src
        /\ rx[pos].seq = inSeq[req.src] + 1
        /\ inSeq' = [inSeq EXCEPT ![req.src] = @ + 1] /\ held' = Append(held, pos)
    BY <1>1 DEF ScanMatch, Matches
  <2>4. mem[pos] = rx[pos] /\ rx[pos] # NoMsg
    BY <2>1, <2>3 DEF IInv, HeaderMatchesPayload
  <2>5. /\ inSeq'[req.src] = inSeq[req.src] + 1
        /\ \A s \in Srcs : s # req.src => inSeq'[s] = inSeq[s]
    BY <2>2, <2>3 DEF IInv, TypeOK
  <2>6. QED
    BY <2>1, <2>2, <2>3, <2>4, <2>5 DEF ClaimsNext
<1>2. CASE inSeq' = inSeq
  BY <1>2 DEF ClaimsNext
<1>3. Hardware => inSeq' = inSeq
  BY DEF Hardware, Arrive, DmaFetch, DmaWrite, TimerFire, mainVars
<1>4. Isr => inSeq' = inSeq
  BY DEF Isr, IsrEnter, IsrDequeue, IsrDequeueDone, IsrEnqueueDone, IsrEnqueueSkip,
         IsrEnqueue, IsrArm, RaiseFromIsr, Raise, mainVars
<1>5. Main => ScanMatch \/ inSeq' = inSeq
  BY DEF Main, EnableIrq, DisableIrq, StartWait, ScanMiss, ScanAgain,
         ReceiveTimeout, FreeOldest, CopyFails, Raise, mainVars
<1>6. QED
  BY <1>1, <1>2, <1>3, <1>4, <1>5 DEF Next

(* A received segment is not overwritten before it was claimed and freed.  *)
THEOREM UnclaimedAreKept == Spec => UnclaimedKept
<1>1. IInv /\ [Next]_vars => [KeepsUnclaimed]_vars
  BY KeepsUnclaimedStep
<1>2. QED
  BY Invariance, <1>1, PTL DEF Spec, UnclaimedKept

(* Segments are claimed in order, with the payload of their number.        *)
THEOREM ClaimedInOrder == Spec => ClaimsInOrder
<1>1. IInv /\ [Next]_vars => [ClaimsNext]_vars
  BY ClaimsNextStep
<1>2. QED
  BY Invariance, <1>1, PTL DEF Spec, ClaimsInOrder

-----------------------------------------------------------------------------
(* No buffer is lost over TCP, without faults and timeouts: what arrives   *)
(* from a source keeps its order through the header FIFO and the list of   *)
(* buffers, so that it is still to be claimed.                             *)

Faultless == Reliable /\ ~ DmaFaults /\ ~ TimeoutSet

Reserved == {b \in Bufs : status[b] = "RESERVED"}

(* The headers that wait are of segments not claimed, in sending order.    *)
HeadersOrdered ==
  /\ \A s \in Srcs : inSeq[s] <= arrivals[s]
  /\ \A i \in DOMAIN hdrQ : /\ inSeq[hdrQ[i].src] < hdrQ[i].seq
                            /\ hdrQ[i].seq <= arrivals[hdrQ[i].src]
  /\ \A i, j \in DOMAIN hdrQ :
       i < j /\ hdrQ[i].src = hdrQ[j].src => hdrQ[i].seq < hdrQ[j].seq

(* A stored segment was sent before those whose headers wait, and is       *)
(* stored once.                                                            *)
StoredOrdered ==
  /\ \A b \in Reserved : rx[b].seq <= arrivals[rx[b].src]
  /\ \A b \in Reserved : \A i \in DOMAIN hdrQ :
       rx[b].src = hdrQ[i].src => rx[b].seq < hdrQ[i].seq
  /\ \A b, c \in Reserved : rx[b] = rx[c] => b = c

AllWell ==
  /\ \A i \in DOMAIN stsQ : stsQ[i].ok
  /\ \A b \in Bufs : status[b] # "ERROR"

OrderInv == HeadersOrdered /\ StoredOrdered /\ AllWell /\ NoSpareLost

LEMMA MessageFacts ==
  ASSUME TypeOK, HeaderMatchesPayload
  PROVE  /\ DOMAIN hdrQ = 1 .. Len(hdrQ) /\ Len(hdrQ) \in Nat
         /\ \A i \in DOMAIN hdrQ : hdrQ[i] \in Messages
         /\ \A i \in DOMAIN hdrQ : hdrQ[i].src \in Srcs /\ hdrQ[i].seq \in Nat
         /\ \A b \in Reserved : rx[b] \in Messages /\ rx[b].src \in Srcs /\ rx[b].seq \in Nat
         /\ \A s \in Srcs : inSeq[s] \in Nat /\ arrivals[s] \in Nat
<1>1. DOMAIN hdrQ = 1 .. Len(hdrQ) /\ Len(hdrQ) \in Nat /\ \A i \in DOMAIN hdrQ : hdrQ[i] \in Messages
  BY LenProperties, ElementOfSeq DEF TypeOK
<1>2. \A b \in Reserved : rx[b] \in Messages
  BY DEF TypeOK, HeaderMatchesPayload, Reserved
<1>3. \A s \in Srcs : inSeq[s] \in Nat /\ arrivals[s] \in Nat
  BY DEF TypeOK
<1>4. QED
  BY <1>1, <1>2, <1>3, MessagesAssumption

(* The steps that change nothing of this.                                  *)
LEMMA QuietOrder ==
  ASSUME OrderInv, UNCHANGED <<status, rx, inSeq, held, hdrQ, arrivals, stsQ>>
  PROVE  OrderInv'
<1>1. Reserved' = Reserved
  BY DEF Reserved
<1>2. HeadersOrdered' /\ AllWell' /\ NoSpareLost'
  BY DEF OrderInv, HeadersOrdered, AllWell, NoSpareLost
<1>3. StoredOrdered'
  BY <1>1 DEF OrderInv, StoredOrdered
<1>4. QED
  BY <1>2, <1>3 DEF OrderInv

LEMMA ArriveOrder ==
  ASSUME Faultless, IInv, OrderInv, NEW m \in Messages, Arrive(m)
  PROVE  OrderInv'
<1>1. /\ m.seq = arrivals[m.src] + 1 /\ arrivals' = [arrivals EXCEPT ![m.src] = @ + 1]
      /\ hdrQ' = Append(hdrQ, m) /\ UNCHANGED <<status, rx, inSeq, held, stsQ>>
  BY DEF Arrive, Faultless, fwVars, mainVars, dmaVars
<1>2. /\ DOMAIN hdrQ = 1 .. Len(hdrQ) /\ Len(hdrQ) \in Nat
      /\ \A i \in DOMAIN hdrQ : hdrQ[i].src \in Srcs /\ hdrQ[i].seq \in Nat
      /\ \A b \in Reserved : rx[b].src \in Srcs /\ rx[b].seq \in Nat
      /\ \A s \in Srcs : inSeq[s] \in Nat /\ arrivals[s] \in Nat
  BY MessageFacts DEF IInv
<1>3. m.src \in Srcs /\ m.seq \in Nat
  BY MessagesAssumption
<1>4. /\ \A s \in Srcs : arrivals[s] <= arrivals'[s] /\ arrivals'[s] \in Nat
      /\ arrivals'[m.src] = m.seq
  BY <1>1, <1>2, <1>3 DEF IInv, TypeOK
<1>5. /\ \A i \in DOMAIN hdrQ : hdrQ'[i] = hdrQ[i]
      /\ DOMAIN hdrQ' = 1 .. Len(hdrQ) + 1
      /\ hdrQ'[Len(hdrQ) + 1] = m
  BY <1>1, <1>2, AppendProperties DEF IInv, TypeOK
<1>6. \A i \in DOMAIN hdrQ' : i \in DOMAIN hdrQ \/ i = Len(hdrQ) + 1
  BY <1>2, <1>5
<1>7. HeadersOrdered'
  <2>1. \A s \in Srcs : inSeq'[s] <= arrivals'[s]
    BY <1>1, <1>2, <1>4 DEF OrderInv, HeadersOrdered
  <2>2. ASSUME NEW i \in DOMAIN hdrQ'
        PROVE  inSeq'[hdrQ'[i].src] < hdrQ'[i].seq /\ hdrQ'[i].seq <= arrivals'[hdrQ'[i].src]
    <3>1. CASE i \in DOMAIN hdrQ
      BY <1>1, <1>2, <1>4, <1>5, <3>1 DEF OrderInv, HeadersOrdered
    <3>2. CASE i = Len(hdrQ) + 1
      <4>1. inSeq[m.src] <= arrivals[m.src]
        BY <1>3 DEF OrderInv, HeadersOrdered
      <4>2. inSeq[m.src] \in Nat /\ arrivals[m.src] \in Nat
        BY <1>2, <1>3
      <4>3. inSeq[m.src] < m.seq
        BY <1>1, <4>1, <4>2
      <4>4. QED
        BY <1>1, <1>3, <1>4, <1>5, <3>2, <4>3
    <3>3. QED
      BY <1>6, <3>1, <3>2
  <2>3. ASSUME NEW i \in DOMAIN hdrQ', NEW j \in DOMAIN hdrQ', i < j, hdrQ'[i].src = hdrQ'[j].src
        PROVE  hdrQ'[i].seq < hdrQ'[j].seq
    <3>1. i \in DOMAIN hdrQ
      BY <1>2, <1>5, <2>3
    <3>2. CASE j \in DOMAIN hdrQ
      BY <1>5, <2>3, <3>1, <3>2 DEF OrderInv, HeadersOrdered
    <3>3. CASE j = Len(hdrQ) + 1
      <4>1. hdrQ[i].seq <= arrivals[hdrQ[i].src] /\ hdrQ[i].src = m.src
        BY <1>5, <2>3, <3>1, <3>3 DEF OrderInv, HeadersOrdered
      <4>2. hdrQ[i].seq \in Nat /\ arrivals[m.src] \in Nat
        BY <1>2, <1>3, <3>1
      <4>3. hdrQ[i].seq < m.seq
        BY <1>1, <4>1, <4>2
      <4>4. QED
        BY <1>5, <3>1, <3>3, <4>3
    <3>4. QED
      BY <1>6, <3>2, <3>3
  <2>4. QED
    BY <2>1, <2>2, <2>3 DEF HeadersOrdered
<1>8. StoredOrdered'
  <2>1. Reserved' = Reserved
    BY <1>1 DEF Reserved
  <2>2. ASSUME NEW b \in Reserved PROVE rx[b].seq <= arrivals'[rx[b].src]
    <3>1. rx[b].seq <= arrivals[rx[b].src]
      BY DEF OrderInv, StoredOrdered
    <3>2. rx[b].src \in Srcs /\ rx[b].seq \in Nat
      BY <1>2
    <3>3. QED
      BY <1>2, <1>4, <3>1, <3>2
  <2>3. ASSUME NEW b \in Reserved, NEW i \in DOMAIN hdrQ', rx[b].src = hdrQ'[i].src
        PROVE  rx[b].seq < hdrQ'[i].seq
    <3>1. CASE i \in DOMAIN hdrQ
      BY <1>5, <2>3, <3>1 DEF OrderInv, StoredOrdered
    <3>2. CASE i = Len(hdrQ) + 1
      <4>1. rx[b].seq <= arrivals[m.src]
        BY <1>5, <2>3, <3>2 DEF OrderInv, StoredOrdered
      <4>2. rx[b].seq \in Nat /\ arrivals[m.src] \in Nat
        BY <1>2, <1>3
      <4>3. rx[b].seq < m.seq
        BY <1>1, <4>1, <4>2
      <4>4. QED
        BY <1>5, <3>2, <4>3
    <3>3. QED
      BY <1>6, <3>1, <3>2
  <2>4. \A b, c \in Reserved : rx[b] = rx[c] => b = c
    BY DEF OrderInv, StoredOrdered
  <2>5. QED
    BY <1>1, <2>1, <2>2, <2>3, <2>4 DEF StoredOrdered
<1>9. AllWell' /\ NoSpareLost'
  BY <1>1 DEF OrderInv, AllWell, NoSpareLost
<1>10. QED
  BY <1>7, <1>8, <1>9 DEF OrderInv

LEMMA WriteOrder ==
  ASSUME Faultless, IInv, OrderInv, DmaWrite
  PROVE  OrderInv'
<1>1. UNCHANGED <<status, rx, inSeq, held, hdrQ, arrivals>>
  BY DEF DmaWrite, fwVars, mainVars
<1>2. PICK ok \in Outcomes : stsQ' = Append(stsQ, [tag |-> Head(dmaQ).tag, ok |-> ok])
  BY Zenon DEF DmaWrite
<1>3. PICK st : st = [tag |-> Head(dmaQ).tag, ok |-> ok]
  OBVIOUS
<1>4. st.ok /\ stsQ' = Append(stsQ, st)
  <2>1. ok = TRUE
    BY Zenon DEF Outcomes, Faultless
  <2>2. QED
    BY <1>2, <1>3, <2>1
<1>5. AllWell'
  <2>1. stsQ \in Seq(DmaStatuses)
    BY DEF IInv, TypeOK
  <2>2. stsQ \in Seq(DmaStatuses \cup {st})
    BY <2>1
  <2>3. /\ DOMAIN stsQ' = 1 .. Len(stsQ) + 1 /\ Len(stsQ) \in Nat
        /\ DOMAIN stsQ = 1 .. Len(stsQ)
        /\ \A i \in DOMAIN stsQ : stsQ'[i] = stsQ[i]
        /\ stsQ'[Len(stsQ) + 1] = st
    BY <1>4, <2>2
  <2>4. \A i \in DOMAIN stsQ' : i \in DOMAIN stsQ \/ i = Len(stsQ) + 1
    BY <2>3
  <2>5. QED
    BY <1>1, <1>4, <2>3, <2>4 DEF OrderInv, AllWell
<1>6. HeadersOrdered' /\ NoSpareLost'
  BY <1>1 DEF OrderInv, HeadersOrdered, NoSpareLost
<1>7. StoredOrdered'
  <2>1. Reserved' = Reserved
    BY <1>1 DEF Reserved
  <2>2. QED
    BY <1>1, <2>1 DEF OrderInv, StoredOrdered
<1>8. QED
  BY <1>5, <1>6, <1>7 DEF OrderInv

(* The oldest header becomes the fields of a buffer.                       *)
LEMMA DequeueOrder ==
  ASSUME Faultless, IInv, OrderInv, IsrDequeue
  PROVE  OrderInv'
<1>1. PICK sts, b : sts = Head(stsQ) /\ b = lookup[sts.tag]
  OBVIOUS
<1>2. /\ b \in Bufs /\ status[b] = "ENQUEUED" /\ hdrQ # <<>> /\ Reclaim(b, sts.tag)
      /\ \/ sts.ok /\ status' = [status EXCEPT ![b] = "RESERVED"]
            /\ UNCHANGED <<isrVars, mainVars, fault, irqVars>>
         \/ ~ sts.ok
  BY <1>1, DequeueSound
<1>3. TypeOK
  BY DEF IInv
<1>4. /\ stsQ # <<>> /\ stsQ' = Tail(stsQ) /\ arrivals' = arrivals
  BY DEF IsrDequeue
<1>5. /\ DOMAIN stsQ' = 1 .. Len(stsQ) - 1 /\ DOMAIN stsQ = 1 .. Len(stsQ)
      /\ Len(stsQ) \in Nat \ {0} /\ stsQ[1] = sts
      /\ \A i \in 1 .. Len(stsQ) - 1 : stsQ'[i] = stsQ[i + 1]
  BY <1>1, <1>3, <1>4, HeadTailProperties, LenProperties DEF TypeOK
<1>6. /\ sts.ok /\ status' = [status EXCEPT ![b] = "RESERVED"]
      /\ UNCHANGED <<held, inSeq>>
  <2>1. 1 \in DOMAIN stsQ
    BY <1>5
  <2>2. sts.ok
    BY <1>5, <2>1 DEF OrderInv, AllWell
  <2>3. QED
    BY <1>2, <2>2 DEF mainVars
<1>7. PICK h : h = hdrQ[1]
  OBVIOUS
<1>8. /\ DOMAIN hdrQ' = 1 .. Len(hdrQ) - 1 /\ DOMAIN hdrQ = 1 .. Len(hdrQ)
      /\ Len(hdrQ) \in Nat \ {0}
      /\ \A i \in 1 .. Len(hdrQ) - 1 : hdrQ'[i] = hdrQ[i + 1]
      /\ rx' = [rx EXCEPT ![b] = h]
  <2>1. hdrQ' = Tail(hdrQ) /\ rx' = [rx EXCEPT ![b] = Head(hdrQ)]
    BY <1>2 DEF Reclaim
  <2>2. QED
    BY <1>2, <1>3, <1>7, <2>1, HeadTailProperties, LenProperties DEF TypeOK
<1>9. /\ \A x \in Bufs \ {b} : status'[x] = status[x] /\ rx'[x] = rx[x]
      /\ status'[b] = "RESERVED" /\ rx'[b] = h
  BY <1>2, <1>3, <1>6, <1>8 DEF TypeOK
<1>10. Reserved' = Reserved \cup {b} /\ b \notin Reserved
  BY <1>2, <1>9 DEF Reserved
<1>11. \A x \in Reserved : x # b /\ rx'[x] = rx[x]
  BY <1>9, <1>10 DEF Reserved
<1>12. /\ \A i \in DOMAIN hdrQ : hdrQ[i].src \in Srcs /\ hdrQ[i].seq \in Nat
       /\ \A x \in Reserved : rx[x].src \in Srcs /\ rx[x].seq \in Nat
       /\ \A s \in Srcs : inSeq[s] \in Nat /\ arrivals[s] \in Nat
  BY MessageFacts DEF IInv
<1>13. /\ 1 \in DOMAIN hdrQ
       /\ \A i \in DOMAIN hdrQ' : i + 1 \in DOMAIN hdrQ /\ 1 < i + 1 /\ hdrQ'[i] = hdrQ[i + 1]
  BY <1>8
<1>14. inSeq[h.src] < h.seq /\ h.seq <= arrivals[h.src] /\ h.src \in Srcs /\ h.seq \in Nat
  BY <1>7, <1>12, <1>13 DEF OrderInv, HeadersOrdered
<1>15. HeadersOrdered'
  <2>1. \A i \in DOMAIN hdrQ' : /\ inSeq'[hdrQ'[i].src] < hdrQ'[i].seq
                                /\ hdrQ'[i].seq <= arrivals'[hdrQ'[i].src]
    BY <1>4, <1>6, <1>13 DEF OrderInv, HeadersOrdered
  <2>2. ASSUME NEW i \in DOMAIN hdrQ', NEW j \in DOMAIN hdrQ', i < j, hdrQ'[i].src = hdrQ'[j].src
        PROVE  hdrQ'[i].seq < hdrQ'[j].seq
    <3>1. i + 1 < j + 1
      BY <1>8, <2>2
    <3>2. i + 1 \in DOMAIN hdrQ /\ j + 1 \in DOMAIN hdrQ
          /\ hdrQ[i + 1].src = hdrQ[j + 1].src
      BY <1>13, <2>2
    <3>3. hdrQ[i + 1].seq < hdrQ[j + 1].seq
      BY <3>1, <3>2 DEF OrderInv, HeadersOrdered
    <3>4. QED
      BY <1>13, <3>3
  <2>3. \A s \in Srcs : inSeq'[s] <= arrivals'[s]
    BY <1>4, <1>6 DEF OrderInv, HeadersOrdered
  <2>4. QED
    BY <2>1, <2>2, <2>3 DEF HeadersOrdered
<1>16. StoredOrdered'
  <2>1. ASSUME NEW x \in Reserved' PROVE rx'[x].seq <= arrivals'[rx'[x].src]
    <3>1. CASE x = b
      BY <1>4, <1>9, <1>14, <3>1
    <3>2. CASE x \in Reserved
      BY <1>4, <1>11, <3>2 DEF OrderInv, StoredOrdered
    <3>3. QED
      BY <1>10, <3>1, <3>2
  <2>2. ASSUME NEW x \in Reserved', NEW i \in DOMAIN hdrQ', rx'[x].src = hdrQ'[i].src
        PROVE  rx'[x].seq < hdrQ'[i].seq
    <3>1. i + 1 \in DOMAIN hdrQ /\ 1 < i + 1 /\ hdrQ'[i] = hdrQ[i + 1]
      BY <1>13
    <3>2. CASE x = b
      BY <1>7, <1>9, <1>13, <2>2, <3>1, <3>2 DEF OrderInv, HeadersOrdered
    <3>3. CASE x \in Reserved
      BY <1>11, <2>2, <3>1, <3>3 DEF OrderInv, StoredOrdered
    <3>4. QED
      BY <1>10, <3>2, <3>3
  <2>3. ASSUME NEW x \in Reserved PROVE rx[x] # h
    <3>1. rx[x].src = h.src => rx[x].seq < h.seq
      BY <1>7, <1>13 DEF OrderInv, StoredOrdered
    <3>2. QED
      BY <1>12, <1>14, <3>1
  <2>4. ASSUME NEW x \in Reserved', NEW y \in Reserved', rx'[x] = rx'[y] PROVE x = y
    <3>1. CASE x = b \/ y = b
      BY <1>9, <1>10, <1>11, <2>3, <2>4, <3>1
    <3>2. CASE x # b /\ y # b
      <4>1. x \in Reserved /\ y \in Reserved /\ rx[x] = rx[y]
        BY <1>10, <1>11, <2>4, <3>2
      <4>2. QED
        BY <4>1 DEF OrderInv, StoredOrdered
    <3>3. QED
      BY <3>1, <3>2
  <2>5. QED
    BY <2>1, <2>2, <2>4 DEF StoredOrdered
<1>17. AllWell'
  <2>1. \A i \in DOMAIN stsQ' : i + 1 \in DOMAIN stsQ /\ stsQ'[i] = stsQ[i + 1]
    BY <1>5
  <2>2. QED
    BY <1>9, <2>1 DEF OrderInv, AllWell
<1>18. NoSpareLost'
  <2>1. SUFFICES ASSUME NEW x \in Bufs, status'[x] \notin {"IDLE", "ENQUEUED"}
                 PROVE  \/ \E i \in DOMAIN held' : held'[i] = x
                        \/ status'[x] = "RESERVED" /\ rx'[x].seq > inSeq'[rx'[x].src]
    BY DEF NoSpareLost
  <2>2. CASE x = b
    <3>1. h.seq > inSeq[h.src]
      BY <1>12, <1>14
    <3>2. QED
      BY <1>6, <1>9, <2>2, <3>1
  <2>3. CASE x # b
    <3>1. status'[x] = status[x] /\ rx'[x] = rx[x]
      BY <1>9, <2>3
    <3>2. QED
      BY <1>6, <2>1, <3>1 DEF OrderInv, NoSpareLost
  <2>4. QED
    BY <2>2, <2>3
<1>19. QED
  BY <1>15, <1>16, <1>17, <1>18 DEF OrderInv

(* A claim moves its source's number on by one; all else of that source    *)
(* has a later number.                                                     *)
LEMMA ScanMatchOrder ==
  ASSUME IInv, OrderInv, ScanMatch
  PROVE  OrderInv'
<1>1. pos \in Bufs /\ req.src \in Srcs
  <2>1. pos \in Bufs
    BY SizesAssumption DEF ScanMatch, IInv, TypeOK, Bufs
  <2>2. req \in Requests
    BY DEF ScanMatch, IInv, TypeOK
  <2>3. QED
    BY <2>1, <2>2, RequestsAssumption
<1>2. PICK s : s = req.src
  OBVIOUS
<1>3. /\ status[pos] = "RESERVED" /\ rx[pos].src = s /\ rx[pos].seq = inSeq[s] + 1
      /\ held' = Append(held, pos) /\ inSeq' = [inSeq EXCEPT ![s] = @ + 1]
      /\ UNCHANGED <<status, rx, hdrQ, arrivals, stsQ>>
  BY <1>2 DEF ScanMatch, Matches, fwVars, netVars, dmaVars
<1>4. /\ \A i \in DOMAIN hdrQ : hdrQ[i].src \in Srcs /\ hdrQ[i].seq \in Nat
      /\ \A x \in Reserved : rx[x] \in Messages /\ rx[x].src \in Srcs /\ rx[x].seq \in Nat
      /\ \A q \in Srcs : inSeq[q] \in Nat /\ arrivals[q] \in Nat
  BY MessageFacts DEF IInv
<1>5. /\ inSeq'[s] = inSeq[s] + 1 /\ s \in Srcs
      /\ \A q \in Srcs : q # s => inSeq'[q] = inSeq[q]
  BY <1>1, <1>2, <1>3 DEF IInv, TypeOK
<1>6. pos \in Reserved /\ Reserved' = Reserved
  BY <1>1, <1>3 DEF Reserved
<1>7. HeadersOrdered'
  <2>1. rx[pos].seq <= arrivals[s]
    BY <1>3, <1>6 DEF OrderInv, StoredOrdered
  <2>2. \A q \in Srcs : inSeq'[q] <= arrivals'[q]
    BY <1>3, <1>5, <2>1 DEF OrderInv, HeadersOrdered
  <2>3. ASSUME NEW i \in DOMAIN hdrQ
        PROVE  inSeq'[hdrQ[i].src] < hdrQ[i].seq /\ hdrQ[i].seq <= arrivals[hdrQ[i].src]
    <3>1. inSeq[hdrQ[i].src] < hdrQ[i].seq /\ hdrQ[i].seq <= arrivals[hdrQ[i].src]
      BY DEF OrderInv, HeadersOrdered
    <3>2. CASE hdrQ[i].src = s
      <4>1. rx[pos].seq < hdrQ[i].seq
        BY <1>3, <1>6, <3>2 DEF OrderInv, StoredOrdered
      <4>2. QED
        BY <1>3, <1>5, <3>1, <3>2, <4>1
    <3>3. CASE hdrQ[i].src # s
      BY <1>4, <1>5, <3>1, <3>3
    <3>4. QED
      BY <3>2, <3>3
  <2>4. \A i, j \in DOMAIN hdrQ :
          i < j /\ hdrQ[i].src = hdrQ[j].src => hdrQ[i].seq < hdrQ[j].seq
    BY DEF OrderInv, HeadersOrdered
  <2>5. QED
    BY <1>3, <2>2, <2>3, <2>4 DEF HeadersOrdered
<1>8. StoredOrdered' /\ AllWell'
  BY <1>3, <1>6 DEF OrderInv, StoredOrdered, AllWell
<1>9. NoSpareLost'
  <2>1. /\ DOMAIN held = 1 .. Len(held) /\ DOMAIN held' = 1 .. Len(held) + 1
        /\ \A i \in DOMAIN held : i \in DOMAIN held' /\ held'[i] = held[i]
        /\ Len(held) + 1 \in DOMAIN held' /\ held'[Len(held) + 1] = pos
    <3>1. held \in Seq(Bufs)
      BY DEF IInv, TypeOK
    <3>2. QED
      BY <1>1, <1>3, <3>1, AppendProperties, LenProperties
  <2>2. SUFFICES ASSUME NEW x \in Bufs, status[x] \notin {"IDLE", "ENQUEUED"}, x # pos,
                        ~ \E i \in DOMAIN held : held[i] = x
                 PROVE  status[x] = "RESERVED" /\ rx[x].seq > inSeq'[rx[x].src]
    BY <1>3, <2>1 DEF NoSpareLost
  <2>3. status[x] = "RESERVED" /\ rx[x].seq > inSeq[rx[x].src]
    BY <2>2 DEF OrderInv, NoSpareLost
  <2>4. x \in Reserved
    BY <2>3 DEF Reserved
  <2>5. CASE rx[x].src = s
    <3>1. rx[x] # rx[pos]
      BY <1>6, <2>2, <2>4 DEF OrderInv, StoredOrdered
    <3>2. rx[x].seq # rx[pos].seq
      BY <1>3, <1>4, <1>6, <2>4, <2>5, <3>1, MessagesAssumption
    <3>3. rx[x].seq \in Nat /\ inSeq[s] \in Nat /\ rx[pos].seq = inSeq[s] + 1
      BY <1>3, <1>4, <1>5, <2>4
    <3>4. rx[x].seq > inSeq[s] + 1
      BY <2>3, <2>5, <3>2, <3>3
    <3>5. QED
      BY <1>5, <2>3, <2>5, <3>4
  <2>6. CASE rx[x].src # s
    BY <1>4, <1>5, <2>3, <2>4, <2>6
  <2>7. QED
    BY <2>5, <2>6
<1>10. QED
  BY <1>7, <1>8, <1>9 DEF OrderInv

(* A buffer that was idle is enqueued, or the oldest one held is idle.     *)
LEMMA FreedOrder ==
  ASSUME IInv, OrderInv, NEW b \in Bufs, NEW s \in {"IDLE", "ENQUEUED"},
         status' = [status EXCEPT ![b] = s],
         UNCHANGED <<rx, inSeq, hdrQ, arrivals, stsQ>>,
         \/ status[b] = "IDLE" /\ held' = held
         \/ held # <<>> /\ b = Head(held) /\ held' = Tail(held)
  PROVE  OrderInv'
<1>1. /\ \A x \in Bufs \ {b} : status'[x] = status[x]
      /\ status'[b] = s /\ s # "RESERVED" /\ s # "ERROR"
  BY DEF IInv, TypeOK
<1>2. Reserved' \subseteq Reserved
  BY <1>1 DEF Reserved
<1>3. HeadersOrdered' /\ AllWell'
  BY <1>1 DEF OrderInv, HeadersOrdered, AllWell
<1>4. StoredOrdered'
  BY <1>2 DEF OrderInv, StoredOrdered
<1>5. ASSUME NEW i \in DOMAIN held, held[i] # b PROVE \E j \in DOMAIN held' : held'[j] = held[i]
  <2>1. CASE held' = held
    BY <1>5, <2>1
  <2>2. CASE held # <<>> /\ b = Head(held) /\ held' = Tail(held)
    <3>1. held \in Seq(Bufs)
      BY DEF IInv, TypeOK
    <3>2. /\ DOMAIN held = 1 .. Len(held) /\ Len(held) \in Nat
          /\ DOMAIN held' = 1 .. Len(held) - 1 /\ held[1] = b
          /\ \A j \in 1 .. Len(held) - 1 : held'[j] = held[j + 1]
      BY <2>2, <3>1, HeadTailProperties, LenProperties
    <3>3. i - 1 \in 1 .. Len(held) - 1 /\ (i - 1) + 1 = i
      BY <1>5, <3>2
    <3>4. held'[i - 1] = held[i]
      BY <3>2, <3>3
    <3>5. QED
      BY <3>2, <3>3, <3>4
  <2>3. QED
    BY <2>1, <2>2
<1>6. NoSpareLost'
  <2>1. SUFFICES ASSUME NEW x \in Bufs, status'[x] \notin {"IDLE", "ENQUEUED"}
                 PROVE  \/ \E i \in DOMAIN held' : held'[i] = x
                        \/ status'[x] = "RESERVED" /\ rx[x].seq > inSeq[rx[x].src]
    BY DEF NoSpareLost
  <2>2. x # b /\ status'[x] = status[x]
    BY <1>1, <2>1
  <2>3. \/ \E i \in DOMAIN held : held[i] = x
        \/ status[x] = "RESERVED" /\ rx[x].seq > inSeq[rx[x].src]
    BY <2>1, <2>2 DEF OrderInv, NoSpareLost
  <2>4. QED
    BY <1>5, <2>2, <2>3
<1>7. QED
  BY <1>3, <1>4, <1>6 DEF OrderInv

LEMMA OrderInit == Init => OrderInv
<1> SUFFICES ASSUME Init PROVE OrderInv
  OBVIOUS
<1>1. Reserved = {} /\ DOMAIN hdrQ = {} /\ DOMAIN stsQ = {}
  BY DEF Init, Reserved
<1>2. QED
  BY <1>1 DEF Init, OrderInv, HeadersOrdered, StoredOrdered, AllWell, NoSpareLost

LEMMA OrderStep ==
  ASSUME Faultless
  PROVE  IInv /\ OrderInv /\ [Next]_vars => OrderInv'
<1> SUFFICES ASSUME IInv, OrderInv, [Next]_vars PROVE OrderInv'
  OBVIOUS
<1>1. CASE \E m \in Messages : Arrive(m)
  BY <1>1, ArriveOrder
<1>2. CASE DmaWrite
  BY <1>2, WriteOrder
<1>3. CASE IsrDequeue
  BY <1>3, DequeueOrder
<1>4. CASE \E tag \in DmaTags : IsrEnqueue(tag)
  <2>1. PICK tag \in DmaTags : IsrEnqueue(tag)
    BY <1>4
  <2>2. enqIdx \in Bufs
    BY <2>1, SizesAssumption DEF IsrEnqueue, EnqueueReturns, IInv, TypeOK, Bufs
  <2>3. /\ status[enqIdx] = "IDLE" /\ status' = [status EXCEPT ![enqIdx] = "ENQUEUED"]
        /\ UNCHANGED <<rx, inSeq, hdrQ, arrivals, stsQ, held>>
    BY <2>1 DEF IsrEnqueue, Issue, Spare, mainVars, netVars
  <2>4. QED
    BY <2>2, <2>3, FreedOrder
<1>5. CASE ScanMatch
  BY <1>5, ScanMatchOrder
<1>6. CASE FreeOldest
  <2>1. /\ held # <<>> /\ status' = [status EXCEPT ![Head(held)] = "IDLE"]
        /\ held' = Tail(held) /\ UNCHANGED <<rx, inSeq, hdrQ, arrivals, stsQ>>
    BY <1>6 DEF FreeOldest, netVars, dmaVars
  <2>2. Head(held) \in Bufs
    BY <2>1, QueueTypes DEF IInv, TypeOK
  <2>3. QED
    BY <2>1, <2>2, FreedOrder
<1>7. CASE ReceiveTimeout \/ CopyFails
  BY <1>7 DEF ReceiveTimeout, CopyFails, Faultless
<1>8. CASE UNCHANGED <<status, rx, inSeq, held, hdrQ, arrivals, stsQ>>
  BY <1>8, QuietOrder
<1>9. Hardware => \/ \E m \in Messages : Arrive(m)
                  \/ DmaWrite \/ UNCHANGED <<status, rx, inSeq, held, hdrQ, arrivals, stsQ>>
  BY DEF Hardware, DmaFetch, TimerFire, fwVars, mainVars, netVars
<1>10. Isr => \/ IsrDequeue \/ (\E tag \in DmaTags : IsrEnqueue(tag))
              \/ UNCHANGED <<status, rx, inSeq, held, hdrQ, arrivals, stsQ>>
  BY DEF Isr, IsrEnter, IsrDequeueDone, IsrEnqueueDone, IsrEnqueueSkip, IsrArm,
         fwVars, mainVars, netVars, dmaVars
<1>11. Main => \/ ScanMatch \/ FreeOldest \/ ReceiveTimeout \/ CopyFails
               \/ UNCHANGED <<status, rx, inSeq, held, hdrQ, arrivals, stsQ>>
  BY DEF Main, EnableIrq, DisableIrq, StartWait, ScanMiss, ScanAgain,
         fwVars, mainVars, netVars, dmaVars
<1>12. UNCHANGED vars => UNCHANGED <<status, rx, inSeq, held, hdrQ, arrivals, stsQ>>
  BY DEF vars, fwVars, mainVars, netVars, dmaVars
<1>13. QED
  BY <1>1, <1>2, <1>3, <1>4, <1>5, <1>6, <1>7, <1>8, <1>9, <1>10, <1>11, <1>12 DEF Next

(* Over TCP, without failed transfers and timeouts, every buffer that is   *)
(* neither idle nor at the DMA is held by the receive in progress or keeps *)
(* a segment that is still to be claimed.                                  *)
THEOREM SparesKept == Faultless => (Spec => []NoSpareLost)
<1> SUFFICES ASSUME Faultless PROVE Spec => []NoSpareLost
  OBVIOUS
<1>1. OrderInv => NoSpareLost
  BY DEF OrderInv
<1>2. IInv /\ OrderInv /\ [Next]_vars => OrderInv'
  BY OrderStep
<1>3. QED
  BY <1>1, <1>2, OrderInit, InitIInv, NextStep, PTL DEF Spec

-----------------------------------------------------------------------------
(* The receives                                                            *)

RecvInv == call \in Calls /\ toMove \in Nat

LEMMA SegLenFact ==
  \A n \in Nat : n > 0 => SegLen(n) \in 1 .. TxnSize /\ n - SegLen(n) \in Nat
  BY CallsAssumption DEF SegLen

LEMMA RecvInitInv == RecvInit => RecvInv
  BY DEF RecvInit, RecvInv

LEMMA RecvStep == RecvInv /\ [RecvNext]_recvAll => RecvInv'
<1> SUFFICES ASSUME RecvInv, [RecvNext]_recvAll PROVE RecvInv'
  OBVIOUS
<1> USE DEF RecvInv
<1>1. CASE UNCHANGED <<call, toMove>>
  BY <1>1
<1>2. CASE \E c \in Calls : CallRecv(c)
  BY <1>2, CallsAssumption DEF CallRecv
<1>3. CASE TakeSegment
  <2>1. toMove' = toMove - SegLen(toMove) /\ call' = call
    BY <1>3 DEF TakeSegment
  <2>2. CASE toMove > 0
    BY <2>1, <2>2, SegLenFact
  <2>3. CASE toMove = 0
    BY <2>1, <2>3, CallsAssumption DEF SegLen
  <2>4. QED
    BY <2>2, <2>3
<1>4. RecvNext => \/ UNCHANGED <<call, toMove>>
                  \/ \E c \in Calls : CallRecv(c)
                  \/ TakeSegment
  BY DEF RecvNext, Receive, AwaitSegment, ScanOn, GiveUp, AckSegment, AckBadRead,
         AckBadWrite, AckTimeout, FinishRecv, Housekeep, Handler, CopySegment,
         recvVars, callVars, copyVars
<1>5. QED
  BY <1>1, <1>2, <1>3, <1>4 DEF recvAll, recvVars, callVars

(* What each step of the receive is for the buffers.                       *)
LEMMA RecvRefines == RecvInv /\ [RecvNext]_recvAll => [Next]_vars
<1> SUFFICES ASSUME RecvInv, RecvNext PROVE Next \/ UNCHANGED vars
  BY DEF recvAll
<1>1. CASE \/ \E c \in Calls : CallRecv(c)
           \/ FinishRecv
           \/ CopySegment
  BY <1>1 DEF CallRecv, FinishRecv, CopySegment
<1>2. CASE AwaitSegment
  <2>1. toMove > 0 /\ toMove \in Nat /\ call \in Calls
    BY <1>2 DEF AwaitSegment, RecvInv
  <2>2. [src |-> call.src, len |-> SegLen(toMove), tag |-> call.tag] \in Requests
    BY <2>1, SegLenFact, CallsAssumption
  <2>3. \E r \in Requests : StartWait(r)
    BY <1>2, <2>2 DEF AwaitSegment
  <2>4. QED
    BY <2>3 DEF Next, Main
<1>3. CASE TakeSegment \/ ScanOn
  BY <1>3 DEF TakeSegment, ScanOn, Next, Main
<1>4. CASE GiveUp
  BY <1>4 DEF GiveUp, Next, Main
<1>5. CASE AckSegment
  BY <1>5 DEF AckSegment, Next, Main
<1>6. CASE AckBadRead \/ AckBadWrite \/ AckTimeout
  BY <1>6 DEF AckBadRead, AckBadWrite, AckTimeout, Next, Main
<1>7. CASE Housekeep
  BY <1>7 DEF Housekeep, Next, Main
<1>8. CASE Handler \/ (Hardware /\ UNCHANGED recvVars)
  BY <1>8 DEF Handler, Next
<1>9. QED
  BY <1>1, <1>2, <1>3, <1>4, <1>5, <1>6, <1>7, <1>8 DEF RecvNext, Receive

(* The receive implements RxBuffers.                                       *)
THEOREM ReceiveImplementsBuffers == RecvSpec => BuffersSpec
<1>1. RecvInit => Init /\ RecvInv
  BY RecvInitInv DEF RecvInit
<1>2. RecvInv /\ [RecvNext]_recvAll => RecvInv' /\ [Next]_vars
  BY RecvStep, RecvRefines
<1>3. QED
  BY <1>1, <1>2, PTL DEF RecvSpec, BuffersSpec

(* While receives run, a received buffer holds the message its header      *)
(* describes, no received segment is overwritten and none is skipped.      *)
THEOREM ReceiveKeepsSegments ==
  RecvSpec => []HeaderMatchesPayload /\ UnclaimedKept /\ ClaimsInOrder
<1>1. Spec <=> BuffersSpec
  BY PTL DEF Spec, BuffersSpec
<1>2. QED
  BY <1>1, ReceiveImplementsBuffers, HeaderDescribesPayload, UnclaimedAreKept,
     ClaimedInOrder, PTL

-----------------------------------------------------------------------------
(* What a receive has claimed, copied and acknowledged.                    *)
(*                                                                         *)
(* The segments of a call are counted from 0. The call has claimed as many *)
(* as the source's sequence number has moved on, holds the last of them in *)
(* held, and has acknowledged the others. Of those held, the oldest have   *)
(* their statuses queued and the rest are commands DMA1 has not executed.  *)

(* Where segment k starts, and what is left of the message from there on.  *)
At(k)   == k * TxnSize
Rest(k) == IF At(k) < call.len THEN call.len - At(k) ELSE 0

Issued == inSeq[call.src] - first
Acked  == Issued - Len(held)

(* m is the message that segment k of the call has to be.                  *)
IsSegment(m, k) ==
  /\ m # NoMsg /\ m.src = call.src
  /\ m.seq = first + k + 1 /\ m.len = SegLen(call.len - At(k))

Stored(k) == At(k) \in Offsets => IsSegment(dst[At(k)], k)

RecvType ==
  /\ first \in Nat /\ DOMAIN dst = Offsets
  /\ IsSeq(copyQ) /\ IsSeq(rdSts) /\ IsSeq(wrSts)

NothingHeld == retval # "running" => req = NoMsg /\ held = <<>>

(* remaining_to_move and remaining_to_ack, by the segments counted.        *)
Progress ==
  retval = "running" =>
    /\ Issued \in Nat /\ Acked \in Nat
    /\ toMove = Rest(Issued) /\ toAck = Rest(Acked)
    /\ Issued > 0 => At(Issued - 1) < call.len
    /\ req # NoMsg => /\ toMove > 0
                      /\ req = [src |-> call.src, len |-> SegLen(toMove), tag |-> call.tag]

HeldRight ==
  retval = "running" => \A j \in DOMAIN held : IsSegment(mem[held[j]], Acked + j - 1)

(* The statuses and the commands in DMA1's queues are those of the buffers *)
(* held, in the order of held.                                             *)
Copying ==
  retval = "running" /\ quiet =>
    /\ Len(wrSts) = Len(rdSts) /\ Len(held) = Len(rdSts) + Len(copyQ)
    /\ \A i \in DOMAIN copyQ :
         /\ copyQ[i].call = ncalls /\ copyQ[i].buf = held[Len(rdSts) + i]
         /\ copyQ[i].at = At(Acked + Len(rdSts) + i - 1)

(* What was acknowledged is in the destination, and so is what will be.    *)
Copied ==
  retval = "running" /\ quiet =>
    /\ \A k \in Nat : k < Acked => Stored(k)
    /\ \A j \in DOMAIN rdSts : rdSts[j].ok /\ wrSts[j].ok => Stored(Acked + j - 1)

Returned ==
  retval = "ok" /\ quiet =>
    copyQ = <<>> /\ \A k \in Nat : At(k) < call.len => Stored(k)

CopyInv ==
  RecvType /\ NothingHeld /\ Progress /\ HeldRight /\ Copying /\ Copied /\ Returned

LEMMA OffsetNext == \A k \in Nat : At(k) \in Nat /\ At(k + 1) = At(k) + TxnSize
  BY CallsAssumption DEF At

(* A later segment lies further on.                                        *)
LEMMA OffsetOrder == \A j, k \in Nat : j < k => At(j) < At(k)
<1>1. TxnSize \in Nat /\ TxnSize > 0
  BY CallsAssumption
<1>2. \A d \in Nat : d > 0 => d * TxnSize > 0
  BY <1>1
<1>3. SUFFICES ASSUME NEW j \in Nat, NEW k \in Nat, j < k PROVE At(j) < At(k)
  OBVIOUS
<1>4. k * TxnSize = j * TxnSize + (k - j) * TxnSize
  BY <1>1
<1>5. (k - j) * TxnSize > 0 /\ j * TxnSize \in Nat /\ (k - j) * TxnSize \in Nat
  BY <1>1, <1>2, <1>3
<1>6. QED
  BY <1>4, <1>5 DEF At

LEMMA OffsetType == \A k \in Nat : At(k) \in Nat
  BY OffsetNext

LEMMA CallFacts == call \in Calls => call.len \in Nat /\ call.len > 0 /\ call.src \in Srcs
  BY CallsAssumption

LEMMA RestFacts ==
  ASSUME call \in Calls, NEW k \in Nat
  PROVE  /\ Rest(k) \in Nat
         /\ Rest(k) > 0 <=> At(k) < call.len
         /\ At(k) < call.len => Rest(k) = call.len - At(k)
  BY OffsetType, CallFacts DEF Rest

(* After segment k, the rest is smaller by its length.                     *)
LEMMA RestNext ==
  ASSUME call \in Calls, NEW k \in Nat, At(k) < call.len
  PROVE  Rest(k) - SegLen(Rest(k)) = Rest(k + 1)
<1> DEFINE a == At(k)
           b == At(k + 1)
<1> HIDE DEF a, b
<1>1. /\ a \in Nat /\ b = a + TxnSize
      /\ call.len \in Nat /\ TxnSize \in Nat /\ TxnSize > 0
  BY OffsetNext, CallFacts, CallsAssumption DEF a, b
<1>2. Rest(k) = IF a < call.len THEN call.len - a ELSE 0
  BY DEF Rest, a
<1>3. Rest(k + 1) = IF b < call.len THEN call.len - b ELSE 0
  BY DEF Rest, b
<1>4. QED
  BY <1>1, <1>2, <1>3 DEF SegLen, a

LEMMA RecvTypeStep == IInv /\ RecvInv /\ RecvType /\ [RecvNext]_recvAll => RecvType'
<1> SUFFICES ASSUME IInv, RecvInv, RecvType, [RecvNext]_recvAll PROVE RecvType'
  OBVIOUS
<1> USE DEF RecvType
<1>1. CASE UNCHANGED <<first, copyVars>>
  BY <1>1 DEF copyVars
<1>2. ASSUME NEW c \in Calls, CallRecv(c) PROVE RecvType'
  <2>1. inSeq[c.src] \in Nat
    BY CallsAssumption DEF IInv, TypeOK
  <2>2. QED
    BY <1>2, <2>1 DEF CallRecv
<1>3. CASE TakeSegment
  <2>1. IsSeq(copyQ')
    BY <1>3, AppendFacts DEF TakeSegment
  <2>2. QED
    BY <1>3, <2>1 DEF TakeSegment
<1>4. CASE AckSegment \/ AckBadRead \/ AckBadWrite
  <2>1. /\ rdSts # <<>> /\ rdSts' = Tail(rdSts)
        /\ wrSts # <<>> /\ wrSts' \in {wrSts, Tail(wrSts)}
        /\ UNCHANGED <<first, copyQ, dst>>
    BY <1>4 DEF AckSegment, AckBadRead, AckBadWrite
  <2>2. IsSeq(rdSts') /\ IsSeq(wrSts')
    BY <2>1, TailFacts
  <2>3. QED
    BY <2>1, <2>2
<1>5. CASE CopySegment
  <2>1. /\ copyQ # <<>> /\ copyQ' = Tail(copyQ) /\ first' = first
        /\ \E x : rdSts' = Append(rdSts, x)
        /\ \E x : wrSts' = Append(wrSts, x)
        /\ DOMAIN dst' = DOMAIN dst
    BY <1>5 DEF CopySegment, callVars
  <2>2. IsSeq(copyQ') /\ IsSeq(rdSts') /\ IsSeq(wrSts')
    BY <2>1, TailFacts, AppendFacts
  <2>3. QED
    BY <2>1, <2>2
<1>6. RecvNext => \/ UNCHANGED <<first, copyVars>>
                  \/ \E c \in Calls : CallRecv(c)
                  \/ TakeSegment \/ AckSegment \/ AckBadRead \/ AckBadWrite
                  \/ CopySegment
  BY DEF RecvNext, Receive, AwaitSegment, ScanOn, GiveUp, AckTimeout, FinishRecv,
         Housekeep, Handler, recvVars, callVars
<1>7. QED
  BY <1>1, <1>2, <1>3, <1>4, <1>5, <1>6 DEF recvAll, recvVars, callVars

(* Whatever the handler, the network and the DMAs do, the segments held    *)
(* stay in their buffers.                                                  *)
LEMMA HeldUndisturbed ==
  ASSUME IInv, [Next]_vars
  PROVE  \A j \in DOMAIN held : mem'[held[j]] = mem[held[j]]
<1> SUFFICES ASSUME NEW j \in DOMAIN held PROVE mem'[held[j]] = mem[held[j]]
  OBVIOUS
<1>1. held[j] \in Bufs /\ status[held[j]] = "RESERVED"
  <2>1. held \in Seq(Bufs)
    BY DEF IInv, TypeOK
  <2>2. QED
    BY <2>1 DEF IInv, HeldOnce
<1>2. KeepsUnclaimed \/ UNCHANGED vars
  BY KeepsUnclaimedStep
<1>3. QED
  BY <1>1, <1>2 DEF KeepsUnclaimed, vars, dmaVars

(* A step of the handler, the hardware or the scan that finds nothing.     *)
LEMMA BesideStep ==
  ASSUME IInv, CopyInv, [Next]_vars,
         UNCHANGED <<held, inSeq, req, retval, call, toMove, toAck, ncalls, first, quiet,
                     copyVars>>
  PROVE  CopyInv'
<1> USE DEF copyVars
<1>1. RecvType' /\ NothingHeld' /\ Progress'
  BY DEF CopyInv, RecvType, NothingHeld, Progress, Issued, Acked, Rest, At
<1>2. HeldRight'
  BY HeldUndisturbed DEF CopyInv, HeldRight, IsSegment, Issued, Acked, At
<1>3. Copying' /\ Copied' /\ Returned'
  BY DEF CopyInv, Copying, Copied, Returned, Stored, IsSegment, Issued, Acked, At
<1>4. QED
  BY <1>1, <1>2, <1>3 DEF CopyInv

(* A step that ends the call with an error.                                *)
LEMMA FailStep ==
  ASSUME RecvType', retval' = "failed", req' = NoMsg, held' = <<>>
  PROVE  CopyInv'
  BY DEF CopyInv, NothingHeld, Progress, HeldRight, Copying, Copied, Returned

LEMMA CallStep ==
  ASSUME IInv, CopyInv, RecvType', NEW c \in Calls, CallRecv(c)
  PROVE  CopyInv'
<1>1. /\ c.src \in Srcs /\ c.len \in Nat /\ c.len > 0
  BY CallsAssumption
<1>2. /\ held' = <<>> /\ req' = NoMsg /\ retval' = "running" /\ inSeq' = inSeq
      /\ call' = c /\ first' = inSeq[c.src] /\ toMove' = c.len /\ toAck' = c.len
      /\ quiet' = (copyQ = <<>> /\ rdSts = <<>> /\ wrSts = <<>>)
      /\ UNCHANGED <<copyQ, rdSts, wrSts>>
  BY DEF CallRecv, vars, mainVars, CopyInv, NothingHeld
<1>3. inSeq[c.src] \in Nat /\ At(0) = 0
  BY <1>1, CallsAssumption DEF IInv, TypeOK, At
<1>4. Issued' = 0 /\ Acked' = 0 /\ Rest(0)' = c.len
  BY <1>1, <1>2, <1>3 DEF Issued, Acked, Rest, At
<1>5. NothingHeld' /\ Progress' /\ HeldRight' /\ Returned'
  BY <1>2, <1>4 DEF NothingHeld, Progress, HeldRight, Returned
<1>6. Copying' /\ Copied'
  <2>1. SUFFICES ASSUME quiet' PROVE Copying' /\ Copied'
    BY DEF Copying, Copied
  <2>2. copyQ' = <<>> /\ rdSts' = <<>> /\ wrSts' = <<>>
    BY <1>2, <2>1
  <2>3. QED
    BY <1>2, <1>4, <2>2 DEF Copying, Copied
<1>7. QED
  BY <1>5, <1>6 DEF CopyInv

LEMMA AwaitStep ==
  ASSUME IInv, CopyInv, AwaitSegment
  PROVE  CopyInv'
<1>1. /\ retval = "running" /\ toMove > 0
      /\ req' = [src |-> call.src, len |-> SegLen(toMove), tag |-> call.tag]
      /\ UNCHANGED <<held, inSeq, mem, recvVars>>
  BY DEF AwaitSegment, Running, StartWait, dmaVars
<1> USE DEF recvVars, callVars, copyVars
<1>2. RecvType' /\ NothingHeld' /\ Progress' /\ HeldRight'
  BY <1>1 DEF CopyInv, RecvType, NothingHeld, Progress, HeldRight, IsSegment,
              Issued, Acked, Rest, At
<1>3. Copying' /\ Copied' /\ Returned'
  BY <1>1 DEF CopyInv, Copying, Copied, Returned, Stored, IsSegment, Issued, Acked, At
<1>4. QED
  BY <1>2, <1>3 DEF CopyInv

LEMMA FinishStep ==
  ASSUME IInv, RecvInv, CopyInv, FinishRecv
  PROVE  CopyInv'
<1>1. /\ retval = "running" /\ req = NoMsg /\ toMove = 0 /\ toAck = 0 /\ retval' = "ok"
      /\ UNCHANGED <<vars, call, first, quiet, copyVars>>
  BY DEF FinishRecv, Running
<1>2. /\ Issued \in Nat /\ Acked \in Nat /\ Len(held) \in Nat /\ call \in Calls
      /\ Rest(Acked) = 0 /\ Acked = Issued - Len(held)
      /\ Issued > 0 => At(Issued - 1) < call.len
  <2>1. held \in Seq(Bufs)
    BY DEF IInv, TypeOK
  <2>2. QED
    BY <1>1, <2>1 DEF CopyInv, Progress, RecvInv, Acked
<1>3. At(Acked) \in Nat /\ call.len \in Nat /\ At(Acked) >= call.len
  <2>1. At(Acked) \in Nat /\ call.len \in Nat
    BY <1>2, OffsetType, CallFacts
  <2>2. ~ (At(Acked) < call.len)
    <3>1. At(Acked) < call.len => Rest(Acked) > 0
      BY <1>2, RestFacts
    <3>2. ~ (Rest(Acked) > 0)
      BY <1>2
    <3>3. QED
      BY <3>1, <3>2
  <2>3. QED
    BY <2>1, <2>2
<1>4. Len(held) = 0
  <2>1. SUFFICES ASSUME Len(held) > 0 PROVE FALSE
    BY <1>2
  <2>2. Issued > 0 /\ Issued - 1 \in Nat /\ (Acked = Issued - 1 \/ Acked < Issued - 1)
    BY <1>2, <2>1
  <2>3. At(Issued - 1) \in Nat /\ At(Issued - 1) >= At(Acked)
    <3>1. At(Issued - 1) \in Nat
      BY <2>2, OffsetType
    <3>2. At(Acked) = At(Issued - 1) \/ At(Acked) < At(Issued - 1)
      BY <1>2, <2>2, OffsetOrder
    <3>3. QED
      BY <1>3, <3>1, <3>2
  <2>4. QED
    BY <1>2, <1>3, <2>2, <2>3
<1>5. held = <<>>
  BY <1>4 DEF IInv, TypeOK
<1>6. Returned'
  <2>1. SUFFICES ASSUME quiet PROVE Returned'
    BY <1>1 DEF Returned
  <2>2. copyQ = <<>>
    <3>1. Len(copyQ) = 0
      BY <1>1, <1>4, <2>1, EmptyFacts DEF CopyInv, Copying, RecvType
    <3>2. QED
      BY <3>1, EmptyFacts DEF CopyInv, RecvType
  <2>3. ASSUME NEW k \in Nat, At(k) < call.len PROVE Stored(k)
    <3>1. k < Acked
      <4>1. At(k) \in Nat
        BY OffsetType
      <4>2. Acked < k => At(Acked) < At(k)
        BY <1>2, OffsetOrder
      <4>3. k # Acked /\ ~ (Acked < k)
        BY <1>3, <2>3, <4>1, <4>2
      <4>4. QED
        BY <1>2, <4>3
    <3>2. QED
      BY <1>1, <2>1, <3>1 DEF CopyInv, Copied
  <2>4. QED
    BY <1>1, <2>2, <2>3 DEF Returned, Stored, IsSegment, At, copyVars
<1>7. RecvType' /\ NothingHeld' /\ Progress' /\ HeldRight' /\ Copying' /\ Copied'
  BY <1>1, <1>5 DEF CopyInv, RecvType, NothingHeld, Progress, HeldRight, Copying,
                    Copied, copyVars, vars, mainVars
<1>8. QED
  BY <1>6, <1>7 DEF CopyInv

(* The next segment is claimed and its copy commanded.                     *)
LEMMA TakeStep ==
  ASSUME IInv, RecvInv, CopyInv, RecvType', TakeSegment
  PROVE  CopyInv'
<1>1. /\ retval = "running" /\ req # NoMsg /\ pos \in Bufs /\ Matches(pos, req)
      /\ inSeq' = [inSeq EXCEPT ![req.src] = @ + 1]
      /\ held' = Append(held, pos) /\ req' = NoMsg
      /\ UNCHANGED <<retval, call, first, quiet, ncalls, mem, toAck, rdSts, wrSts, dst>>
      /\ toMove' = toMove - SegLen(toMove)
      /\ copyQ' = Append(copyQ, [buf |-> pos, at |-> call.len - toMove,
                                 after |-> dma_tag_tmp, call |-> ncalls])
  <2>1. pos \in Bufs
    BY SizesAssumption DEF TakeSegment, ScanMatch, IInv, TypeOK, Bufs
  <2>2. QED
    BY <2>1 DEF TakeSegment, Running, ScanMatch, dmaVars
<1>2. /\ call \in Calls /\ call.src \in Srcs /\ call.len \in Nat
      /\ Issued \in Nat /\ Acked \in Nat /\ Issued = Acked + Len(held)
      /\ toMove = Rest(Issued) /\ toMove > 0 /\ toAck = Rest(Acked)
      /\ req = [src |-> call.src, len |-> SegLen(toMove), tag |-> call.tag]
      /\ first \in Nat /\ inSeq[call.src] \in Nat /\ Issued = inSeq[call.src] - first
  <2>1. held \in Seq(Bufs) /\ inSeq \in [Srcs -> Nat]
    BY DEF IInv, TypeOK
  <2>2. call \in Calls /\ call.src \in Srcs /\ call.len \in Nat
    BY CallFacts DEF RecvInv
  <2>3. Issued = inSeq[call.src] - first /\ Acked = Issued - Len(held)
    BY DEF Issued, Acked
  <2>4. first \in Nat /\ inSeq[call.src] \in Nat /\ Len(held) \in Nat
    BY <2>1, <2>2 DEF CopyInv, RecvType
  <2>5. QED
    BY <1>1, <2>2, <2>3, <2>4 DEF CopyInv, Progress
<1>3. /\ At(Issued) \in Nat /\ At(Issued) < call.len /\ toMove = call.len - At(Issued)
      /\ call.len - toMove = At(Issued)
  <2>1. At(Issued) \in Nat
    BY <1>2, OffsetType
  <2>2. At(Issued) < call.len /\ toMove = call.len - At(Issued)
    BY <1>2, RestFacts
  <2>3. QED
    BY <1>2, <2>1, <2>2
<1>4. /\ Len(held) \in Nat /\ DOMAIN held = 1 .. Len(held)
      /\ DOMAIN held' = 1 .. Len(held) + 1 /\ Len(held') = Len(held) + 1
      /\ \A j \in DOMAIN held : held'[j] = held[j]
      /\ held'[Len(held) + 1] = pos
  <2>1. IsSeq(held)
    BY DEF IsSeq, IInv, TypeOK
  <2>2. QED
    BY <1>1, <2>1, AppendFacts
<1>5. Issued' = Issued + 1 /\ Acked' = Acked
  <2>1. inSeq'[call.src] = inSeq[call.src] + 1
    BY <1>1, <1>2 DEF IInv, TypeOK
  <2>2. call' = call /\ first' = first
    BY <1>1
  <2>3. Issued' = Issued + 1
    BY <1>2, <2>1, <2>2 DEF Issued
  <2>4. Acked' = Issued' - Len(held')
    BY DEF Acked
  <2>5. Acked \in Nat /\ Len(held) \in Nat /\ Issued = Acked + Len(held)
    BY <1>2, <1>4
  <2>6. Len(held') = Len(held) + 1
    BY <1>4
  <2>7. QED
    BY <2>3, <2>4, <2>5, <2>6
<1>6. Progress'
  <2>1. toMove' = Rest(Issued + 1)
    BY <1>1, <1>2, <1>3, RestNext
  <2>2. toMove' = Rest(Issued)'
    BY <1>1, <1>5, <2>1 DEF Rest, At
  <2>3. toAck' = Rest(Acked)'
    BY <1>1, <1>2, <1>5 DEF Rest, At
  <2>4. At(Issued - 1)' < call'.len
    <3>1. (Issued - 1)' = Issued
      BY <1>2, <1>5
    <3>2. QED
      BY <1>1, <1>3, <3>1 DEF At
  <2>5. QED
    <3>1. Issued' \in Nat /\ req' = NoMsg
      BY <1>1, <1>2, <1>5
    <3>2. Acked' \in Nat
      BY <1>2, <1>5
    <3>3. QED
      BY <2>2, <2>3, <2>4, <3>1, <3>2 DEF Progress
(* The scan compared the header, and the header describes the payload.     *)
<1>7. IsSegment(mem[pos], Issued)
  <2>1. status[pos] = "RESERVED" /\ rx[pos].src = req.src /\ rx[pos].len = req.len
        /\ rx[pos].seq = inSeq[req.src] + 1
    BY <1>1 DEF Matches
  <2>2. mem[pos] = rx[pos] /\ rx[pos] # NoMsg
    BY <1>1, <2>1 DEF IInv, HeaderMatchesPayload
  <2>3. mem[pos].seq = first + Issued + 1
    BY <1>2, <2>1, <2>2
  <2>4. mem[pos].src = call.src /\ mem[pos].len = SegLen(call.len - At(Issued))
    BY <1>2, <1>3, <2>1, <2>2
  <2>5. QED
    BY <2>2, <2>3, <2>4 DEF IsSegment
<1>8. HeldRight'
  <2>1. SUFFICES ASSUME NEW j \in DOMAIN held'
                 PROVE  IsSegment(mem[held'[j]], Acked + j - 1)
    BY <1>1, <1>5 DEF HeldRight, IsSegment, At
  <2>2. CASE j = Len(held) + 1
    BY <1>2, <1>4, <1>7, <2>2
  <2>3. CASE j # Len(held) + 1
    <3>1. j \in DOMAIN held
      BY <1>4, <2>1, <2>3
    <3>2. QED
      BY <1>1, <1>4, <3>1 DEF CopyInv, HeldRight
  <2>4. QED
    BY <2>2, <2>3
<1>9. Copying'
  <2>1. SUFFICES ASSUME quiet PROVE Copying'
    BY <1>1 DEF Copying
  <2>2. /\ Len(wrSts) = Len(rdSts) /\ Len(held) = Len(rdSts) + Len(copyQ)
        /\ \A i \in DOMAIN copyQ :
             /\ copyQ[i].call = ncalls /\ copyQ[i].buf = held[Len(rdSts) + i]
             /\ copyQ[i].at = At(Acked + Len(rdSts) + i - 1)
    BY <1>1, <2>1 DEF CopyInv, Copying
  <2>3. Len(rdSts) \in Nat /\ Len(copyQ) \in Nat
    BY EmptyFacts DEF CopyInv, RecvType
  <2>4. /\ DOMAIN copyQ = 1 .. Len(copyQ) /\ DOMAIN copyQ' = 1 .. Len(copyQ) + 1
        /\ Len(copyQ') = Len(copyQ) + 1
        /\ \A i \in DOMAIN copyQ : copyQ'[i] = copyQ[i]
        /\ copyQ'[Len(copyQ) + 1] = [buf |-> pos, at |-> call.len - toMove,
                                     after |-> dma_tag_tmp, call |-> ncalls]
    BY <1>1, AppendFacts DEF CopyInv, RecvType
  <2>5. ASSUME NEW i \in DOMAIN copyQ'
        PROVE  /\ copyQ'[i].call = ncalls /\ copyQ'[i].buf = held'[Len(rdSts) + i]
               /\ copyQ'[i].at = At(Acked + Len(rdSts) + i - 1)
    <3>1. CASE i = Len(copyQ) + 1
      <4>1. Len(rdSts) + i = Len(held) + 1 /\ Acked + Len(rdSts) + i - 1 = Issued
        BY <1>2, <2>2, <2>3, <3>1
      <4>2. QED
        BY <1>3, <1>4, <2>4, <3>1, <4>1
    <3>2. CASE i # Len(copyQ) + 1
      <4>1. i \in DOMAIN copyQ
        BY <2>3, <2>4, <2>5, <3>2
      <4>2. Len(rdSts) + i \in DOMAIN held
        BY <1>4, <2>2, <2>3, <2>4, <4>1
      <4>3. QED
        BY <1>4, <2>2, <2>4, <4>1, <4>2
    <3>3. QED
      BY <3>1, <3>2
  <2>6. Len(held') = Len(rdSts) + Len(copyQ')
    BY <1>4, <2>2, <2>3, <2>4
  <2>7. QED
    BY <1>1, <1>5, <2>2, <2>5, <2>6 DEF Copying, At
<1>10. Copied' /\ Returned' /\ NothingHeld'
  BY <1>1, <1>5 DEF CopyInv, Copied, Returned, NothingHeld, Stored, IsSegment, At
<1>11. QED
  BY <1>6, <1>8, <1>9, <1>10 DEF CopyInv

(* The oldest copy is acknowledged and its buffer freed.                   *)
LEMMA AckStep ==
  ASSUME IInv, RecvInv, CopyInv, RecvType', AckSegment
  PROVE  CopyInv'
<1>1. /\ retval = "running" /\ req = NoMsg /\ held # <<>> /\ held' = Tail(held)
      /\ rdSts # <<>> /\ rdSts' = Tail(rdSts) /\ wrSts # <<>> /\ wrSts' = Tail(wrSts)
      /\ Head(rdSts).ok /\ Head(wrSts).ok
      /\ UNCHANGED <<retval, call, first, quiet, ncalls, mem, inSeq, req, toMove,
                     copyQ, dst>>
      /\ toAck' = toAck - SegLen(toAck)
  BY DEF AckSegment, Running, FreeOldest, dmaVars
<1>2. /\ call \in Calls /\ Issued \in Nat /\ Acked \in Nat /\ Acked = Issued - Len(held)
      /\ toMove = Rest(Issued) /\ toAck = Rest(Acked)
      /\ Issued > 0 => At(Issued - 1) < call.len
  BY <1>1 DEF CopyInv, Progress, RecvInv, Acked
<1>3. /\ Len(held) \in Nat \ {0} /\ DOMAIN held = 1 .. Len(held)
      /\ DOMAIN held' = 1 .. Len(held) - 1 /\ Len(held') = Len(held) - 1
      /\ \A j \in DOMAIN held' : held'[j] = held[j + 1]
  <2>1. IsSeq(held)
    BY DEF IsSeq, IInv, TypeOK
  <2>2. QED
    BY <1>1, <2>1, TailFacts
<1>4. /\ Issued' = Issued /\ Acked' = Acked + 1 /\ Acked + 1 \in Nat
  <2>1. Issued' = Issued
    BY <1>1 DEF Issued
  <2>2. Acked' = Issued - (Len(held) - 1)
    BY <1>3, <2>1 DEF Acked
  <2>3. QED
    BY <1>2, <1>3, <2>1, <2>2
<1>5. At(Acked) < call.len
  <2>1. Issued - 1 \in Nat /\ At(Issued - 1) < call.len
        /\ (Acked = Issued - 1 \/ Acked < Issued - 1)
    BY <1>2, <1>3
  <2>2. At(Issued - 1) \in Nat /\ At(Acked) \in Nat /\ call.len \in Nat
    BY <1>2, <2>1, OffsetType, CallFacts
  <2>3. At(Acked) = At(Issued - 1) \/ At(Acked) < At(Issued - 1)
    BY <1>2, <2>1, OffsetOrder
  <2>4. QED
    BY <2>1, <2>2, <2>3
<1>6. Progress'
  <2>1. toAck' = Rest(Acked + 1)
    BY <1>1, <1>2, <1>5, RestNext
  <2>2. toAck' = Rest(Acked)' /\ toMove' = Rest(Issued)'
    BY <1>1, <1>2, <1>4, <2>1 DEF Rest, At
  <2>3. (Issued - 1)' = Issued - 1 /\ (Issued > 0)' = (Issued > 0)
    BY <1>4
  <2>4. (Issued > 0)' => At(Issued - 1)' < call'.len
    BY <1>1, <1>2, <2>3 DEF At
  <2>5. QED
    BY <1>1, <1>2, <1>4, <2>2, <2>4 DEF Progress
<1>7. HeldRight'
  <2>1. SUFFICES ASSUME NEW j \in DOMAIN held'
                 PROVE  IsSegment(mem[held'[j]], Acked + 1 + j - 1)
    BY <1>1, <1>4 DEF HeldRight, IsSegment, At
  <2>2. j + 1 \in DOMAIN held /\ held'[j] = held[j + 1]
        /\ Acked + (j + 1) - 1 = Acked + 1 + j - 1
    <3>1. j \in Nat /\ 1 <= j /\ j <= Len(held) - 1
      BY <1>3, <2>1
    <3>2. j + 1 \in DOMAIN held
      BY <1>3, <3>1
    <3>3. Acked + (j + 1) - 1 = Acked + 1 + j - 1
      BY <1>2, <3>1
    <3>4. QED
      BY <1>3, <2>1, <3>2, <3>3
  <2>3. IsSegment(mem[held[j + 1]], Acked + (j + 1) - 1)
    BY <1>1, <2>2 DEF CopyInv, HeldRight
  <2>4. QED
    BY <2>2, <2>3
<1>8. /\ Len(rdSts) \in Nat \ {0} /\ Len(rdSts') = Len(rdSts) - 1
      /\ DOMAIN rdSts = 1 .. Len(rdSts) /\ DOMAIN rdSts' = 1 .. Len(rdSts) - 1
      /\ \A j \in DOMAIN rdSts' : rdSts'[j] = rdSts[j + 1]
      /\ rdSts[1].ok /\ wrSts[1].ok
      /\ Len(wrSts') = Len(wrSts) - 1 /\ DOMAIN wrSts' = 1 .. Len(wrSts) - 1
      /\ \A j \in DOMAIN wrSts' : wrSts'[j] = wrSts[j + 1]
  BY <1>1, TailFacts DEF CopyInv, RecvType
<1>9. Copying'
  <2>1. SUFFICES ASSUME quiet PROVE Copying'
    BY <1>1 DEF Copying
  <2>2. /\ Len(wrSts) = Len(rdSts) /\ Len(held) = Len(rdSts) + Len(copyQ)
        /\ \A i \in DOMAIN copyQ :
             /\ copyQ[i].call = ncalls /\ copyQ[i].buf = held[Len(rdSts) + i]
             /\ copyQ[i].at = At(Acked + Len(rdSts) + i - 1)
    BY <1>1, <2>1 DEF CopyInv, Copying
  <2>3. Len(copyQ) \in Nat /\ DOMAIN copyQ = 1 .. Len(copyQ)
    <3>1. PICK T : copyQ \in Seq(T)
      BY DEF CopyInv, RecvType, IsSeq
    <3>2. QED
      BY <3>1
  <2>4. ASSUME NEW i \in DOMAIN copyQ
        PROVE  /\ copyQ[i].buf = held'[Len(rdSts') + i]
               /\ copyQ[i].at = At(Acked + 1 + Len(rdSts') + i - 1)
    <3>1. /\ Len(rdSts') + i \in DOMAIN held' /\ Len(rdSts') + i + 1 = Len(rdSts) + i
          /\ Acked + 1 + Len(rdSts') + i - 1 = Acked + Len(rdSts) + i - 1
      <4>1. i \in Nat /\ 1 <= i /\ i <= Len(copyQ) /\ Len(held) = Len(rdSts) + Len(copyQ)
        BY <2>2, <2>3
      <4>2. Len(rdSts) \in Nat \ {0} /\ Len(rdSts') = Len(rdSts) - 1 /\ Len(copyQ) \in Nat
        BY <1>8, <2>3
      <4>3. Len(rdSts') + i \in 1 .. Len(held) - 1
        BY <4>1, <4>2
      <4>4. QED
        BY <1>2, <1>3, <4>1, <4>2, <4>3
    <3>2. QED
      BY <1>3, <2>2, <3>1
  <2>5. Len(wrSts') = Len(rdSts') /\ Len(held') = Len(rdSts') + Len(copyQ)
    BY <1>3, <1>8, <2>2, <2>3
  <2>6. QED
    BY <1>1, <1>4, <2>2, <2>4, <2>5 DEF Copying, At
<1>10. Copied'
  <2>1. SUFFICES ASSUME quiet PROVE Copied'
    BY <1>1 DEF Copied
  <2>2. /\ \A k \in Nat : k < Acked => Stored(k)
        /\ \A j \in DOMAIN rdSts : rdSts[j].ok /\ wrSts[j].ok => Stored(Acked + j - 1)
        /\ Len(wrSts) = Len(rdSts)
    BY <1>1, <2>1 DEF CopyInv, Copied, Copying
  <2>3. Stored(Acked)
    <3>1. 1 \in DOMAIN rdSts /\ Acked + 1 - 1 = Acked
      BY <1>2, <1>8
    <3>2. Stored(Acked + 1 - 1)
      BY <1>8, <2>2, <3>1
    <3>3. QED
      BY <3>1, <3>2
  <2>4. \A k \in Nat : k < Acked + 1 => Stored(k)
    BY <1>2, <2>2, <2>3
  <2>5. ASSUME NEW j \in DOMAIN rdSts', rdSts'[j].ok /\ wrSts'[j].ok
        PROVE  Stored(Acked + 1 + j - 1)
    <3>1. /\ j + 1 \in DOMAIN rdSts /\ rdSts'[j] = rdSts[j + 1] /\ wrSts'[j] = wrSts[j + 1]
          /\ Acked + (j + 1) - 1 = Acked + 1 + j - 1
      <4>1. j \in Nat /\ 1 <= j /\ j <= Len(rdSts) - 1
        BY <1>8, <2>5
      <4>2. j + 1 \in DOMAIN rdSts /\ j \in DOMAIN wrSts'
        BY <1>8, <2>2, <4>1
      <4>3. Acked + (j + 1) - 1 = Acked + 1 + j - 1
        BY <1>2, <4>1
      <4>4. QED
        BY <1>8, <2>5, <4>2, <4>3
    <3>2. Stored(Acked + (j + 1) - 1)
      BY <2>2, <2>5, <3>1
    <3>3. QED
      BY <3>1, <3>2
  <2>6. QED
    BY <1>1, <1>4, <2>4, <2>5 DEF Copied, Stored, IsSegment, At
<1>11. Returned' /\ NothingHeld'
  BY <1>1 DEF CopyInv, Returned, NothingHeld
<1>12. QED
  BY <1>6, <1>7, <1>9, <1>10, <1>11 DEF CopyInv

(* DMA1 executes its oldest command: the segment is that of the first held *)
(* buffer without a status, and goes where no other segment lies.          *)
LEMMA CopyStep ==
  ASSUME IInv, CopyInv, RecvType', CopySegment
  PROVE  CopyInv'
<1> DEFINE c == Head(copyQ)
           n == Acked + Len(rdSts)
<1>1. /\ copyQ # <<>> /\ copyQ' = Tail(copyQ)
      /\ UNCHANGED <<vars, callVars>>
  BY DEF CopySegment
<1>2. PICK rdOk \in Outcomes, wrOk \in Outcomes :
        /\ dst' = IF c.call = ncalls /\ rdOk /\ wrOk
                  THEN [dst EXCEPT ![c.at] = mem[c.buf]] ELSE dst
        /\ rdSts' = Append(rdSts, [tag |-> TagAfter(c.after, 1), ok |-> rdOk])
        /\ wrSts' = Append(wrSts, [tag |-> TagAfter(c.after, 2), ok |-> wrOk])
  BY Zenon DEF CopySegment
<1>3. /\ UNCHANGED <<retval, call, first, quiet, ncalls, toMove, toAck, req, held,
                     inSeq, mem>>
      /\ Issued' = Issued /\ Acked' = Acked
  BY <1>1 DEF vars, mainVars, dmaVars, callVars, Issued, Acked
<1>4. NothingHeld' /\ Progress' /\ HeldRight'
  BY <1>3 DEF CopyInv, NothingHeld, Progress, HeldRight, Rest, IsSegment, At
<1>5. Returned'
  BY <1>1, <1>3 DEF CopyInv, Returned
<1>6. /\ DOMAIN copyQ = 1 .. Len(copyQ) /\ DOMAIN copyQ' = 1 .. Len(copyQ) - 1
      /\ Len(copyQ) \in Nat \ {0} /\ Len(copyQ') = Len(copyQ) - 1
      /\ \A i \in DOMAIN copyQ' : copyQ'[i] = copyQ[i + 1]
      /\ c = copyQ[1]
  BY <1>1, TailFacts DEF CopyInv, RecvType
<1>7. /\ Len(rdSts) \in Nat /\ DOMAIN rdSts = 1 .. Len(rdSts)
      /\ Len(rdSts') = Len(rdSts) + 1 /\ DOMAIN rdSts' = 1 .. Len(rdSts) + 1
      /\ \A j \in DOMAIN rdSts : rdSts'[j] = rdSts[j]
      /\ rdSts'[Len(rdSts) + 1] = [tag |-> TagAfter(c.after, 1), ok |-> rdOk]
  BY <1>2, AppendFacts DEF CopyInv, RecvType
<1>8. /\ Len(wrSts) \in Nat /\ DOMAIN wrSts = 1 .. Len(wrSts)
      /\ Len(wrSts') = Len(wrSts) + 1
      /\ \A j \in DOMAIN wrSts : wrSts'[j] = wrSts[j]
      /\ wrSts'[Len(wrSts) + 1] = [tag |-> TagAfter(c.after, 2), ok |-> wrOk]
  BY <1>2, AppendFacts DEF CopyInv, RecvType
<1>9. ASSUME retval = "running", quiet PROVE Copying' /\ Copied'
  <2>1. /\ Len(wrSts) = Len(rdSts) /\ Len(held) = Len(rdSts) + Len(copyQ)
        /\ \A i \in DOMAIN copyQ :
             /\ copyQ[i].call = ncalls /\ copyQ[i].buf = held[Len(rdSts) + i]
             /\ copyQ[i].at = At(Acked + Len(rdSts) + i - 1)
        /\ \A k \in Nat : k < Acked => Stored(k)
        /\ \A j \in DOMAIN rdSts : rdSts[j].ok /\ wrSts[j].ok => Stored(Acked + j - 1)
        /\ Acked \in Nat
    BY <1>9 DEF CopyInv, Copying, Copied, Progress
  <2>2. /\ n \in Nat
        /\ c.call = ncalls /\ c.buf = held[Len(rdSts) + 1] /\ c.at = At(n)
    <3>1. 1 \in DOMAIN copyQ /\ Acked + Len(rdSts) + 1 - 1 = n /\ n \in Nat
      BY <1>6, <1>7, <2>1
    <3>2. copyQ[1].at = At(Acked + Len(rdSts) + 1 - 1)
      BY <2>1, <3>1
    <3>3. QED
      BY <1>6, <2>1, <3>1, <3>2
  <2>3. Copying'
    <3>1. ASSUME NEW i \in DOMAIN copyQ'
          PROVE  /\ copyQ'[i].call = ncalls /\ copyQ'[i].buf = held[Len(rdSts') + i]
                 /\ copyQ'[i].at = At(Acked + Len(rdSts') + i - 1)
      <4>1. i + 1 \in DOMAIN copyQ /\ Len(rdSts') + i = Len(rdSts) + (i + 1)
            /\ Acked + Len(rdSts') + i - 1 = Acked + Len(rdSts) + (i + 1) - 1
        <5>1. i \in Nat /\ 1 <= i /\ i <= Len(copyQ) - 1 /\ Len(copyQ) \in Nat
          BY <1>6, <3>1
        <5>2. i + 1 \in DOMAIN copyQ
          BY <1>6, <5>1
        <5>3. Len(rdSts) \in Nat /\ Len(rdSts') = Len(rdSts) + 1 /\ Acked \in Nat
          BY <1>7, <2>1
        <5>4. Len(rdSts') + i = Len(rdSts) + (i + 1)
          BY <5>1, <5>3
        <5>5. Acked + Len(rdSts') + i - 1 = Acked + Len(rdSts) + (i + 1) - 1
          BY <5>1, <5>3
        <5>6. QED
          BY <5>2, <5>4, <5>5
      <4>2. QED
        BY <1>6, <2>1, <4>1
    <3>2. Len(wrSts') = Len(rdSts') /\ Len(held) = Len(rdSts') + Len(copyQ')
      BY <1>6, <1>7, <1>8, <2>1
    <3>3. QED
      BY <1>3, <3>1, <3>2 DEF Copying, At
  <2>4. IsSegment(mem[c.buf], n)
    <3>1. Len(held) \in Nat /\ DOMAIN held = 1 .. Len(held)
      <4>1. held \in Seq(Bufs)
        BY DEF IInv, TypeOK
      <4>2. QED
        BY <4>1
    <3>2. Len(rdSts) + 1 \in DOMAIN held /\ Acked + (Len(rdSts) + 1) - 1 = n
      BY <1>6, <1>7, <2>1, <3>1
    <3>3. IsSegment(mem[held[Len(rdSts) + 1]], Acked + (Len(rdSts) + 1) - 1)
      BY <1>9, <3>2 DEF CopyInv, HeldRight
    <3>4. QED
      BY <2>2, <3>2, <3>3
  <2> DEFINE Now(k) == At(k) \in Offsets => IsSegment(dst'[At(k)], k)
  <2>5. ASSUME NEW k \in Nat, k < n, Stored(k) PROVE Now(k)
    <3>1. At(k) \in Nat /\ At(n) \in Nat /\ At(k) < At(n)
      BY <2>2, <2>5, OffsetType, OffsetOrder
    <3>2. dst'[At(k)] = dst[At(k)] \/ At(k) \notin Offsets
      BY <1>2, <2>2, <3>1 DEF CopyInv, RecvType
    <3>3. QED
      BY <2>5, <3>2 DEF Stored
  <2>6. rdOk /\ wrOk => Now(n)
    <3>1. SUFFICES ASSUME rdOk, wrOk, At(n) \in Offsets PROVE IsSegment(dst'[At(n)], n)
      OBVIOUS
    <3>2. dst'[At(n)] = mem[c.buf]
      BY <1>2, <2>2, <3>1 DEF CopyInv, RecvType
    <3>3. QED
      BY <2>4, <3>2
  <2>7. ASSUME NEW k \in Nat, k < Acked PROVE Now(k)
    <3>1. k < n
      BY <1>7, <2>1, <2>7
    <3>2. QED
      BY <2>1, <2>5, <2>7, <3>1
  <2>8. ASSUME NEW j \in DOMAIN rdSts', rdSts'[j].ok /\ wrSts'[j].ok
        PROVE  Now(Acked + j - 1)
    <3>1. CASE j = Len(rdSts) + 1
      <4>1. Acked + j - 1 = n
        BY <1>7, <2>1, <3>1
      <4>2. rdOk /\ wrOk
        BY <1>7, <1>8, <2>1, <2>8, <3>1
      <4>3. QED
        BY <2>6, <4>1, <4>2
    <3>2. CASE j # Len(rdSts) + 1
      <4>1. j \in DOMAIN rdSts /\ j \in DOMAIN wrSts
        BY <1>7, <1>8, <2>1, <2>8, <3>2
      <4>2. Acked + j - 1 \in Nat /\ Acked + j - 1 < n
        BY <1>7, <2>1, <4>1
      <4>3. Stored(Acked + j - 1)
        BY <1>7, <1>8, <2>1, <2>8, <4>1
      <4>4. QED
        BY <2>5, <4>2, <4>3
    <3>3. QED
      BY <3>1, <3>2
  <2>9. Copied'
    BY <1>3, <2>7, <2>8 DEF Copied, Stored, IsSegment, At
  <2>10. QED
    BY <2>3, <2>9
<1>10. Copying' /\ Copied'
  BY <1>3, <1>9 DEF Copying, Copied
<1>11. QED
  BY <1>4, <1>5, <1>10 DEF CopyInv

LEMMA CopyInvInit == RecvInit => CopyInv
  BY EmptyFacts DEF RecvInit, Init, CopyInv, RecvType, NothingHeld, Progress, HeldRight,
     Copying, Copied, Returned

(* An error raised by the handler ends the call, as in the code; otherwise *)
(* it leaves the receive alone.                                            *)
LEMMA HandlerKinds ==
  ASSUME Handler
  PROVE  \/ UNCHANGED <<held, inSeq, req, retval, call, toMove, toAck, ncalls, first,
                        quiet, copyVars>>
         \/ retval' = "failed" /\ req' = NoMsg /\ held' = <<>>
<1>1. CASE isrPc = "dequeue" /\ isrPc' = "out"
  <2>1. retval' = "failed"
    BY <1>1 DEF Handler
  <2>2. IsrDequeue
    BY <1>1 DEF Handler, Isr, IsrEnter, IsrDequeueDone, IsrEnqueueDone,
                IsrEnqueueSkip, IsrEnqueue, IsrArm
  <2>3. req' = NoMsg /\ held' = <<>>
    BY <1>1, <2>2 DEF IsrDequeue, RaiseFromIsr, Raise, isrVars
  <2>4. QED
    BY <2>1, <2>3
<1>2. CASE ~ (isrPc = "dequeue" /\ isrPc' = "out")
  <2>1. UNCHANGED <<held, inSeq, req>>
    BY <1>2 DEF Handler, Isr, IsrEnter, IsrDequeue, IsrDequeueDone, IsrEnqueueDone,
       IsrEnqueueSkip, IsrEnqueue, IsrArm, RaiseFromIsr, Raise, mainVars
  <2>2. QED
    BY <1>2, <2>1 DEF Handler, copyVars
<1>3. QED
  BY <1>1, <1>2

LEMMA CopyInvStep == IInv /\ RecvInv /\ CopyInv /\ [RecvNext]_recvAll => CopyInv'
<1> SUFFICES ASSUME IInv, RecvInv, CopyInv, [RecvNext]_recvAll PROVE CopyInv'
  OBVIOUS
<1>1. [Next]_vars /\ RecvType'
  BY RecvRefines, RecvTypeStep DEF CopyInv
<1> USE DEF recvVars, callVars, copyVars
<1>2. CASE ScanOn \/ Housekeep \/ (Hardware /\ UNCHANGED recvVars) \/ UNCHANGED recvAll
  <2>1. UNCHANGED <<held, inSeq, req, recvVars>>
    BY <1>2 DEF ScanOn, ScanMiss, ScanAgain, Housekeep, EnableIrq, DisableIrq, Hardware,
                Arrive, DmaFetch, DmaWrite, TimerFire, recvAll, vars, mainVars
  <2>2. QED
    BY <1>1, <2>1, BesideStep
<1>3. CASE Handler
  BY <1>1, <1>3, HandlerKinds, BesideStep, FailStep
<1>4. CASE GiveUp \/ AckBadRead \/ AckBadWrite \/ AckTimeout
  <2>1. retval' = "failed" /\ req' = NoMsg /\ held' = <<>>
    BY <1>4 DEF GiveUp, AckBadRead, AckBadWrite, AckTimeout, ReceiveTimeout, CopyFails,
                Raise
  <2>2. QED
    BY <1>1, <2>1, FailStep
<1>5. CASE \E c \in Calls : CallRecv(c)
  BY <1>1, <1>5, CallStep
<1>6. CASE AwaitSegment
  BY <1>6, AwaitStep
<1>7. CASE TakeSegment
  BY <1>1, <1>7, TakeStep
<1>8. CASE AckSegment
  BY <1>1, <1>8, AckStep
<1>9. CASE FinishRecv
  BY <1>9, FinishStep
<1>10. CASE CopySegment
  BY <1>1, <1>10, CopyStep
<1>11. QED
  BY <1>2, <1>3, <1>4, <1>5, <1>6, <1>7, <1>8, <1>9, <1>10 DEF RecvNext, Receive

(* The invariant of RxBuffers and what the receive adds to it hold in      *)
(* every behaviour, whatever fails or expires.                             *)
THEOREM ReceiveInvariance == RecvSpec => [](IInv /\ RecvInv /\ CopyInv)
<1>1. RecvInit => IInv /\ RecvInv /\ CopyInv
  BY InitIInv, RecvInitInv, CopyInvInit DEF RecvInit
<1>2. IInv /\ RecvInv /\ CopyInv /\ [RecvNext]_recvAll => (IInv /\ RecvInv /\ CopyInv)'
  BY RecvStep, RecvRefines, NextStep, CopyInvStep
<1>3. QED
  BY <1>1, <1>2, PTL DEF RecvSpec

(* No buffer is handed back to the handler while a command to read it      *)
(* waits in DMA1's queue.                                                  *)
THEOREM BuffersOutliveCopies == RecvSpec => []CopiedBeforeFree
<1>1. IInv /\ CopyInv => CopiedBeforeFree
  <2>1. SUFFICES ASSUME IInv, CopyInv, retval = "running", quiet, NEW i \in DOMAIN copyQ
                 PROVE  \E j \in DOMAIN held : held[j] = copyQ[i].buf
    BY DEF CopiedBeforeFree
  <2>2. /\ Len(held) = Len(rdSts) + Len(copyQ) /\ copyQ[i].buf = held[Len(rdSts) + i]
    BY <2>1 DEF CopyInv, Copying
  <2>3. held \in Seq(Bufs) /\ Len(rdSts) \in Nat /\ Len(copyQ) \in Nat
    BY <2>1, EmptyFacts DEF CopyInv, RecvType, IInv, TypeOK
  <2>4. i \in 1 .. Len(copyQ)
    <3>1. PICK T : copyQ \in Seq(T)
      BY <2>1 DEF CopyInv, RecvType, IsSeq
    <3>2. QED
      BY <2>1, <3>1
  <2>5. Len(rdSts) + i \in DOMAIN held
    BY <2>2, <2>3, <2>4
  <2>6. QED
    BY <2>2, <2>5
<1>2. QED
  BY <1>1, ReceiveInvariance, PTL

(* A receive that returns without error has put its whole message in the   *)
(* destination, segment by segment and in order, if DMA1's queues were     *)
(* empty when it was called: whatever else failed or expired before.       *)
THEOREM MessageReturned == RecvSpec => []QuietDataReturned
<1>1. RecvInv /\ CopyInv => QuietDataReturned
  <2>1. SUFFICES ASSUME RecvInv, CopyInv, quiet, retval = "ok",
                        NEW o \in Offsets, o < call.len, o % TxnSize = 0
                 PROVE  /\ dst[o] # NoMsg
                        /\ dst[o].src = call.src /\ dst[o].len = SegLen(call.len - o)
                        /\ dst[o].seq = first + o \div TxnSize + 1
    BY DEF QuietDataReturned, DataReturned
  <2>2. TxnSize \in Nat /\ TxnSize > 0 /\ o \in Nat
    BY CallsAssumption DEF Offsets
  <2>3. PICK k \in Nat : k = o \div TxnSize
    BY <2>2
  <2>4. o = At(k)
    BY <2>1, <2>2, <2>3 DEF At
  <2>5. Stored(k)
    BY <2>1, <2>4 DEF CopyInv, Returned
  <2>6. IsSegment(dst[o], k)
    BY <2>1, <2>4, <2>5 DEF Stored
  <2>7. QED
    BY <2>3, <2>4, <2>6 DEF IsSegment
<1>2. QED
  BY <1>1, ReceiveInvariance, PTL

=============================================================================
