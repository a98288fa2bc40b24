------------------------------ MODULE RxBuffers ------------------------------
(***************************************************************************)
(* The spare receive buffers of one CCLO: the interrupt handler that gives *)
(* them to the receive DMA and takes them back (stream_isr,                *)
(* enqueue_rx_buffers, dequeue_rx_buffers), the scan by which the main     *)
(* loop finds a received segment (t_wait_receive_world_i), and the release *)
(* of a buffer once its contents were copied out.                          *)
(*                                                                         *)
(* The interrupt controller, the timer, the depacketizer and the receive   *)
(* channel of the AXI DataMover run beside the firmware; they are modelled *)
(* from the way the firmware uses them.                                    *)
(*                                                                         *)
(* A message is the record [src, seq, tag, len] of its header, and stands  *)
(* for its payload too: no two messages have both src and seq in common.   *)
(***************************************************************************)
EXTENDS Integers, Sequences, FiniteSets

CONSTANTS
  NBufs,          \* number of spare buffers, the word at RX_BUFFER_COUNT_OFFSET
  MaxDmaTags,     \* MAX_DMA_TAGS: size of dma_tag_lookup
  MaxEnqueued,    \* the limit on num_rx_enqueued
  MaxInFlight,    \* max_dma_in_flight: segments a receive holds at once
  DmaDepth,       \* commands the DMA fetches ahead of the data
  Srcs,           \* ranks that send to this one
  Messages,       \* the messages they may send
  Requests,       \* the segments a receive may wait for: [src, len, tag]
  Reliable,       \* TRUE: TCP, each source's messages arrive once and in order
  MaxArrivals,    \* bound on the arrivals from one source when not Reliable
  DmaFaults,      \* TRUE: a DMA may report a failed transfer
  TimeoutSet,     \* timeout # 0: a wait for a segment may expire
  AnyTag,         \* TAG_ANY
  NoBuf,          \* the entry -1 of dma_tag_lookup
  NoMsg           \* no message

Bufs    == 0 .. (NBufs - 1)
DmaTags == 0 .. (MaxDmaTags - 1)

ASSUME SizesAssumption ==
  /\ NBufs \in Nat /\ MaxDmaTags \in Nat /\ MaxEnqueued \in Nat
  /\ MaxEnqueued <= MaxDmaTags
  /\ MaxInFlight \in Nat /\ DmaDepth \in Nat /\ MaxArrivals \in Nat
  /\ Reliable \in BOOLEAN /\ DmaFaults \in BOOLEAN /\ TimeoutSet \in BOOLEAN
ASSUME MessagesAssumption ==
  /\ \A m \in Messages : m.src \in Srcs /\ m.seq \in Nat
  /\ \A m, n \in Messages : m.src = n.src /\ m.seq = n.seq => m = n
ASSUME RequestsAssumption == \A r \in Requests : r.src \in Srcs
ASSUME NoBufAssumption == NoBuf \notin Bufs
ASSUME NoMsgAssumption == NoMsg \notin Messages

VARIABLES
  \* the exchange memory's list of rx_buffer structures
  status,     \* IDLE, ENQUEUED, RESERVED or ERROR
  dmaTag,     \* dma_tag of a buffer
  rx,         \* rx_len, rx_tag, rx_src and sequence_number of a buffer
  inSeq,      \* inbound_seq of each source rank
  \* the firmware's globals
  lookup,     \* dma_tag_lookup: the buffer a DMA tag was issued for
  numEnq,     \* num_rx_enqueued
  \* the interrupt handler
  isrPc,      \* "out", or what stream_isr is doing
  irq,        \* the pending interrupts it read on entry
  enqIdx,     \* loop index of enqueue_rx_buffers
  nEnqueued,  \* how many buffers enqueue_rx_buffers gave to the DMA
  \* the main loop, as far as it touches the buffers
  req,        \* the segment waited for, a record [src, len, tag], or NoMsg
  pos,        \* loop index of t_wait_receive_world_i
  held,       \* spare_buffer_indexes: matched buffers, oldest first
  fault,      \* the last code given to longjmp, or "none"
  \* interrupt controller and timer
  ie,         \* interrupts enabled in the processor
  mask,       \* interrupt enable register
  pend,       \* interrupt status register
  timer,      \* "off", "running" or "fired"
  \* network and receive DMA
  arrivals,   \* messages the depacketizer has taken from each source
  stream,     \* the message whose payload waits at the DMA, or NoMsg
  hdrQ,       \* headers the depacketizer queued for the firmware
  cmdQ,       \* FIFO of commands to the DMA
  dmaQ,       \* commands the DMA has fetched
  stsQ,       \* FIFO of the DMA's statuses
  mem         \* the message stored in each spare buffer

fwVars   == <<status, dmaTag, rx, lookup, numEnq>>
isrVars  == <<isrPc, irq, enqIdx, nEnqueued>>
mainVars == <<req, pos, held, inSeq>>
irqVars  == <<ie, mask, timer>>
netVars  == <<arrivals, stream, hdrQ>>
dmaVars  == <<cmdQ, dmaQ, stsQ, mem>>
vars == <<fwVars, isrVars, mainVars, fault, irqVars, pend, netVars, dmaVars>>

-----------------------------------------------------------------------------
(* The interrupt lines are level sensitive: the controller latches a line  *)
(* for as long as it is active, and an acknowledge only lasts if the line  *)
(* has gone inactive.                                                      *)

IrqLines == {"TIMER", "CMD_EMPTY", "STS_NON_EMPTY"}

ActiveLines(t, cmds, stss) ==
  {l \in IrqLines : \/ l = "TIMER"         /\ t = "fired"
                    \/ l = "CMD_EMPTY"     /\ cmds = <<>>
                    \/ l = "STS_NON_EMPTY" /\ stss # <<>>}

Latch(acked) == pend' = (pend \ acked) \cup ActiveLines(timer', cmdQ', stsQ')

(* The state the driver reaches before it enables the interrupts: buffers  *)
(* programmed in the exchange memory, all tags free, interrupts unmasked   *)
(* in the processor and masked in the controller.                          *)
Init ==
  /\ status = [b \in Bufs |-> "IDLE"]
  /\ dmaTag = [b \in Bufs |-> 0]
  /\ rx = [b \in Bufs |-> NoMsg]
  /\ inSeq = [s \in Srcs |-> 0]
  /\ lookup = [t \in DmaTags |-> NoBuf]
  /\ numEnq = 0
  /\ isrPc = "out" /\ irq = {} /\ enqIdx = 0 /\ nEnqueued = 0
  /\ req = NoMsg /\ pos = 0 /\ held = <<>>
  /\ fault = "none"
  /\ ie = TRUE /\ mask = {} /\ timer = "off"
  /\ pend = {"CMD_EMPTY"}
  /\ arrivals = [s \in Srcs |-> 0]
  /\ stream = NoMsg /\ hdrQ = <<>>
  /\ cmdQ = <<>> /\ dmaQ = <<>> /\ stsQ = <<>>
  /\ mem = [b \in Bufs |-> NoMsg]

-----------------------------------------------------------------------------
(* Network, receive DMA and timer.                                         *)

(* Mutant of Arrive: the header is not queued.                             *)
ArriveNoHeader(m) ==
  /\ stream = NoMsg
  /\ IF Reliable THEN m.seq = arrivals[m.src] + 1
                 ELSE arrivals[m.src] < MaxArrivals
  /\ arrivals' = [arrivals EXCEPT ![m.src] = @ + 1]
  /\ stream' = m
  /\ UNCHANGED <<hdrQ, fwVars, isrVars, mainVars, fault, irqVars, pend, dmaVars>>

(* The depacketizer takes the next message: it queues the header fields    *)
(* for the firmware and offers the payload to the DMA. Over TCP this is    *)
(* the source's next message; over UDP messages may be lost, duplicated    *)
(* and reordered.                                                          *)
Arrive(m) ==
  /\ stream = NoMsg
  /\ IF Reliable THEN m.seq = arrivals[m.src] + 1
                 ELSE arrivals[m.src] < MaxArrivals
  /\ arrivals' = [arrivals EXCEPT ![m.src] = @ + 1]
  /\ stream' = m
  /\ hdrQ' = Append(hdrQ, m)
  /\ UNCHANGED <<fwVars, isrVars, mainVars, fault, irqVars, pend, dmaVars>>

DmaFetch ==
  /\ cmdQ # <<>>
  /\ Len(dmaQ) < DmaDepth
  /\ dmaQ' = Append(dmaQ, Head(cmdQ))
  /\ cmdQ' = Tail(cmdQ)
  /\ UNCHANGED <<stsQ, mem, timer>>
  /\ Latch({})
  /\ UNCHANGED <<fwVars, isrVars, mainVars, fault, ie, mask, netVars>>

Outcomes == IF DmaFaults THEN BOOLEAN ELSE {TRUE}

(* The payload goes to the buffer of the oldest command and the status is  *)
(* queued; a transfer that fails leaves something else in the buffer.      *)
DmaWrite ==
  /\ dmaQ # <<>> /\ stream # NoMsg
  /\ \E ok \in Outcomes :
       /\ mem' = [mem EXCEPT ![Head(dmaQ).buf] = IF ok THEN stream ELSE NoMsg]
       /\ stsQ' = Append(stsQ, [tag |-> Head(dmaQ).tag, ok |-> ok])
  /\ dmaQ' = Tail(dmaQ)
  /\ stream' = NoMsg
  /\ UNCHANGED <<cmdQ, timer>>
  /\ Latch({})
  /\ UNCHANGED <<fwVars, isrVars, mainVars, fault, ie, mask, arrivals, hdrQ>>

TimerFire ==
  /\ timer = "running"
  /\ timer' = "fired"
  /\ UNCHANGED <<cmdQ, stsQ>>
  /\ Latch({})
  /\ UNCHANGED <<fwVars, isrVars, mainVars, fault, ie, mask, netVars, dmaQ, mem>>

-----------------------------------------------------------------------------
(* stream_isr                                                              *)

(* longjmp to the exception handler in main: the call in progress is gone, *)
(* and with it the stack that held spare_buffer_indexes.                   *)
Raise(code) ==
  /\ fault' = code
  /\ req' = NoMsg /\ pos' = 0 /\ held' = <<>>
  /\ UNCHANGED inSeq

(* longjmp out of the handler: the controller is not re-armed, and the     *)
(* processor's interrupt enable stays as the interrupt left it, off.       *)
RaiseFromIsr(code) ==
  /\ Raise(code)
  /\ isrPc' = "out" /\ irq' = {} /\ enqIdx' = 0 /\ nEnqueued' = 0
  /\ ie' = FALSE
  /\ UNCHANGED <<mask, timer>>

(* Interrupt entry: read the pending register, stop a timer that fired.    *)
IsrEnter ==
  /\ isrPc = "out" /\ ie /\ pend \cap mask # {}
  /\ irq' = pend \cap mask
  /\ timer' = IF "TIMER" \in irq' THEN "off" ELSE timer
  /\ isrPc' = IF "STS_NON_EMPTY" \in irq' THEN "dequeue" ELSE "enqueue"
  /\ enqIdx' = 0 /\ nEnqueued' = 0
  /\ UNCHANGED <<cmdQ, stsQ>>
  /\ Latch({})
  /\ UNCHANGED <<fwVars, mainVars, fault, ie, mask, netVars, dmaQ, mem>>

(* Mutant of Reclaim: the tag is not freed.                                *)
ReclaimUnderTag(b, tag) ==
  /\ rx' = [rx EXCEPT ![b] = Head(hdrQ)]
  /\ hdrQ' = Tail(hdrQ)
  /\ numEnq' = numEnq - 1
  /\ UNCHANGED <<dmaTag, lookup>>

(* Mutant of Reclaim: the newest header is read.                           *)
ReclaimNewest(b, tag) ==
  /\ rx' = [rx EXCEPT ![b] = hdrQ[Len(hdrQ)]]
  /\ hdrQ' = SubSeq(hdrQ, 1, Len(hdrQ) - 1)
  /\ numEnq' = numEnq - 1
  /\ lookup' = [lookup EXCEPT ![tag] = NoBuf]
  /\ UNCHANGED dmaTag

(* The firmware takes a completed buffer back: it fills in the header      *)
(* fields from the depacketizer's FIFO and frees the tag.                  *)
Reclaim(b, tag) ==
  /\ rx' = [rx EXCEPT ![b] = Head(hdrQ)]
  /\ hdrQ' = Tail(hdrQ)
  /\ numEnq' = numEnq - 1
  /\ lookup' = [lookup EXCEPT ![tag] = NoBuf]
  /\ UNCHANGED dmaTag

(* One round of the loop of dequeue_rx_buffers. The status says which tag  *)
(* completed; reading the header FIFO blocks while it is empty. The buffer *)
(* is in STATUS_ERROR while check_DMA_status looks at the status, and      *)
(* stays there if that raises an error.                                    *)
IsrDequeue ==
  /\ isrPc = "dequeue" /\ stsQ # <<>>
  /\ stsQ' = Tail(stsQ)
  /\ LET sts == Head(stsQ)
         b   == lookup[sts.tag]
         enqueued == b # NoBuf /\ status[b] = "ENQUEUED"
     IN \/ /\ ~ enqueued
           /\ RaiseFromIsr("SPARE_BUFFER_STATUS_ERROR")
           /\ UNCHANGED <<fwVars, hdrQ>>
        \/ /\ enqueued /\ dmaTag[b] # sts.tag
           /\ RaiseFromIsr("SPARE_BUFFER_DMATAG_MISMATCH")
           /\ UNCHANGED <<fwVars, hdrQ>>
        \/ /\ enqueued /\ dmaTag[b] = sts.tag /\ hdrQ # <<>>
           /\ Reclaim(b, sts.tag)
           /\ \/ /\ sts.ok
                 /\ status' = [status EXCEPT ![b] = "RESERVED"]
                 /\ UNCHANGED <<isrVars, mainVars, fault, irqVars>>
              \/ /\ ~ sts.ok
                 /\ status' = [status EXCEPT ![b] = "ERROR"]
                 /\ RaiseFromIsr("DMA_ERROR")
  /\ UNCHANGED <<cmdQ, dmaQ, mem, arrivals, stream>>
  /\ Latch({})

IsrDequeueDone ==
  /\ isrPc = "dequeue" /\ stsQ = <<>>
  /\ isrPc' = "enqueue"
  /\ UNCHANGED <<irq, enqIdx, nEnqueued, fwVars, mainVars, fault, irqVars, pend,
                 netVars, dmaVars>>

(* Mutant of FreeTags: a tag in use may be taken.                          *)
FreeTagsAny == DmaTags

FreeTags == {t \in DmaTags : lookup[t] = NoBuf}

(* Mutant of Spare: a received buffer may be enqueued.                     *)
SpareUnlessEnqueued(b) == status[b] # "ENQUEUED"

Spare(b) == status[b] = "IDLE"

(* enqueue_rx_buffers returns: every buffer was looked at, enough are      *)
(* enqueued, or an idle buffer finds no free tag.                          *)
EnqueueReturns ==
  \/ enqIdx = NBufs
  \/ numEnq >= MaxEnqueued
  \/ enqIdx < NBufs /\ Spare(enqIdx) /\ FreeTags = {}

IsrEnqueueDone ==
  /\ isrPc = "enqueue" /\ EnqueueReturns
  /\ isrPc' = "arm"
  /\ UNCHANGED <<irq, enqIdx, nEnqueued, fwVars, mainVars, fault, irqVars, pend,
                 netVars, dmaVars>>

IsrEnqueueSkip ==
  /\ isrPc = "enqueue" /\ ~ EnqueueReturns
  /\ ~ Spare(enqIdx)
  /\ enqIdx' = enqIdx + 1
  /\ UNCHANGED <<isrPc, irq, nEnqueued, fwVars, mainVars, fault, irqVars, pend,
                 netVars, dmaVars>>

(* Mutant of Issue: num_rx_enqueued is not raised.                         *)
IssueUncounted(b, tag) ==
  /\ cmdQ' = Append(cmdQ, [tag |-> tag, buf |-> b])
  /\ status' = [status EXCEPT ![b] = "ENQUEUED"]
  /\ dmaTag' = [dmaTag EXCEPT ![b] = tag]
  /\ lookup' = [lookup EXCEPT ![tag] = b]
  /\ UNCHANGED numEnq

(* The command for a buffer: the DMA may write up to DMA_MAX_BTT bytes.    *)
Issue(b, tag) ==
  /\ cmdQ' = Append(cmdQ, [tag |-> tag, buf |-> b])
  /\ status' = [status EXCEPT ![b] = "ENQUEUED"]
  /\ dmaTag' = [dmaTag EXCEPT ![b] = tag]
  /\ lookup' = [lookup EXCEPT ![tag] = b]
  /\ numEnq' = numEnq + 1

(* An idle buffer goes to the DMA under the first free tag.                *)
IsrEnqueue(tag) ==
  /\ isrPc = "enqueue" /\ ~ EnqueueReturns
  /\ Spare(enqIdx)
  /\ tag \in FreeTags /\ \A t \in FreeTags : tag <= t
  /\ Issue(enqIdx, tag)
  /\ nEnqueued' = nEnqueued + 1
  /\ enqIdx' = enqIdx + 1
  /\ UNCHANGED <<dmaQ, stsQ, mem, timer>>
  /\ Latch({})
  /\ UNCHANGED <<rx, isrPc, irq, mainVars, fault, ie, mask, netVars>>

(* Mutant of Rearm: no timer is started.                                   *)
RearmNoTimer ==
  IF nEnqueued = 0 /\ irq \cap {"CMD_EMPTY", "TIMER"} # {}
  THEN mask' = {"STS_NON_EMPTY", "TIMER"}     /\ timer' = "off"
  ELSE mask' = {"STS_NON_EMPTY", "CMD_EMPTY"} /\ timer' = "off"

(* The end of stream_isr. With nothing to give to an empty command queue,  *)
(* its interrupt would fire for ever: it is masked and a timer started.    *)
Rearm ==
  IF nEnqueued = 0 /\ irq \cap {"CMD_EMPTY", "TIMER"} # {}
  THEN mask' = {"STS_NON_EMPTY", "TIMER"}     /\ timer' = "running"
  ELSE mask' = {"STS_NON_EMPTY", "CMD_EMPTY"} /\ timer' = "off"

IsrArm ==
  /\ isrPc = "arm"
  /\ Rearm
  /\ isrPc' = "out" /\ irq' = {} /\ enqIdx' = 0 /\ nEnqueued' = 0
  /\ UNCHANGED <<cmdQ, stsQ>>
  /\ Latch(irq)
  /\ UNCHANGED <<fwVars, mainVars, fault, ie, netVars, dmaQ, mem>>

-----------------------------------------------------------------------------
(* The main loop. It runs only while no interrupt is served.               *)

MainRuns == isrPc = "out"
Idle     == req = NoMsg /\ held = <<>>

(* The host's HOUSEKEEP_IRQEN and HOUSEKEEP_IRQDIS calls.                  *)
EnableIrq ==
  /\ MainRuns /\ Idle
  /\ mask' = {"STS_NON_EMPTY", "CMD_EMPTY"}
  /\ ie' = TRUE
  /\ UNCHANGED <<fwVars, isrVars, mainVars, fault, timer, pend, netVars, dmaVars>>

DisableIrq ==
  /\ MainRuns /\ Idle
  /\ ie' = FALSE
  /\ mask' = {}
  /\ timer' = "off"
  /\ UNCHANGED <<cmdQ, stsQ>>
  /\ Latch({})
  /\ UNCHANGED <<fwVars, isrVars, mainVars, fault, netVars, dmaQ, mem>>

(* A receive asks for its next segment; it holds at most MaxInFlight.      *)
StartWait(r) ==
  /\ MainRuns /\ req = NoMsg
  /\ Len(held) < MaxInFlight
  /\ req' = r /\ pos' = 0
  /\ UNCHANGED <<held, inSeq, fwVars, isrVars, fault, irqVars, pend, netVars,
                 dmaVars>>

(* Mutant of Matches: the sequence number is ignored.                      *)
MatchesAnySeq(b, r) ==
  /\ status[b] = "RESERVED" /\ rx[b].src = r.src /\ rx[b].len = r.len
  /\ rx[b].tag = r.tag \/ r.tag = AnyTag

(* Mutant of Matches: any later number will do.                            *)
MatchesLaterSeq(b, r) == MatchesAnySeq(b, r) /\ rx[b].seq > inSeq[r.src]

(* What t_wait_receive_world_i compares: the status, the source, the       *)
(* length, the tag unless any will do, and the next number of the source.  *)
Matches(b, r) ==
  /\ status[b] = "RESERVED"
  /\ rx[b].src = r.src
  /\ rx[b].len = r.len
  /\ rx[b].tag = r.tag \/ r.tag = AnyTag
  /\ rx[b].seq = inSeq[r.src] + 1

(* One round of the scan, between microblaze_disable_interrupts and        *)
(* microblaze_enable_interrupts. The status of a match does not change.    *)
ScanMatch ==
  /\ MainRuns /\ req # NoMsg /\ pos < NBufs
  /\ Matches(pos, req)
  /\ inSeq' = [inSeq EXCEPT ![req.src] = @ + 1]
  /\ held' = Append(held, pos)
  /\ req' = NoMsg /\ pos' = 0
  /\ ie' = TRUE
  /\ UNCHANGED <<fwVars, isrVars, fault, mask, timer, pend, netVars, dmaVars>>

ScanMiss ==
  /\ MainRuns /\ req # NoMsg /\ pos < NBufs
  /\ ~ Matches(pos, req)
  /\ pos' = pos + 1
  /\ ie' = TRUE
  /\ UNCHANGED <<req, held, inSeq, fwVars, isrVars, fault, mask, timer, pend,
                 netVars, dmaVars>>

(* No match in the whole list: wait_receive_world_i scans again, or gives  *)
(* up with RECEIVE_TIMEOUT_ERROR.                                          *)
ScanAgain ==
  /\ MainRuns /\ req # NoMsg /\ pos = NBufs
  /\ pos' = 0
  /\ UNCHANGED <<req, held, inSeq, fwVars, isrVars, fault, irqVars, pend,
                 netVars, dmaVars>>

ReceiveTimeout ==
  /\ MainRuns /\ req # NoMsg /\ pos = NBufs
  /\ TimeoutSet
  /\ Raise("RECEIVE_TIMEOUT_ERROR")
  /\ UNCHANGED <<fwVars, isrVars, irqVars, pend, netVars, dmaVars>>

(* The copy of the oldest held segment completed: its buffer is free.      *)
FreeOldest ==
  /\ MainRuns /\ req = NoMsg /\ held # <<>>
  /\ status' = [status EXCEPT ![Head(held)] = "IDLE"]
  /\ held' = Tail(held)
  /\ ie' = TRUE
  /\ UNCHANGED <<dmaTag, rx, lookup, numEnq, req, pos, inSeq, isrVars, fault,
                 mask, timer, pend, netVars, dmaVars>>

(* ack_dma finds an error in the status of a held segment's copy, or the   *)
(* status of a call that timed out, or no status in time.                  *)
CopyFails ==
  /\ MainRuns /\ req = NoMsg /\ held # <<>>
  /\ DmaFaults \/ TimeoutSet
  /\ Raise("DMA_ERROR")
  /\ UNCHANGED <<fwVars, isrVars, irqVars, pend, netVars, dmaVars>>

-----------------------------------------------------------------------------

Hardware ==
  \/ \E m \in Messages : Arrive(m)
  \/ DmaFetch
  \/ DmaWrite
  \/ TimerFire

Isr ==
  \/ IsrEnter
  \/ IsrDequeue
  \/ IsrDequeueDone
  \/ IsrEnqueueDone
  \/ IsrEnqueueSkip
  \/ \E tag \in DmaTags : IsrEnqueue(tag)
  \/ IsrArm

Main ==
  \/ EnableIrq
  \/ DisableIrq
  \/ \E r \in Requests : StartWait(r)
  \/ ScanMatch
  \/ ScanMiss
  \/ ScanAgain
  \/ ReceiveTimeout
  \/ FreeOldest
  \/ CopyFails

Next == Hardware \/ Isr \/ Main

Spec == Init /\ [][Next]_vars

(* The hardware and the interrupt handler go on while they can. Nobody     *)
(* owes a message, a call of the host, the end of a wait or of a copy.     *)
Fairness ==
  /\ WF_vars(DmaFetch) /\ WF_vars(DmaWrite) /\ WF_vars(TimerFire)
  /\ WF_vars(Isr)

FairSpec == Spec /\ Fairness

-----------------------------------------------------------------------------
(* Types                                                                   *)

Statuses == {"IDLE", "ENQUEUED", "RESERVED", "ERROR"}
Faults   == {"none", "SPARE_BUFFER_STATUS_ERROR", "SPARE_BUFFER_DMATAG_MISMATCH",
             "DMA_ERROR", "RECEIVE_TIMEOUT_ERROR"}
Commands == [tag : DmaTags, buf : Bufs]
DmaStatuses == [tag : DmaTags, ok : BOOLEAN]

(* Every variable holds a value of its kind: indices stay in the buffer    *)
(* list and the tag table, the FIFOs hold what their producers write.      *)
TypeOK ==
  /\ status \in [Bufs -> Statuses]
  /\ dmaTag \in [Bufs -> Nat]
  /\ rx \in [Bufs -> Messages \cup {NoMsg}]
  /\ inSeq \in [Srcs -> Nat]
  /\ lookup \in [DmaTags -> Bufs \cup {NoBuf}]
  /\ numEnq \in 0 .. MaxEnqueued
  /\ isrPc \in {"out", "dequeue", "enqueue", "arm"}
  /\ irq \subseteq IrqLines
  /\ enqIdx \in 0 .. NBufs /\ nEnqueued \in Nat
  /\ req \in Requests \cup {NoMsg}
  /\ pos \in 0 .. NBufs
  /\ held \in Seq(Bufs)
  /\ fault \in Faults
  /\ ie \in BOOLEAN /\ mask \subseteq IrqLines /\ pend \subseteq IrqLines
  /\ timer \in {"off", "running", "fired"}
  /\ arrivals \in [Srcs -> Nat]
  /\ stream \in Messages \cup {NoMsg}
  /\ hdrQ \in Seq(Messages)
  /\ cmdQ \in Seq(Commands) /\ dmaQ \in Seq(Commands)
  /\ stsQ \in Seq(DmaStatuses)
  /\ mem \in [Bufs -> Messages \cup {NoMsg}]

-----------------------------------------------------------------------------
(* Safety                                                                  *)

UsedTags == {t \in DmaTags : lookup[t] # NoBuf}

(* dma_tag_lookup and the list of buffers are two views of one relation: a *)
(* tag in use leads to an enqueued buffer that carries this tag, and every *)
(* enqueued buffer is found through its tag. num_rx_enqueued counts them.  *)
TagAccounting ==
  /\ \A t \in UsedTags : /\ status[lookup[t]] = "ENQUEUED"
                         /\ dmaTag[lookup[t]] = t
  /\ \A b \in Bufs : status[b] = "ENQUEUED" =>
                       dmaTag[b] \in DmaTags /\ lookup[dmaTag[b]] = b
  /\ numEnq = Cardinality(UsedTags)

(* A DMA tag in use is on its way exactly once, as a command or as a       *)
(* status: with 16 tags and several FIFOs between the firmware and the     *)
(* DMA, a tag reused too early would attribute a message to the wrong      *)
(* buffer.                                                                 *)
TagsOf(q) == {q[i].tag : i \in DOMAIN q}
TagOnce(q) == \A i, j \in DOMAIN q : q[i].tag = q[j].tag => i = j

TagsInFlight ==
  /\ UsedTags = TagsOf(cmdQ) \cup TagsOf(dmaQ) \cup TagsOf(stsQ)
  /\ TagOnce(cmdQ) /\ TagOnce(dmaQ) /\ TagOnce(stsQ)
  /\ TagsOf(cmdQ) \cap TagsOf(dmaQ) = {}
  /\ TagsOf(cmdQ) \cap TagsOf(stsQ) = {}
  /\ TagsOf(dmaQ) \cap TagsOf(stsQ) = {}
  /\ \A i \in DOMAIN cmdQ : lookup[cmdQ[i].tag] = cmdQ[i].buf
  /\ \A i \in DOMAIN dmaQ : lookup[dmaQ[i].tag] = dmaQ[i].buf

(* The three consistency checks of dequeue_rx_buffers and enqueue's search *)
(* for a tag never fail: the buffer of a completed tag is the enqueued one *)
(* that carries the tag, and below the limit on num_rx_enqueued there is   *)
(* always a free tag ("probably wrong in num_rx_enqueued" never happens).  *)
ChecksNeverFail ==
  /\ fault \notin {"SPARE_BUFFER_STATUS_ERROR", "SPARE_BUFFER_DMATAG_MISMATCH"}
  /\ numEnq < MaxEnqueued => FreeTags # {}

(* The handler never blocks on the header FIFO: whenever the DMA reported  *)
(* a transfer, the depacketizer has queued that transfer's header, and the *)
(* only header beyond those is the one of the payload that waits.          *)
HeaderAvailable ==
  Len(hdrQ) = Len(stsQ) + (IF stream = NoMsg THEN 0 ELSE 1)

(* A received buffer holds the payload its header fields describe: the     *)
(* header FIFO and the status FIFO, filled by two devices and read side by *)
(* side, stay in step, also across transfers that failed.                  *)
HeaderMatchesPayload ==
  \A b \in Bufs : status[b] = "RESERVED" => rx[b] # NoMsg /\ mem[b] = rx[b]

(* The scan does not mark the buffer it returns, so only the numbers keep  *)
(* a segment from being taken twice: the buffers a receive holds differ,   *)
(* stay reserved, and are no longer claimable.                             *)
HeldOnce ==
  /\ \A i, j \in DOMAIN held : held[i] = held[j] => i = j
  /\ \A i \in DOMAIN held :
       LET b == held[i] IN status[b] = "RESERVED" /\ rx[b].seq <= inSeq[rx[b].src]

(* Without faults, timeouts or duplicates no buffer is lost: one that is   *)
(* not idle or at the DMA is held by the receive in progress, or keeps a   *)
(* segment that a later receive can still claim.                           *)
NoSpareLost ==
  \A b \in Bufs : status[b] \notin {"IDLE", "ENQUEUED"} =>
    \/ \E i \in DOMAIN held : held[i] = b
    \/ status[b] = "RESERVED" /\ rx[b].seq > inSeq[rx[b].src]

(* A segment nobody has claimed is not overwritten, and no buffer leaves   *)
(* the reserved state except the oldest one held, when it is released.     *)
KeepsUnclaimed ==
  \A b \in Bufs : status[b] = "RESERVED" =>
    /\ mem'[b] = mem[b] /\ rx'[b] = rx[b]
    /\ \/ status'[b] = "RESERVED"
       \/ held # <<>> /\ b = Head(held) /\ held' = Tail(held)

UnclaimedKept == [][KeepsUnclaimed]_vars

(* Segments are claimed in the order of their numbers and none is skipped: *)
(* the number of a source moves on by one, with the stored payload of that *)
(* number added to what the receive holds.                                 *)
ClaimsNext ==
  \A s \in Srcs : inSeq'[s] # inSeq[s] =>
    /\ inSeq'[s] = inSeq[s] + 1
    /\ \E b \in Bufs : /\ held' = Append(held, b)
                       /\ mem[b] # NoMsg /\ mem[b].src = s /\ mem[b].seq = inSeq'[s]

ClaimsInOrder == [][ClaimsNext]_vars

(* A buffer that can take a message: idle, or the target of a command.     *)
Available(b) ==
  \/ status[b] = "IDLE"
  \/ \E i \in DOMAIN cmdQ : cmdQ[i].buf = b
  \/ \E i \in DOMAIN dmaQ : dmaQ[i].buf = b

(* Liveness: a message that waits at the DMA is stored if there is a spare *)
(* buffer for it, idle or enqueued. A buffer freed after the handler found *)
(* none must be noticed again, which takes the timer. Not promised once    *)
(* the host masks the interrupts, or an error left them disabled.          *)
StoredEventually ==
  (stream # NoMsg /\ \E b \in Bufs : Available(b))
     ~> (stream = NoMsg \/ mask = {} \/ ~ ie)

=============================================================================
