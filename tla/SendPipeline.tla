---------------------------- MODULE SendPipeline ----------------------------
(***************************************************************************)
(* The transmit path of a CCLO: the firmware's dma_movement_and_packetizer *)
(* and ack_packetizer, the read channel of DMA1 that streams the message,  *)
(* and the packetizer that cuts the stream into segments with headers.     *)
(*                                                                         *)
(* Nothing but the lengths ties a header to its words: the firmware cuts   *)
(* the message twice, once for the packetizer and once for the DMA, and    *)
(* the packetizer takes as many words as the header says.                  *)
(***************************************************************************)
EXTENDS Naturals, Sequences

CONSTANTS
  Dsts,         \* ranks this one sends to
  Calls,        \* sends the host may ask for: [dst, len, tag]
  MaxCalls,     \* bound on the number of calls
  TxnSize,      \* dma_transaction_size, in bytes
  MaxInFlight,  \* max_dma_in_flight
  WordSize,     \* bytes of a word of the data stream, 64
  TagMod,       \* number of DMA tags, 16
  StreamDepth,  \* words between the DMA and the packetizer
  TimeoutSet,   \* timeout # 0: a wait for a status may expire
  DmaFaults,    \* a read of DMA1 may end with an error
  NoPkt         \* the packetizer is between two segments

ASSUME SendAssumption ==
  /\ TxnSize \in Nat \ {0} /\ MaxInFlight \in Nat \ {0}
  /\ WordSize \in Nat \ {0} /\ TagMod \in Nat \ {0} /\ StreamDepth \in Nat \ {0}
  /\ MaxCalls \in Nat /\ TimeoutSet \in BOOLEAN
  /\ DmaFaults \in BOOLEAN
  /\ \A c \in Calls : c.dst \in Dsts /\ c.len \in Nat \ {0}

CallTags   == {c.tag : c \in Calls}
SegHeaders == [call : Nat, dst : Dsts, len : Nat, tag : CallTags, seq : Nat]
StrmWords  == [call : Nat, off : Nat]
Segments   == [hdr : SegHeaders, data : Seq(StrmWords)]

ASSUME NoPktAssumption == NoPkt \notin Segments

VARIABLES
  \* the firmware
  retval,       \* "idle", "running", or how the last call ended
  call,         \* the call in progress, or the last one
  ncalls,       \* number of calls so far
  toMove,       \* remaining_to_move
  toAck,        \* remaining_to_ack
  inFlight,     \* commands given to the DMA and not acknowledged
  waitPkt,      \* ack_dma is done, ack_packetizer is not
  dma_tag_tmp,  \* tag of the last command given to the DMA
  dma_tag,      \* tag of its last acknowledged command
  outSeq,       \* outbound_seq of each destination
  failedAt,     \* history: number of the first call that failed, or 0
  \* DMA1's read channel
  readQ,        \* its commands: [call, off, len, tag]
  rdWords,      \* words of the first command that were streamed
  rdSts,        \* FIFO of its statuses: [tag, ok]
  strm,         \* FIFO of words, each the [call, off] it was read from
  \* the packetizer
  hdrQ,         \* FIFO of headers: [call, dst, len, tag, seq]
  pkt,          \* the segment in progress: header and words so far, or NoPkt
  pktSts,       \* FIFO of the numbers of the segments sent
  sent          \* the segments sent to each destination

fwVars  == <<retval, call, ncalls, toMove, toAck, inFlight, waitPkt, dma_tag_tmp,
             dma_tag, outSeq, failedAt>>
dmaVars == <<readQ, rdWords, rdSts>>
pktVars == <<pkt, pktSts, sent>>
vars == <<fwVars, dmaVars, strm, hdrQ, pktVars>>

SendInit ==
  /\ retval = "idle" /\ call \in Calls /\ ncalls = 0
  /\ toMove = 0 /\ toAck = 0 /\ inFlight = 0 /\ waitPkt = FALSE
  /\ dma_tag_tmp = 0 /\ dma_tag = 0
  /\ outSeq = [d \in Dsts |-> 0] /\ failedAt = 0
  /\ readQ = <<>> /\ rdWords = 0 /\ rdSts = <<>> /\ strm = <<>>
  /\ hdrQ = <<>> /\ pkt = NoPkt /\ pktSts = <<>>
  /\ sent = [d \in Dsts |-> <<>>]

-----------------------------------------------------------------------------
(* Lengths                                                                 *)

SegLen(remaining) == IF remaining < TxnSize THEN remaining ELSE TxnSize
Segs(bytes)       == (bytes + TxnSize - 1) \div TxnSize
Words(bytes)      == (bytes + WordSize - 1) \div WordSize
TagAfter(t, n)    == (t + n) % TagMod

-----------------------------------------------------------------------------
(* The firmware                                                            *)

Running == retval = "running"

(* Mutant of Headers: the message in one piece.                            *)
HeadersUncut(dst, bytes, tag, offset) ==
  <<[call |-> ncalls', dst |-> dst, len |-> bytes, tag |-> tag,
     seq |-> outSeq[dst] + offset + 1]>>

(* start_packetizer_message: one header per segment of the bytes, at most  *)
(* max_dma_in_flight of them, numbered from the destination's outbound_seq *)
(* plus an offset.                                                         *)
Headers(dst, bytes, tag, offset) ==
  [i \in 1 .. (IF Segs(bytes) < MaxInFlight THEN Segs(bytes) ELSE MaxInFlight) |->
     [call |-> ncalls', dst |-> dst, len |-> SegLen(bytes - (i - 1) * TxnSize),
      tag |-> tag, seq |-> outSeq[dst] + offset + i]]

(* main takes a send: the headers of the first segments go to the          *)
(* packetizer before any data moves.                                       *)
CallSend(c) ==
  /\ ~ Running /\ ncalls < MaxCalls
  /\ retval' = "running" /\ call' = c /\ ncalls' = ncalls + 1
  /\ toMove' = c.len /\ toAck' = c.len /\ inFlight' = 0 /\ waitPkt' = FALSE
  /\ dma_tag_tmp' = dma_tag
  /\ hdrQ' = hdrQ \o Headers(c.dst, c.len, c.tag, 0)
  /\ UNCHANGED <<dma_tag, outSeq, failedAt, dmaVars, strm, pktVars>>

(* start_dma for the next segment.                                         *)
StartDma ==
  /\ Running /\ ~ waitPkt
  /\ toMove > 0 /\ inFlight < MaxInFlight
  /\ readQ' = Append(readQ, [call |-> ncalls, off |-> call.len - toMove,
                             len |-> SegLen(toMove), tag |-> TagAfter(dma_tag_tmp, 1)])
  /\ dma_tag_tmp' = TagAfter(dma_tag_tmp, 1)
  /\ toMove' = toMove - SegLen(toMove)
  /\ inFlight' = inFlight + 1
  /\ UNCHANGED <<retval, call, ncalls, toAck, waitPkt, dma_tag, outSeq, failedAt,
                 rdWords, rdSts, strm, pktVars>>

(* The first loop: the headers are queued already.                         *)
IssueFirst == toAck = call.len /\ StartDma /\ UNCHANGED hdrQ

(* Mutant of IssueNext: numbered from outbound_seq itself.                 *)
IssueNextNoOffset ==
  /\ toAck # call.len
  /\ StartDma
  /\ hdrQ' = hdrQ \o Headers(call.dst, SegLen(toMove), call.tag, 0)

(* The second loop: each acknowledged segment makes room for one more,     *)
(* whose number is max_dma_in_flight past the last acknowledged one.       *)
IssueNext ==
  /\ toAck # call.len
  /\ StartDma
  /\ hdrQ' = hdrQ \o Headers(call.dst, SegLen(toMove), call.tag, MaxInFlight - 1)

(* Mutant of MustAck: acknowledge only once everything is issued.          *)
MustAckAtEnd == toMove = 0

(* Every segment is under way, or as many as may be.                       *)
MustAck == toMove = 0 \/ inFlight = MaxInFlight

Fail ==
  /\ retval' = "failed"
  /\ failedAt' = IF failedAt = 0 THEN ncalls ELSE failedAt
  /\ UNCHANGED <<call, ncalls, toMove, toAck, inFlight, waitPkt, dma_tag_tmp, outSeq,
                 readQ, rdWords, strm, hdrQ, pkt, sent>>

(* ack_dma, then check_DMA_status.                                         *)
AckDma ==
  /\ Running /\ ~ waitPkt /\ toAck > 0 /\ MustAck
  /\ rdSts # <<>>
  /\ rdSts' = Tail(rdSts)
  /\ dma_tag' = TagAfter(dma_tag, 1)
  /\ \/ /\ Head(rdSts) = [tag |-> TagAfter(dma_tag, 1), ok |-> TRUE]
        /\ waitPkt' = TRUE
        /\ UNCHANGED <<retval, call, ncalls, toMove, toAck, inFlight, dma_tag_tmp,
                       outSeq, failedAt, readQ, rdWords, strm, hdrQ, pkt, sent>>
     \/ /\ Head(rdSts) # [tag |-> TagAfter(dma_tag, 1), ok |-> TRUE]
        /\ Fail
  /\ UNCHANGED pktSts

(* Mutant of AckPkt: the status is neither awaited nor read.               *)
AckPktAny ==
  /\ Running /\ waitPkt
  /\ outSeq' = [outSeq EXCEPT ![call.dst] = @ + 1]
  /\ waitPkt' = FALSE
  /\ toAck' = toAck - SegLen(toAck)
  /\ inFlight' = inFlight - 1
  /\ UNCHANGED <<pktSts, retval, call, ncalls, toMove, dma_tag_tmp, dma_tag, failedAt,
                 dmaVars, strm, hdrQ, pkt, sent>>

(* ack_packetizer: the number must be the one after outbound_seq, else     *)
(* PACK_SEQ_NUMBER_ERROR.                                                  *)
AckPkt ==
  /\ Running /\ waitPkt
  /\ pktSts # <<>>
  /\ pktSts' = Tail(pktSts)
  /\ \/ /\ Head(pktSts) = outSeq[call.dst] + 1
        /\ outSeq' = [outSeq EXCEPT ![call.dst] = @ + 1]
        /\ waitPkt' = FALSE
        /\ toAck' = toAck - SegLen(toAck)
        /\ inFlight' = inFlight - 1
        /\ UNCHANGED <<retval, call, ncalls, toMove, dma_tag_tmp, dma_tag, failedAt,
                       dmaVars, strm, hdrQ, pkt, sent>>
     \/ /\ Head(pktSts) # outSeq[call.dst] + 1
        /\ Fail
        /\ UNCHANGED <<dma_tag, rdSts>>

(* DMA_TIMEOUT_ERROR or PACK_TIMEOUT_STS_ERROR: the call ends, what it     *)
(* gave to the DMA and the packetizer stays there.                         *)
AckTimeout ==
  /\ Running /\ TimeoutSet
  /\ \/ ~ waitPkt /\ toAck > 0 /\ MustAck /\ rdSts = <<>>
     \/ waitPkt /\ pktSts = <<>>
  /\ Fail
  /\ UNCHANGED <<dma_tag, rdSts, pktSts>>

FinishSend ==
  /\ Running /\ ~ waitPkt /\ toMove = 0 /\ toAck = 0
  /\ retval' = "ok"
  /\ UNCHANGED <<call, ncalls, toMove, toAck, inFlight, waitPkt, dma_tag_tmp, dma_tag,
                 outSeq, failedAt, dmaVars, strm, hdrQ, pktVars>>

-----------------------------------------------------------------------------
(* DMA1 and the packetizer                                                 *)

(* The DMA streams the next word of its first command; with the last word  *)
(* it queues the status. A read that ends with an error has streamed its   *)
(* words all the same.                                                     *)
Outcomes == IF DmaFaults THEN BOOLEAN ELSE {TRUE}

ReadWord ==
  /\ readQ # <<>> /\ Len(strm) < StreamDepth
  /\ LET c == Head(readQ)
     IN /\ strm' = Append(strm, [call |-> c.call, off |-> c.off + rdWords * WordSize])
        /\ \/ /\ rdWords + 1 < Words(c.len)
              /\ rdWords' = rdWords + 1
              /\ UNCHANGED <<readQ, rdSts>>
           \/ /\ rdWords + 1 = Words(c.len)
              /\ rdWords' = 0
              /\ readQ' = Tail(readQ)
              /\ \E ok \in Outcomes :
                   rdSts' = Append(rdSts, [tag |-> c.tag, ok |-> ok])
  /\ UNCHANGED <<fwVars, hdrQ, pktVars>>

PktStart ==
  /\ pkt = NoPkt /\ hdrQ # <<>>
  /\ pkt' = [hdr |-> Head(hdrQ), data |-> <<>>]
  /\ hdrQ' = Tail(hdrQ)
  /\ UNCHANGED <<fwVars, dmaVars, strm, pktSts, sent>>

PktWord ==
  /\ pkt # NoPkt /\ Len(pkt.data) < Words(pkt.hdr.len)
  /\ strm # <<>>
  /\ pkt' = [pkt EXCEPT !.data = Append(@, Head(strm))]
  /\ strm' = Tail(strm)
  /\ UNCHANGED <<fwVars, dmaVars, hdrQ, pktSts, sent>>

(* The segment is out; its number goes to the firmware.                    *)
PktDone ==
  /\ pkt # NoPkt /\ Len(pkt.data) = Words(pkt.hdr.len)
  /\ sent' = [sent EXCEPT ![pkt.hdr.dst] =
                Append(@, pkt)]
  /\ pktSts' = Append(pktSts, pkt.hdr.seq)
  /\ pkt' = NoPkt
  /\ UNCHANGED <<fwVars, dmaVars, strm, hdrQ>>

-----------------------------------------------------------------------------

Firmware ==
  \/ \E c \in Calls : CallSend(c)
  \/ IssueFirst
  \/ IssueNext
  \/ AckDma
  \/ AckPkt
  \/ AckTimeout
  \/ FinishSend

Packetizer == PktStart \/ PktWord \/ PktDone

SendNext == Firmware \/ ReadWord \/ Packetizer

SendSpec == SendInit /\ [][SendNext]_vars

(* The firmware polls, the devices work while they can. The host owes no   *)
(* call.                                                                   *)
SendFairness ==
  /\ WF_vars(IssueFirst \/ IssueNext \/ AckDma \/ AckPkt \/ FinishSend)
  /\ WF_vars(ReadWord) /\ WF_vars(Packetizer)

SendFairSpec == SendSpec /\ SendFairness

-----------------------------------------------------------------------------
(* Properties                                                              *)

(* Each segment sent carries the words its header stands for: the words of *)
(* one stretch of one message, that starts where a segment of the DMA      *)
(* starts. The two ways of cutting the message agree for every length.     *)
SegmentsIntact ==
  \A d \in Dsts : \A i \in DOMAIN sent[d] :
    LET m == sent[d][i]
    IN \A k \in DOMAIN m.data :
         /\ m.data[k].call = m.hdr.call
         /\ m.data[k].off = m.data[1].off + (k - 1) * WordSize
         /\ m.data[1].off % TxnSize = 0

(* No earlier call failed: what a failed call leaves in the queues is      *)
(* taken for the next call's (its late status for that of a new segment).  *)
Undisturbed == failedAt \in {0, ncalls}

(* A send that succeeds leaves nothing behind: the packetizer sent all of  *)
(* its segments, each queue between the firmware and the devices is empty, *)
(* and the tags and numbers of both sides agree for the next call.         *)
NothingLeft ==
  retval = "ok" /\ Undisturbed =>
    /\ readQ = <<>> /\ rdSts = <<>> /\ strm = <<>> /\ hdrQ = <<>>
    /\ pkt = NoPkt /\ pktSts = <<>>
    /\ dma_tag = dma_tag_tmp
    /\ \A d \in Dsts : outSeq[d] = Len(sent[d])

(* "check that packetizer has finished processing every packet it was      *)
(* supposed to": what ack_packetizer acknowledged of this call was sent.   *)
SentOfCall(n) == {i \in DOMAIN sent[call.dst] : sent[call.dst][i].hdr.call = n}

AckMeansSent ==
  retval # "idle" /\ Undisturbed =>
    \A k \in 1 .. (Segs(call.len) - Segs(toAck)) :
      \E i \in SentOfCall(ncalls) :
        sent[call.dst][i].data[1].off = (k - 1) * TxnSize

(* The segments emitted for a destination are numbered without gap or      *)
(* repetition, as their receiver expects of this rank, up to the last      *)
(* segment of the first call that fails.                                   *)
Counted(m) == failedAt = 0 \/ m.call <= failedAt

CountedSent(d) ==
  CHOOSE n \in 0 .. Len(sent[d]) :
    \A i \in DOMAIN sent[d] : i <= n <=> Counted(sent[d][i].hdr)

Numbers(d) == [i \in 1 .. CountedSent(d) |-> sent[d][i].hdr.seq]

Source == INSTANCE NumberedSource WITH out <- [d \in Dsts |-> Numbers(d)]

NumberedInOrder == Source!SourceSpec

(* Liveness: a send ends, also after calls that timed out: headers and     *)
(* commands are queued together, so the devices never wait for each other. *)
SendReturns == Running ~> ~ Running

=============================================================================
