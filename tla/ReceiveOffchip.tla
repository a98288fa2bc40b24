--------------------------- MODULE ReceiveOffchip ---------------------------
(***************************************************************************)
(* receive_offchip_world, the receive of one message in segments: wait for *)
(* the next segment in the spare buffers, let DMA1 copy it to the          *)
(* destination, free its buffer once the copy is acknowledged, with at     *)
(* most max_dma_in_flight segments between the wait and the acknowledge.   *)
(*                                                                         *)
(* It takes the place of the main loop of RxBuffers; the handler and the   *)
(* hardware of RxBuffers run beside it. The loop's three phases (issue,    *)
(* acknowledge one and issue one, acknowledge the rest) amount to: wait    *)
(* for a segment while one is missing and fewer than max_dma_in_flight are *)
(* held, otherwise acknowledge the oldest.                                 *)
(***************************************************************************)
EXTENDS RxBuffers

CONSTANTS
  Calls,     \* receives the host may ask for: [src, len, tag]
  MaxCalls,  \* bound on the number of calls
  TxnSize,   \* dma_transaction_size
  TagMod     \* number of DMA tags, 16 in the code

ASSUME CallsAssumption ==
  /\ TxnSize \in Nat \ {0} /\ TagMod \in Nat \ {0} /\ MaxCalls \in Nat
  /\ \A c \in Calls :
       /\ c.src \in Srcs /\ c.len \in Nat \ {0}
       /\ \A n \in 1 .. TxnSize : [src |-> c.src, len |-> n, tag |-> c.tag] \in Requests

VARIABLES
  retval,       \* "idle", "running", or how the last call ended
  call,         \* the call in progress, or the last one
  ncalls,       \* number of calls so far
  toMove,       \* remaining_to_move
  toAck,        \* remaining_to_ack
  dma_tag_tmp,  \* tag of the last command given to DMA1
  dma_tag,      \* tag of the last acknowledged command
  copyQ,        \* commands DMA1 has not executed
  rdSts, wrSts, \* FIFOs of its read and write statuses
  dst,          \* what lies in the destination, by the segments' offsets
  first,        \* number of the last segment claimed before the call
  quiet,        \* history: DMA1 was left nothing by the calls before this one
  upset         \* history: an error was reported, by a call or the handler

callVars == <<retval, call, ncalls, toMove, toAck, dma_tag_tmp, dma_tag, first,
              quiet, upset>>
copyVars == <<copyQ, rdSts, wrSts, dst>>
recvVars == <<callVars, copyVars>>
recvAll  == <<vars, recvVars>>

SegLen(remaining) == IF remaining < TxnSize THEN remaining ELSE TxnSize

Offsets == 0 .. (CHOOSE n \in {c.len : c \in Calls} : \A c \in Calls : c.len <= n)

RecvInit ==
  /\ Init
  /\ retval = "idle" /\ call \in Calls /\ ncalls = 0
  /\ toMove = 0 /\ toAck = 0 /\ dma_tag_tmp = 0 /\ dma_tag = 0 /\ first = 0
  /\ copyQ = <<>> /\ rdSts = <<>> /\ wrSts = <<>>
  /\ dst = [o \in Offsets |-> NoMsg]
  /\ quiet = TRUE /\ upset = FALSE

Running == retval = "running" /\ MainRuns

(* The next tag: dma_tag_tmp = (dma_tag_tmp + 1) & 0xf.                    *)
TagAfter(t, n) == (t + n) % TagMod

(* main takes the host's call.                                             *)
CallRecv(c) ==
  /\ retval # "running" /\ MainRuns
  /\ ncalls < MaxCalls
  /\ retval' = "running" /\ call' = c /\ ncalls' = ncalls + 1
  /\ toMove' = c.len /\ toAck' = c.len /\ dma_tag_tmp' = dma_tag
  /\ first' = inSeq[c.src]
  /\ dst' = [o \in Offsets |-> NoMsg]
  /\ quiet' = (copyQ = <<>> /\ rdSts = <<>> /\ wrSts = <<>>)
  /\ UNCHANGED <<vars, dma_tag, copyQ, rdSts, wrSts, upset>>

AwaitSegment ==
  /\ Running /\ toMove > 0
  /\ StartWait([src |-> call.src, len |-> SegLen(toMove), tag |-> call.tag])
  /\ UNCHANGED recvVars

(* The scan found the segment; start_dma gives DMA1 a read of the buffer   *)
(* and a write to the destination, under the next two tags.                *)
TakeSegment ==
  /\ Running /\ ScanMatch
  /\ copyQ' = Append(copyQ, [buf |-> pos, at |-> call.len - toMove,
                             after |-> dma_tag_tmp, call |-> ncalls])
  /\ toMove' = toMove - SegLen(toMove)
  /\ dma_tag_tmp' = TagAfter(dma_tag_tmp, 2)
  /\ UNCHANGED <<retval, call, ncalls, toAck, dma_tag, first, quiet, upset,
                 rdSts, wrSts, dst>>

ScanOn ==
  /\ Running /\ (ScanMiss \/ ScanAgain)
  /\ UNCHANGED recvVars

(* The wait expires: the call returns an error. What it gave to DMA1 stays *)
(* there, and dma_tag is not moved on.                                     *)
GiveUp ==
  /\ Running /\ ReceiveTimeout
  /\ retval' = "failed" /\ upset' = TRUE
  /\ UNCHANGED <<call, ncalls, toMove, toAck, dma_tag_tmp, dma_tag, first, quiet,
                 copyVars>>

(* Mutant of MustAck: acknowledge only once everything is issued.          *)
MustAckAtEnd == toMove = 0

(* Every segment is under way, or as many as may be.                       *)
MustAck == toMove = 0 \/ Len(held) = MaxInFlight

(* Mutant of AckSegment: the buffer is freed before the statuses are in.   *)
AckUnseen ==
  /\ Running /\ MustAck
  /\ FreeOldest
  /\ toAck' = toAck - SegLen(toAck)
  /\ dma_tag' = TagAfter(dma_tag, 2)
  /\ rdSts' = IF rdSts = <<>> THEN rdSts ELSE Tail(rdSts)
  /\ wrSts' = IF wrSts = <<>> THEN wrSts ELSE Tail(wrSts)
  /\ UNCHANGED <<retval, call, ncalls, toMove, dma_tag_tmp, first, quiet,
                 upset, copyQ, dst>>

(* Mutant of AckSegment: the buffer of the newest segment is freed.        *)
AckNewest ==
  /\ Running /\ MustAck /\ req = NoMsg /\ held # <<>>
  /\ rdSts # <<>> /\ wrSts # <<>>
  /\ status' = [status EXCEPT ![held[Len(held)]] = "IDLE"]
  /\ held' = SubSeq(held, 1, Len(held) - 1)
  /\ ie' = TRUE
  /\ UNCHANGED <<dmaTag, rx, lookup, numEnq, req, pos, inSeq, isrVars, fault,
                 mask, timer, pend, netVars, dmaVars>>
  /\ rdSts' = Tail(rdSts) /\ wrSts' = Tail(wrSts)
  /\ dma_tag' = TagAfter(dma_tag, 2)
  /\ toAck' = toAck - SegLen(toAck)
  /\ UNCHANGED <<retval, call, ncalls, toMove, dma_tag_tmp, first, quiet,
                 upset, copyQ, dst>>

(* ack_dma finds both statuses, with the tags it expects; the oldest       *)
(* buffer held is free.                                                    *)
AckSegment ==
  /\ Running /\ MustAck
  /\ rdSts # <<>> /\ wrSts # <<>>
  /\ Head(rdSts) = [tag |-> TagAfter(dma_tag, 1), ok |-> TRUE]
  /\ Head(wrSts) = [tag |-> TagAfter(dma_tag, 2), ok |-> TRUE]
  /\ FreeOldest
  /\ rdSts' = Tail(rdSts) /\ wrSts' = Tail(wrSts)
  /\ dma_tag' = TagAfter(dma_tag, 2)
  /\ toAck' = toAck - SegLen(toAck)
  /\ UNCHANGED <<retval, call, ncalls, toMove, dma_tag_tmp, first, quiet,
                 upset, copyQ, dst>>

(* check_DMA_status rejects the read's status: the write's stays queued.   *)
AckBadRead ==
  /\ Running /\ MustAck
  /\ rdSts # <<>> /\ wrSts # <<>>
  /\ Head(rdSts) # [tag |-> TagAfter(dma_tag, 1), ok |-> TRUE]
  /\ CopyFails
  /\ rdSts' = Tail(rdSts) /\ dma_tag' = TagAfter(dma_tag, 1)
  /\ retval' = "failed" /\ upset' = TRUE
  /\ UNCHANGED <<call, ncalls, toMove, toAck, dma_tag_tmp, first, quiet, copyQ,
                 wrSts, dst>>

AckBadWrite ==
  /\ Running /\ MustAck
  /\ rdSts # <<>> /\ wrSts # <<>>
  /\ Head(rdSts) = [tag |-> TagAfter(dma_tag, 1), ok |-> TRUE]
  /\ Head(wrSts) # [tag |-> TagAfter(dma_tag, 2), ok |-> TRUE]
  /\ CopyFails
  /\ rdSts' = Tail(rdSts) /\ wrSts' = Tail(wrSts)
  /\ dma_tag' = TagAfter(dma_tag, 2)
  /\ retval' = "failed" /\ upset' = TRUE
  /\ UNCHANGED <<call, ncalls, toMove, toAck, dma_tag_tmp, first, quiet, copyQ, dst>>

(* DMA_TIMEOUT_ERROR.                                                      *)
AckTimeout ==
  /\ Running /\ MustAck
  /\ rdSts = <<>> \/ wrSts = <<>>
  /\ TimeoutSet /\ CopyFails
  /\ retval' = "failed" /\ upset' = TRUE
  /\ UNCHANGED <<call, ncalls, toMove, toAck, dma_tag_tmp, dma_tag, first, quiet,
                 copyVars>>

FinishRecv ==
  /\ Running /\ req = NoMsg /\ toMove = 0 /\ toAck = 0
  /\ retval' = "ok"
  /\ UNCHANGED <<vars, call, ncalls, toMove, toAck, dma_tag_tmp, dma_tag, first,
                 quiet, upset, copyVars>>

(* The host switches the interrupts on or off between calls.               *)
Housekeep ==
  /\ retval # "running"
  /\ EnableIrq \/ DisableIrq
  /\ UNCHANGED recvVars

(* An error raised in the handler ends the call too; finalize_call reports *)
(* it even when there is none.                                             *)
Handler ==
  /\ Isr
  /\ LET raised == isrPc = "dequeue" /\ isrPc' = "out"
     IN /\ retval' = IF raised THEN "failed" ELSE retval
        /\ upset' = (upset \/ raised)
  /\ UNCHANGED <<call, ncalls, toMove, toAck, dma_tag_tmp, dma_tag, first, quiet,
                 copyVars>>

(* DMA1 copies a segment to the destination of the call that issued the    *)
(* command; the destinations of earlier calls are not modelled.            *)
CopySegment ==
  /\ copyQ # <<>>
  /\ LET c == Head(copyQ)
     IN \E rdOk, wrOk \in Outcomes :
          /\ dst' = IF c.call = ncalls /\ rdOk /\ wrOk
                    THEN [dst EXCEPT ![c.at] = mem[c.buf]] ELSE dst
          /\ rdSts' = Append(rdSts, [tag |-> TagAfter(c.after, 1), ok |-> rdOk])
          /\ wrSts' = Append(wrSts, [tag |-> TagAfter(c.after, 2), ok |-> wrOk])
  /\ copyQ' = Tail(copyQ)
  /\ UNCHANGED <<vars, callVars>>

Receive ==
  \/ \E c \in Calls : CallRecv(c)
  \/ AwaitSegment
  \/ TakeSegment
  \/ ScanOn
  \/ GiveUp
  \/ AckSegment
  \/ AckBadRead
  \/ AckBadWrite
  \/ AckTimeout
  \/ FinishRecv
  \/ Housekeep

RecvNext ==
  \/ Receive
  \/ CopySegment
  \/ Handler
  \/ Hardware /\ UNCHANGED recvVars

RecvSpec == RecvInit /\ [][RecvNext]_recvAll

(* The processor: a receive in progress goes on between the interrupts,    *)
(* which come at most once per period of the timer. The network delivers   *)
(* what the peers sent.                                                    *)
RecvFairness ==
  /\ Fairness
  /\ WF_recvAll(Handler) /\ WF_recvAll(CopySegment)
  /\ \A m \in Messages : WF_recvAll(Arrive(m) /\ UNCHANGED recvVars)
  /\ SF_recvAll(\/ AwaitSegment \/ TakeSegment \/ ScanOn
                \/ AckSegment \/ AckBadRead \/ AckBadWrite \/ FinishRecv)

RecvFairSpec == RecvSpec /\ RecvFairness

-----------------------------------------------------------------------------

(* A call that succeeds has put its whole message in the destination: each *)
(* segment is the source's next one, of the right length, and was copied   *)
(* before the call returned (docs: "the CCL_Offload will move data from    *)
(* the rx_sparse_buffers to any user specified memory location").          *)
DataReturned ==
  retval = "ok" =>
    \A o \in Offsets : o < call.len /\ o % TxnSize = 0 =>
      /\ dst[o] # NoMsg
      /\ dst[o].src = call.src /\ dst[o].len = SegLen(call.len - o)
      /\ dst[o].seq = first + o \div TxnSize + 1

(* DataReturned of every call that finds DMA1's queues empty, after        *)
(* whatever faults and timeouts: what earlier calls left in the buffers is *)
(* harmless, what they left in DMA1's queues is not.                       *)
QuietDataReturned == quiet => DataReturned

(* A buffer is not handed back while DMA1 still has to read it.            *)
CopiedBeforeFree ==
  \A i \in DOMAIN copyQ :
    copyQ[i].call = ncalls /\ retval = "running" /\ quiet =>
      \E j \in DOMAIN held : held[j] = copyQ[i].buf

(* The receive uses the buffers only as RxBuffers allows, so what holds of *)
(* RxBuffers holds here.                                                   *)
BuffersSpec == Init /\ [][Next]_vars

(* Liveness: while no error was reported, a receive whose message the peer *)
(* sends, in segments that match it, returns. Between calls the host keeps *)
(* the interrupts enabled.                                                 *)
ReceiveReturns ==
  (retval = "running" /\ ~ upset /\ ie /\ mask # {}) ~> retval # "running"

=============================================================================
