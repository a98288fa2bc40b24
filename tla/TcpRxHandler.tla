---------------------------- MODULE TcpRxHandler ----------------------------
(***************************************************************************)
(* tcp_rxHandler: three processes of the kernel's dataflow that turn the   *)
(* TCP stack's notifications into read requests (requestFSM), forward what *)
(* the stack then delivers (consumeFSM), and count the packets in flight   *)
(* (inflightReadHandler), so that no more than a few are requested at once.*)
(* They talk through FIFOs; requestFSM asks for the count and uses the     *)
(* answer later, while packets are counted in and out.                     *)
(*                                                                         *)
(* A notification or a read request is the length of the packet, in words. *)
(* A FIFO that only carries TRUE is the number of its elements.            *)
(***************************************************************************)
EXTENDS Naturals, Sequences

CONSTANTS
  Limit,      \* packets in flight at which requests back off, 4
  BackOff,    \* rounds in BACK_OFF, 5
  FifoDepth,  \* depth of the FIFOs between the processes, 2
  Lengths,    \* lengths of notified packets, 0 for a notification without data
  MaxNotis    \* bound on the number of notifications

ASSUME RxHandlerAssumption ==
  /\ Limit \in Nat \ {0} /\ BackOff \in Nat /\ FifoDepth \in Nat \ {0}
  /\ Lengths \subseteq Nat /\ MaxNotis \in Nat

VARIABLES
  nnotis,      \* number of notifications so far
  noti,        \* FIFO of notifications
  reqState,    \* requestFsmState; COUNT: in REQUEST, about to write incrCntReq
  counter,     \* rounds spent in BACK_OFF
  cntReq,      \* inflightReadCntReq
  cntRsp,      \* inflightReadCntRsp
  incr,        \* incrCntReq
  decr,        \* decrCntReq
  inflightCnt, \* the count of inflightReadHandler
  conState,    \* serverFsmState; DONE: last word forwarded, about to write decrCntReq
  readPkg,     \* FIFO of read requests to the stack
  serving,     \* words the stack still has to deliver of the packet it started
  rxMeta,      \* FIFO of the packets' meta data
  rxData,      \* FIFO of their words: the bit TLAST, 1 for a packet's last word
  asked,       \* packets requested so far
  done         \* packets forwarded to their last word so far

reqVars   == <<noti, reqState, counter, asked>>
conVars   == <<conState, done>>
stackVars == <<readPkg, serving, rxMeta, rxData>>
cntVars   == <<cntReq, cntRsp, incr, decr, inflightCnt>>
vars == <<nnotis, reqVars, conVars, stackVars, cntVars>>

Init ==
  /\ nnotis = 0 /\ noti = <<>> /\ reqState = "WAIT_NOTI" /\ counter = 0
  /\ cntReq = 0 /\ cntRsp = <<>> /\ incr = 0 /\ decr = 0 /\ inflightCnt = 0
  /\ conState = "WAIT_PKG"
  /\ readPkg = <<>> /\ serving = 0 /\ rxMeta = 0 /\ rxData = <<>>
  /\ asked = 0 /\ done = 0

-----------------------------------------------------------------------------
(* inflightReadHandler: one thing a round, and a count is given out only   *)
(* when there is nothing to count. A packet may be counted out only after  *)
(* it was counted in.                                                      *)

CountOut ==
  /\ decr > 0 /\ inflightCnt > 0
  /\ decr' = decr - 1 /\ inflightCnt' = inflightCnt - 1
  /\ UNCHANGED <<nnotis, reqVars, conVars, stackVars, cntReq, cntRsp, incr>>

CountIn ==
  /\ ~ (decr > 0 /\ inflightCnt > 0)
  /\ incr > 0
  /\ incr' = incr - 1 /\ inflightCnt' = inflightCnt + 1
  /\ UNCHANGED <<nnotis, reqVars, conVars, stackVars, cntReq, cntRsp, decr>>

(* Mutant of AnswerCount: answers come before the counting.                *)
AnswerCountFirst ==
  /\ cntReq > 0 /\ Len(cntRsp) < FifoDepth
  /\ cntReq' = cntReq - 1 /\ cntRsp' = Append(cntRsp, inflightCnt)
  /\ UNCHANGED <<nnotis, reqVars, conVars, stackVars, incr, decr, inflightCnt>>

AnswerCount ==
  /\ ~ (decr > 0 /\ inflightCnt > 0) /\ incr = 0
  /\ cntReq > 0 /\ Len(cntRsp) < FifoDepth
  /\ cntReq' = cntReq - 1 /\ cntRsp' = Append(cntRsp, inflightCnt)
  /\ UNCHANGED <<nnotis, reqVars, conVars, stackVars, incr, decr, inflightCnt>>

InflightReadHandler == CountOut \/ CountIn \/ AnswerCount

-----------------------------------------------------------------------------
(* requestFSM                                                              *)

(* The notification stays in its FIFO until its packet is requested.       *)
AskCount ==
  /\ reqState = "WAIT_NOTI" /\ noti # <<>> /\ cntReq < FifoDepth
  /\ cntReq' = cntReq + 1
  /\ reqState' = "CHECK_IN_FLIGHT"
  /\ UNCHANGED <<nnotis, noti, counter, asked, conVars, stackVars, cntRsp, incr, decr,
                 inflightCnt>>

(* The packet is requested if the answer leaves room for it.               *)
CheckInFlight ==
  /\ reqState = "CHECK_IN_FLIGHT" /\ cntRsp # <<>>
  /\ cntRsp' = Tail(cntRsp)
  /\ reqState' = IF Head(cntRsp) < Limit THEN "REQUEST" ELSE "BACK_OFF"
  /\ UNCHANGED <<nnotis, noti, counter, asked, conVars, stackVars, cntReq, incr, decr,
                 inflightCnt>>

(* Mutant of BackOffRound: the counter is not reset.                       *)
BackOffRoundOnward ==
  /\ reqState = "BACK_OFF"
  /\ counter' = counter + 1
  /\ \/ counter = BackOff /\ reqState' = "WAIT_NOTI"
     \/ counter # BackOff /\ UNCHANGED reqState
  /\ UNCHANGED <<nnotis, noti, asked, conVars, stackVars, cntVars>>

(* Back off for some rounds, then ask again.                               *)
BackOffRound ==
  /\ reqState = "BACK_OFF"
  /\ \/ counter = BackOff /\ counter' = 0 /\ reqState' = "WAIT_NOTI"
     \/ counter # BackOff /\ counter' = counter + 1 /\ UNCHANGED reqState
  /\ UNCHANGED <<nnotis, noti, asked, conVars, stackVars, cntVars>>

(* A notification without data is dropped. The request goes out before     *)
(* incrCntReq is written, a write that may have to wait.                   *)
RequestPacket ==
  /\ reqState = "REQUEST" /\ noti # <<>>
  /\ noti' = Tail(noti)
  /\ \/ /\ Head(noti) = 0
        /\ reqState' = "WAIT_NOTI"
        /\ UNCHANGED <<readPkg, asked>>
     \/ /\ Head(noti) # 0
        /\ readPkg' = Append(readPkg, Head(noti))
        /\ asked' = asked + 1
        /\ reqState' = "COUNT"
  /\ UNCHANGED <<nnotis, counter, conVars, serving, rxMeta, rxData, cntVars>>

ReportRequest ==
  /\ reqState = "COUNT" /\ incr < FifoDepth
  /\ incr' = incr + 1
  /\ reqState' = "WAIT_NOTI"
  /\ UNCHANGED <<nnotis, noti, counter, asked, conVars, stackVars, cntReq, cntRsp, decr,
                 inflightCnt>>

RequestFSM ==
  AskCount \/ CheckInFlight \/ BackOffRound \/ RequestPacket \/ ReportRequest

-----------------------------------------------------------------------------
(* consumeFSM                                                              *)

(* Mutant of AfterWord: a packet of one word is not reported.              *)
AfterWordOfMany(last) ==
  IF last = 1 /\ conState = "CONSUME" THEN conState' = "DONE" /\ done' = done + 1
  ELSE conState' = (IF last = 1 THEN "WAIT_PKG" ELSE "CONSUME")
       /\ done' = done + (IF last = 1 THEN 1 ELSE 0)

AfterWord(last) ==
  IF last = 1 THEN conState' = "DONE"    /\ done' = done + 1
              ELSE conState' = "CONSUME" /\ done' = done

FirstWord ==
  /\ conState = "WAIT_PKG" /\ rxMeta > 0 /\ rxData # <<>>
  /\ rxMeta' = rxMeta - 1 /\ rxData' = Tail(rxData)
  /\ AfterWord(Head(rxData))
  /\ UNCHANGED <<nnotis, reqVars, readPkg, serving, cntVars>>

NextWord ==
  /\ conState = "CONSUME" /\ rxData # <<>>
  /\ rxData' = Tail(rxData)
  /\ AfterWord(Head(rxData))
  /\ UNCHANGED <<nnotis, reqVars, readPkg, serving, rxMeta, cntVars>>

ReportDone ==
  /\ conState = "DONE" /\ decr < FifoDepth
  /\ decr' = decr + 1
  /\ conState' = "WAIT_PKG"
  /\ UNCHANGED <<nnotis, reqVars, done, stackVars, cntReq, cntRsp, incr, inflightCnt>>

ConsumeFSM == FirstWord \/ NextWord \/ ReportDone

-----------------------------------------------------------------------------
(* The TCP stack: notifies of packets, and serves the read requests in     *)
(* turn, each with its meta data and the words of its packet.              *)

Notify(len) ==
  /\ nnotis < MaxNotis
  /\ nnotis' = nnotis + 1
  /\ noti' = Append(noti, len)
  /\ UNCHANGED <<reqState, counter, asked, conVars, stackVars, cntVars>>

ServeMeta ==
  /\ readPkg # <<>> /\ serving = 0
  /\ serving' = Head(readPkg)
  /\ readPkg' = Tail(readPkg)
  /\ rxMeta' = rxMeta + 1
  /\ UNCHANGED <<nnotis, reqVars, conVars, rxData, cntVars>>

ServeWord ==
  /\ serving > 0
  /\ rxData' = Append(rxData, IF serving = 1 THEN 1 ELSE 0)
  /\ serving' = serving - 1
  /\ UNCHANGED <<nnotis, reqVars, conVars, readPkg, rxMeta, cntVars>>

-----------------------------------------------------------------------------

Next ==
  \/ InflightReadHandler
  \/ RequestFSM
  \/ ConsumeFSM
  \/ \E len \in Lengths : Notify(len)
  \/ ServeMeta
  \/ ServeWord

Spec == Init /\ [][Next]_vars

(* The three processes are free running; the stack answers every request,  *)
(* and the depacketizer takes what is forwarded.                           *)
Fairness ==
  /\ WF_vars(InflightReadHandler) /\ WF_vars(RequestFSM) /\ WF_vars(ConsumeFSM)
  /\ WF_vars(ServeMeta \/ ServeWord)

FairSpec == Spec /\ Fairness

-----------------------------------------------------------------------------

(* States and counters are in range and no FIFO holds more than its depth. *)
TypeOK ==
  /\ nnotis \in 0 .. MaxNotis /\ noti \in Seq(Nat)
  /\ reqState \in {"WAIT_NOTI", "CHECK_IN_FLIGHT", "BACK_OFF", "REQUEST", "COUNT"}
  /\ counter \in 0 .. BackOff
  /\ cntReq \in 0 .. FifoDepth /\ cntRsp \in Seq(Nat) /\ Len(cntRsp) <= FifoDepth
  /\ incr \in 0 .. FifoDepth /\ decr \in 0 .. FifoDepth
  /\ inflightCnt \in Nat
  /\ conState \in {"WAIT_PKG", "CONSUME", "DONE"}
  /\ readPkg \in Seq(Nat) /\ serving \in Nat /\ rxMeta \in Nat
  /\ rxData \in Seq({0, 1})
  /\ asked \in Nat /\ done \in Nat

(* Rate control: at no time are more than Limit packets requested and not  *)
(* yet forwarded, although the count that a request is decided on was      *)
(* given earlier, and the counting itself lags behind both sides.          *)
WithinLimit == asked <= done + Limit

(* The count lags, it does not drift: with the reports that are under way  *)
(* it equals the packets in flight, so that neither can the limit shrink   *)
(* with time nor can packets be forgotten.                                 *)
CountKept ==
  LET reporting == incr + (IF reqState = "COUNT" THEN 1 ELSE 0)
      finishing == decr + (IF conState = "DONE" THEN 1 ELSE 0)
  IN inflightCnt + reporting + done = asked + finishing

(* Liveness: whatever is notified is requested and forwarded. Backing off  *)
(* at the limit neither loses a notification nor blocks for ever.          *)
EverythingForwarded == noti # <<>> ~> (noti = <<>> /\ asked = done)

=============================================================================
