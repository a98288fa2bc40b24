------------------------- MODULE TcpRxHandlerProofs -------------------------
(***************************************************************************)
(* The rate control of tcp_rxHandler keeps its limit, for every limit,     *)
(* back-off, FIFO depth and traffic.                                       *)
(***************************************************************************)
EXTENDS TcpRxHandler, TLAPS

Reporting == incr + (IF reqState = "COUNT" THEN 1 ELSE 0)

(* A request for the count is answered once, and awaited by requestFSM.    *)
OneQuestion ==
  IF reqState = "CHECK_IN_FLIGHT" THEN cntReq + Len(cntRsp) = 1
                                  ELSE cntReq = 0 /\ Len(cntRsp) = 0

(* An answer is never too low: no packet is waiting to be counted in, and  *)
(* since it was given packets were at most counted out.                    *)
AnswerHolds ==
  /\ cntRsp # <<>> => incr = 0 /\ inflightCnt <= Head(cntRsp)
  /\ reqState = "REQUEST" => incr = 0 /\ inflightCnt < Limit

(* What is counted or about to be is within the limit.                     *)
CountBounded == inflightCnt + Reporting <= Limit

IInv == TypeOK /\ CountKept /\ OneQuestion /\ AnswerHolds /\ CountBounded

USE RxHandlerAssumption

LEMMA InitIInv == Init => IInv
  BY DEF Init, IInv, TypeOK, CountKept, OneQuestion, AnswerHolds, CountBounded, Reporting

(* The head of a FIFO has the FIFO's type and so has the rest; a FIFO of   *)
(* one element is empty without it.                                        *)
LEMMA PopType ==
  ASSUME NEW S, NEW q \in Seq(S), q # <<>>
  PROVE  /\ Head(q) \in S /\ Tail(q) \in Seq(S)
         /\ Len(q) \in Nat \ {0} /\ Len(Tail(q)) = Len(q) - 1
         /\ Len(q) = 1 => Tail(q) = <<>>
<1>1. /\ Head(q) \in S /\ Tail(q) \in Seq(S)
      /\ Len(q) \in Nat \ {0} /\ Len(Tail(q)) = Len(q) - 1
  OBVIOUS
<1>2. \A p \in Seq(S) : Len(p) = 0 => p = <<>>
  OBVIOUS
<1> QED BY <1>1, <1>2

LEMMA LastOfTwo == \A m \in Nat, n \in Nat \ {0} : m + n = 1 => n = 1 /\ m = 0
  OBVIOUS

(* consumeFSM counts a packet as forwarded exactly when it is about to     *)
(* report it.                                                              *)
LEMMA ForwardWord ==
  ASSUME FirstWord \/ NextWord
  PROVE  /\ \/ conState' = "DONE"    /\ done' = done + 1
            \/ conState' = "CONSUME" /\ done' = done
         /\ conState \in {"WAIT_PKG", "CONSUME"}
         /\ rxData # <<>> /\ rxData' = Tail(rxData)
         /\ \/ rxMeta > 0 /\ rxMeta' = rxMeta - 1
            \/ rxMeta' = rxMeta
         /\ UNCHANGED <<nnotis, reqVars, readPkg, serving, cntVars>>
<1>1. ASSUME AfterWord(Head(rxData))
      PROVE  \/ conState' = "DONE"    /\ done' = done + 1
             \/ conState' = "CONSUME" /\ done' = done
  BY <1>1, Zenon DEF AfterWord
<1>2. AfterWord(Head(rxData))
  BY Zenon DEF FirstWord, NextWord
<1> QED BY <1>1, <1>2 DEF FirstWord, NextWord

(* REQUEST drops a notification without data, or passes it on as a read    *)
(* request that is to be reported.                                         *)
LEMMA RequestOrDrop ==
  ASSUME TypeOK, RequestPacket
  PROVE  /\ reqState = "REQUEST"
         /\ \/ reqState' = "WAIT_NOTI" /\ asked' = asked
            \/ reqState' = "COUNT" /\ asked' = asked + 1
         /\ noti' \in Seq(Nat) /\ readPkg' \in Seq(Nat)
         /\ UNCHANGED <<nnotis, counter, conState, done, serving, rxMeta, rxData, cntReq,
                        cntRsp, incr, decr, inflightCnt>>
<1>1. Head(noti) \in Nat /\ Tail(noti) \in Seq(Nat)
  BY PopType DEF TypeOK, RequestPacket
<1>2. \A n \in Nat : Append(readPkg, n) \in Seq(Nat)
  BY DEF TypeOK
<1>3. readPkg' = readPkg \/ readPkg' = Append(readPkg, Head(noti))
  BY Zenon DEF RequestPacket
<1>4. noti' \in Seq(Nat) /\ readPkg' \in Seq(Nat)
  BY <1>1, <1>2, <1>3 DEF TypeOK, RequestPacket
<1>5. \/ reqState' = "WAIT_NOTI" /\ asked' = asked
      \/ reqState' = "COUNT" /\ asked' = asked + 1
  BY Zenon DEF RequestPacket
<1> QED BY <1>4, <1>5 DEF RequestPacket, conVars, cntVars

LEMMA TypeStep == TypeOK /\ [Next]_vars => TypeOK'
<1> SUFFICES ASSUME TypeOK, [Next]_vars PROVE TypeOK'
  OBVIOUS
<1> USE DEF TypeOK, reqVars, conVars, stackVars, cntVars
<1>1. CASE CountOut
  BY <1>1 DEF CountOut
<1>2. CASE CountIn
  BY <1>2 DEF CountIn
<1>3. CASE AnswerCount
  BY <1>3 DEF AnswerCount
<1>4. CASE AskCount
  BY <1>4 DEF AskCount
<1>5. CASE CheckInFlight
  BY <1>5 DEF CheckInFlight
<1>6. CASE BackOffRound
  BY <1>6 DEF BackOffRound
<1>7. CASE RequestPacket
  <2>1. /\ noti' \in Seq(Nat) /\ readPkg' \in Seq(Nat) /\ asked' \in Nat
        /\ reqState' \in {"WAIT_NOTI", "COUNT"}
        /\ UNCHANGED <<nnotis, counter, conState, done, serving, rxMeta, rxData, cntReq,
                       cntRsp, incr, decr, inflightCnt>>
    BY <1>7, RequestOrDrop
  <2> QED BY <2>1
<1>8. CASE ReportRequest
  BY <1>8 DEF ReportRequest
<1>9. CASE FirstWord \/ NextWord
  <2>a. /\ \/ conState' = "DONE"    /\ done' = done + 1
           \/ conState' = "CONSUME" /\ done' = done
        /\ rxData # <<>> /\ rxData' = Tail(rxData)
        /\ \/ rxMeta > 0 /\ rxMeta' = rxMeta - 1
           \/ rxMeta' = rxMeta
    BY <1>9, ForwardWord, Zenon
  <2>1. rxData' \in Seq({0, 1})
    BY <2>a, PopType
  <2>2. conState' \in {"CONSUME", "DONE"} /\ done' \in Nat /\ rxMeta' \in Nat
    BY <2>a
  <2>3. UNCHANGED <<nnotis, noti, reqState, counter, asked, readPkg, serving, cntReq,
                    cntRsp, incr, decr, inflightCnt>>
    BY <1>9, ForwardWord
  <2> QED BY <2>1, <2>2, <2>3
<1>10. CASE ReportDone
  BY <1>10 DEF ReportDone
<1>11. ASSUME NEW len \in Lengths, Notify(len) PROVE TypeOK'
  BY <1>11 DEF Notify
<1>12. CASE ServeMeta
  BY <1>12 DEF ServeMeta
<1>13. CASE ServeWord
  BY <1>13 DEF ServeWord
<1>14. CASE UNCHANGED vars
  BY <1>14 DEF vars
<1> QED BY <1>1, <1>2, <1>3, <1>4, <1>5, <1>6, <1>7, <1>8, <1>9, <1>10, <1>11,
           <1>12, <1>13, <1>14 DEF Next, InflightReadHandler, RequestFSM, ConsumeFSM

LEMMA CountStep == IInv /\ [Next]_vars => CountKept' /\ CountBounded'
<1> SUFFICES ASSUME IInv, [Next]_vars PROVE CountKept' /\ CountBounded'
  OBVIOUS
<1>a. /\ inflightCnt \in Nat /\ incr \in Nat /\ decr \in Nat /\ asked \in Nat
      /\ done \in Nat /\ Limit \in Nat
  BY DEF IInv, TypeOK
<1>b. /\ CountKept /\ CountBounded /\ TypeOK
      /\ reqState = "REQUEST" => incr = 0 /\ inflightCnt < Limit
  BY DEF IInv, AnswerHolds
<1> USE <1>a, <1>b DEF CountKept, CountBounded, Reporting, reqVars, conVars, stackVars,
                      cntVars
<1>1. CASE CountOut
  BY <1>1 DEF CountOut
<1>2. CASE CountIn
  BY <1>2 DEF CountIn
<1>3. CASE AnswerCount
  BY <1>3 DEF AnswerCount
<1>4. CASE AskCount
  BY <1>4 DEF AskCount
<1>5. CASE CheckInFlight
  BY <1>5 DEF CheckInFlight
<1>6. CASE BackOffRound
  BY <1>6 DEF BackOffRound
<1>7. CASE RequestPacket
  <2>1. /\ reqState = "REQUEST"
        /\ \/ reqState' = "WAIT_NOTI" /\ asked' = asked
           \/ reqState' = "COUNT" /\ asked' = asked + 1
        /\ UNCHANGED <<conState, done, incr, decr, inflightCnt>>
    BY <1>7, RequestOrDrop
  <2> QED BY <2>1
<1>8. CASE ReportRequest
  BY <1>8 DEF ReportRequest
<1>9. CASE FirstWord \/ NextWord
  <2>1. /\ conState # "DONE"
        /\ \/ conState' = "DONE"    /\ done' = done + 1
           \/ conState' = "CONSUME" /\ done' = done
    BY <1>9, ForwardWord
  <2>2. UNCHANGED <<asked, reqState, incr, decr, inflightCnt>>
    BY <1>9, ForwardWord
  <2> QED BY <2>1, <2>2
<1>10. CASE ReportDone
  BY <1>10 DEF ReportDone
<1>11. ASSUME NEW len \in Lengths, Notify(len) PROVE CountKept' /\ CountBounded'
  BY <1>11 DEF Notify
<1>12. CASE ServeMeta \/ ServeWord
  BY <1>12 DEF ServeMeta, ServeWord
<1>13. CASE UNCHANGED vars
  BY <1>13 DEF vars
<1> QED BY <1>1, <1>2, <1>3, <1>4, <1>5, <1>6, <1>7, <1>8, <1>9, <1>10, <1>11,
           <1>12, <1>13 DEF Next, InflightReadHandler, RequestFSM, ConsumeFSM

LEMMA AnswerStep == IInv /\ [Next]_vars => OneQuestion' /\ AnswerHolds'
<1> SUFFICES ASSUME IInv, [Next]_vars PROVE OneQuestion' /\ AnswerHolds'
  OBVIOUS
<1> USE DEF IInv, TypeOK, OneQuestion, AnswerHolds, reqVars, conVars, stackVars, cntVars
<1>1. CASE CountOut
  BY <1>1 DEF CountOut
<1>2. CASE CountIn
  BY <1>2 DEF CountIn
<1>3. CASE AnswerCount
  <2>1. cntRsp = <<>> /\ reqState = "CHECK_IN_FLIGHT" /\ cntReq = 1
    BY <1>3 DEF AnswerCount
  <2>2. cntRsp' = <<inflightCnt>>
    BY <1>3, <2>1 DEF AnswerCount
  <2> QED BY <1>3, <2>1, <2>2 DEF AnswerCount
<1>4. CASE AskCount
  BY <1>4 DEF AskCount
<1>5. CASE CheckInFlight
  <2>1. Len(cntRsp) = 1 /\ cntReq = 0 /\ cntRsp' = <<>>
    <3>1. cntRsp \in Seq(Nat) /\ cntRsp # <<>> /\ cntRsp' = Tail(cntRsp)
      BY <1>5 DEF CheckInFlight
    <3>2. cntReq + Len(cntRsp) = 1
      BY <1>5 DEF CheckInFlight
    <3>3. /\ Len(cntRsp) \in Nat \ {0} /\ cntReq \in Nat
          /\ Len(cntRsp) = 1 => Tail(cntRsp) = <<>>
      BY <3>1, PopType
    <3>4. Len(cntRsp) = 1 /\ cntReq = 0
      BY <3>2, <3>3, LastOfTwo
    <3> QED BY <3>1, <3>3, <3>4
  <2>2. /\ reqState' \in {"REQUEST", "BACK_OFF"} /\ UNCHANGED <<cntReq, incr, inflightCnt>>
        /\ reqState' = "REQUEST" => Head(cntRsp) < Limit
    BY <1>5 DEF CheckInFlight
  <2>3. cntRsp # <<>> /\ incr = 0 /\ inflightCnt <= Head(cntRsp) /\ Head(cntRsp) \in Nat
    BY <1>5, PopType DEF CheckInFlight
  <2>4. OneQuestion'
    BY <2>1, <2>2
  <2>5. AnswerHolds'
    BY <2>1, <2>2, <2>3
  <2> QED BY <2>4, <2>5
<1>6. CASE BackOffRound
  BY <1>6 DEF BackOffRound
<1>7. CASE RequestPacket
  <2>1. Head(noti) \in Nat /\ Tail(noti) \in Seq(Nat)
    BY <1>7, PopType DEF RequestPacket
  <2>2. CASE Head(noti) = 0
    BY <1>7, <2>1, <2>2 DEF RequestPacket
  <2>3. CASE Head(noti) # 0
    BY <1>7, <2>1, <2>3 DEF RequestPacket
  <2> QED BY <2>2, <2>3
<1>8. CASE ReportRequest
  BY <1>8 DEF ReportRequest
<1>9. CASE FirstWord \/ NextWord
  BY <1>9, ForwardWord
<1>10. CASE ReportDone
  BY <1>10 DEF ReportDone
<1>11. ASSUME NEW len \in Lengths, Notify(len) PROVE OneQuestion' /\ AnswerHolds'
  BY <1>11 DEF Notify
<1>12. CASE ServeMeta \/ ServeWord
  BY <1>12 DEF ServeMeta, ServeWord
<1>13. CASE UNCHANGED vars
  BY <1>13 DEF vars
<1> QED BY <1>1, <1>2, <1>3, <1>4, <1>5, <1>6, <1>7, <1>8, <1>9, <1>10, <1>11, <1>12,
           <1>13 DEF Next, InflightReadHandler, RequestFSM, ConsumeFSM

(* The counting of the three processes stays consistent, whatever the      *)
(* order in which they and the stack take their steps.                     *)
THEOREM RateControlInvariance == Spec => []IInv
<1>1. IInv /\ [Next]_vars => IInv'
  BY TypeStep, CountStep, AnswerStep DEF IInv
<1> QED BY <1>1, InitIInv, PTL DEF Spec

(* Every variable keeps its type, the FIFOs' contents included: see TypeOK. *)
THEOREM TypeCorrect == Spec => []TypeOK
<1>1. IInv => TypeOK
  BY DEF IInv
<1> QED BY <1>1, RateControlInvariance, PTL

(* tcp_rxHandler never has more packets requested and not forwarded than   *)
(* its limit.                                                              *)
THEOREM RateLimited == Spec => []WithinLimit
<1>1. IInv => WithinLimit
  BY DEF IInv, TypeOK, CountKept, CountBounded, Reporting, WithinLimit
<1> QED BY <1>1, RateControlInvariance, PTL

(* The count of inflightReadHandler and the reports under way account for  *)
(* every packet in flight.                                                 *)
THEOREM CountAccurate == Spec => []CountKept
<1>1. IInv => CountKept
  BY DEF IInv
<1> QED BY <1>1, RateControlInvariance, PTL

=============================================================================
