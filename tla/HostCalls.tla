------------------------------ MODULE HostCalls ------------------------------
(***************************************************************************)
(* The host's side of a CCLO: hostctrl turns a call into words on a stream *)
(* and waits for one status word; main reads the words, carries the call   *)
(* out and puts the status. An error found by the interrupt handler leaves *)
(* whatever main was doing by longjmp and puts a status, too.              *)
(*                                                                         *)
(* Of the calls, those that open TCP ports and connections are modelled in *)
(* detail, with the three kernels between the firmware and the TCP stack;  *)
(* the soft reset, the interrupt enable and the communicator as far as     *)
(* they concern these; sends, receives and collectives as one call "work". *)
(* Streams carry words and nothing else, so a reader that starts in the    *)
(* middle of somebody's words does not notice.                             *)
(***************************************************************************)
EXTENDS Naturals, Sequences, FiniteSets

CONSTANTS
  NWords,     \* words of a command, 15
  CmdDepth,   \* words between hostctrl and main
  StsDepth,   \* status words between main and hostctrl
  Ranks,      \* ranks of the communicator
  Local,      \* local_rank
  Addr,       \* [ip, port] of each rank
  ConDepth,   \* words in the FIFO of connection requests
  RespDepth,  \* words in the FIFO of their answers
  Kinds,      \* calls the host may make
  MaxCalls,   \* bound on the number of calls
  MaxErrors   \* bound on the number of errors found by the handler

ASSUME HostAssumption ==
  /\ NWords \in Nat \ {0} /\ CmdDepth \in Nat \ {0} /\ StsDepth \in Nat \ {0}
  /\ Ranks \subseteq Nat /\ IsFiniteSet(Ranks) /\ Local \in Ranks
  /\ Addr \in [Ranks -> [ip : Nat \ {0}, port : Nat \ {0}]]
  /\ \A r, q \in Ranks : Addr[r] = Addr[q] => r = q
  /\ ConDepth \in Nat \ {0, 1} /\ RespDepth \in Nat \ {0}
  /\ Kinds \subseteq {"work", "irq_on", "irq_off", "reset", "open_port",
                      "open_con", "init_connection"}
  /\ MaxCalls \in Nat /\ MaxErrors \in Nat

VARIABLES
  \* the host and hostctrl
  asked,       \* the calls made so far
  hpc,         \* "idle", "writing" or "waiting"
  hword,       \* words written of the call
  answer,      \* the status each call was given, in order
  cmd, sts,    \* the streams between hostctrl and main
  \* main
  pc,          \* what main is doing
  frame,       \* words read of the command
  op,          \* the call being carried out: [call, kind]
  ret,         \* retval
  given,       \* history: [call, ret] of each call carried out
  ie,          \* the processor takes interrupts
  \* openCon and openPort
  toAsk,       \* ranks still to be asked for
  toCome,      \* answers still to come
  resp,        \* words read of the current answer
  portRet,     \* what openPort returned, within init_connection
  session,     \* session of each rank in the communicator, or 0
  configured,  \* the driver has written the communicator
  \* the kernels and the stack
  conQ,        \* FIFO of connection requests
  asking,      \* requests the stack has not answered
  answering,   \* words tcp_openConResp has still to write
  conSts,      \* FIFO of answers, word by word
  portQ, portSts,  \* FIFOs to and from tcp_openPort
  listen,      \* state of tcp_openPort
  opened,      \* last session the stack opened to each rank, or 0
  nsession,    \* number of sessions opened so far
  \* history
  errors,      \* errors found by the handler so far
  stray,       \* one of them was found while no call was carried out
  cutOff       \* one of them cut openCon or openPort off

hostVars == <<asked, hpc, hword, answer>>
callVars == <<pc, frame, op, ret, given, ie>>
conVars  == <<toAsk, toCome, resp, portRet, session, configured>>
netVars  == <<conQ, asking, answering, conSts, portQ, portSts, listen, opened, nsession>>
histVars == <<errors, stray, cutOff>>
vars == <<hostVars, cmd, sts, callVars, conVars, netVars, histVars>>

NoOp == [call |-> 0, kind |-> "none"]
NoSessions == [r \in Ranks |-> 0]

Success == 0
HandlerError == 1
OPEN_PORT_NOT_SUCCEEDED == 17
OPEN_COM_NOT_SUCCEEDED == 18

(* The host starts after init; the processor takes interrupts from then.   *)
HostInit ==
  /\ asked = <<>> /\ hpc = "idle" /\ hword = 0 /\ answer = <<>>
  /\ cmd = <<>> /\ sts = <<>>
  /\ pc = "poll" /\ frame = <<>> /\ op = NoOp /\ ret = Success
  /\ given = {} /\ ie = TRUE
  /\ toAsk = {} /\ toCome = 0 /\ resp = <<>> /\ portRet = Success
  /\ session = NoSessions /\ configured = FALSE
  /\ conQ = <<>> /\ asking = {} /\ answering = <<>> /\ conSts = <<>>
  /\ portQ = <<>> /\ portSts = <<>> /\ listen = "open_port"
  /\ opened = NoSessions /\ nsession = 0
  /\ errors = 0 /\ stray = FALSE /\ cutOff = FALSE

-----------------------------------------------------------------------------
(* The driver and hostctrl                                                 *)

(* configure_communicator writes the communicator to the exchange memory.  *)
Configure ==
  /\ hpc = "idle" /\ ~ configured
  /\ configured' = TRUE /\ session' = NoSessions
  /\ UNCHANGED <<hostVars, cmd, sts, callVars, toAsk, toCome, resp, portRet, netVars,
                 histVars>>

(* The driver opens nothing before the communicator is there.              *)
HostCall(k) ==
  /\ hpc = "idle" /\ Len(asked) < MaxCalls
  /\ k \in {"open_port", "open_con", "init_connection"} => configured
  /\ asked' = Append(asked, k)
  /\ hpc' = "writing" /\ hword' = 0
  /\ UNCHANGED <<answer, cmd, sts, callVars, conVars, netVars, histVars>>

(* cmd.write: the words of a call, the scenario first.                     *)
WriteWord ==
  /\ hpc = "writing" /\ Len(cmd) < CmdDepth
  /\ cmd' = Append(cmd, [call |-> Len(asked), word |-> hword + 1])
  /\ hword' = hword + 1
  /\ hpc' = IF hword + 1 = NWords THEN "waiting" ELSE "writing"
  /\ UNCHANGED <<asked, answer, sts, callVars, conVars, netVars, histVars>>

(* sts.read: whatever comes is this call's answer.                         *)
ReadStatus ==
  /\ hpc = "waiting" /\ sts # <<>>
  /\ answer' = Append(answer, Head(sts))
  /\ sts' = Tail(sts)
  /\ hpc' = "idle"
  /\ UNCHANGED <<asked, hword, cmd, callVars, conVars, netVars, histVars>>

-----------------------------------------------------------------------------
(* main                                                                    *)

WaitForCall ==
  /\ pc = "poll" /\ cmd # <<>>
  /\ pc' = "read" /\ frame' = <<>>
  /\ UNCHANGED <<hostVars, cmd, sts, op, ret, given, ie, conVars, netVars, histVars>>

(* Mutant of AllRead: one parameter of hostctrl is not read.               *)
AllButOneRead == Len(frame) = NWords - 1

AllRead == Len(frame) = NWords

(* getd(CMD_HOST), once per parameter.                                     *)
ReadWord ==
  /\ pc = "read" /\ ~ AllRead /\ cmd # <<>>
  /\ frame' = Append(frame, Head(cmd))
  /\ cmd' = Tail(cmd)
  /\ UNCHANGED <<hostVars, sts, pc, op, ret, given, ie, conVars, netVars, histVars>>

(* What the words ask for; those of two calls may ask for anything.        *)
Means(k) == frame[1].word = 1 => k = asked[frame[1].call]

Others == Ranks \ {Local}

Dispatch(k) ==
  /\ pc = "read" /\ AllRead
  /\ Means(k)
  /\ op' = [call |-> frame[1].call, kind |-> k]
  /\ ret' = Success
  /\ pc' = CASE k \in {"work", "irq_on", "irq_off", "reset"} -> "run"
             [] k \in {"open_port", "init_connection"}       -> "port_ask"
             [] k = "open_con"                               -> "con_ask"
  /\ toAsk' = Others
  /\ UNCHANGED <<hostVars, cmd, sts, frame, given, ie, toCome, resp, portRet, session,
                 configured, netVars, histVars>>

(* A send, receive, copy or collective ends, with an error or not; waiting *)
(* for segments it may have enabled the interrupts.                        *)
Work(r) ==
  /\ pc = "run" /\ op.kind = "work"
  /\ ret' = r /\ pc' = "finalize"
  /\ ie' \in {ie, TRUE}
  /\ UNCHANGED <<hostVars, cmd, sts, frame, op, given, conVars, netVars, histVars>>

SetIrq ==
  /\ pc = "run" /\ op.kind \in {"irq_on", "irq_off"}
  /\ ie' = (op.kind = "irq_on")
  /\ pc' = "finalize"
  /\ UNCHANGED <<hostVars, cmd, sts, frame, op, ret, given, conVars, netVars, histVars>>

(* encore_soft_reset: interrupts off, the peripherals and their FIFOs      *)
(* reset, the exchange memory cleared with the communicator in it. The     *)
(* state of tcp_openConResp has no reset; hostctrl is not reset.           *)
SoftReset ==
  /\ pc = "run" /\ op.kind = "reset"
  /\ ie' = FALSE
  /\ pc' = "finalize"
  /\ configured' = FALSE /\ session' = NoSessions
  /\ conQ' = <<>> /\ conSts' = <<>> /\ portQ' = <<>> /\ portSts' = <<>>
  /\ listen' = "open_port"
  /\ UNCHANGED <<hostVars, cmd, sts, frame, op, ret, given, toAsk, toCome, resp,
                 portRet, asking, answering, opened, nsession, histVars>>

(* finalize_call: putd(STS_HOST, retval) waits for room.                   *)
Finalize ==
  /\ pc = "finalize" /\ Len(sts) < StsDepth
  /\ sts' = Append(sts, ret)
  /\ given' = IF op = NoOp THEN given ELSE given \cup {[call |-> op.call, ret |-> ret]}
  /\ pc' = "poll" /\ frame' = <<>> /\ op' = NoOp
  /\ UNCHANGED <<hostVars, cmd, ret, ie, conVars, netVars, histVars>>

(* The handler finds an error: longjmp back to main, which finalizes a     *)
(* call with it whether or not there is one. The interrupt has cleared ie. *)
HandlerRaises ==
  /\ ie /\ errors < MaxErrors
  /\ errors' = errors + 1
  /\ ie' = FALSE
  /\ pc' = "finalize" /\ ret' = HandlerError
  /\ stray' = (stray \/ pc \in {"poll", "read"})
  /\ cutOff' = (cutOff \/ pc \in {"port_wait", "con_ask", "con_resp"})
  /\ UNCHANGED <<hostVars, cmd, sts, frame, op, given, conVars, netVars>>

-----------------------------------------------------------------------------
(* openPort, openCon and init_connection                                   *)

AskPort ==
  /\ pc = "port_ask"
  /\ portQ' = Append(portQ, Addr[Local].port)
  /\ pc' = "port_wait"
  /\ UNCHANGED <<hostVars, cmd, sts, frame, op, ret, given, ie, conVars, conQ, asking,
                 answering, conSts, portSts, listen, opened, nsession, histVars>>

(* init_connection goes on with openCon in any case.                       *)
PortOpened ==
  /\ pc = "port_wait" /\ portSts # <<>>
  /\ LET code == IF Head(portSts) # 0 THEN Success ELSE OPEN_PORT_NOT_SUCCEEDED
     IN IF op.kind = "init_connection"
        THEN portRet' = code /\ pc' = "con_ask" /\ UNCHANGED ret
        ELSE ret' = code /\ pc' = "finalize" /\ UNCHANGED portRet
  /\ portSts' = Tail(portSts)
  /\ UNCHANGED <<hostVars, cmd, sts, frame, op, given, ie, toAsk, toCome, resp, session,
                 configured, conQ, asking, answering, conSts, portQ, listen, opened,
                 nsession, histVars>>

(* Both words of a request; ranks are asked for in order.                  *)
AskConnection(r) ==
  /\ pc = "con_ask" /\ r \in toAsk
  /\ \A q \in toAsk : r <= q
  /\ Len(conQ) + 2 <= ConDepth
  /\ conQ' = conQ \o <<Addr[r].ip, Addr[r].port>>
  /\ toAsk' = toAsk \ {r}
  /\ UNCHANGED <<hostVars, cmd, sts, callVars, toCome, resp, portRet, session, configured,
                 asking, answering, conSts, portQ, portSts, listen, opened, nsession,
                 histVars>>

(* Mutant of AwaitAnswers: one answer for each rank.                       *)
AwaitAnswersOfAll ==
  /\ pc = "con_ask" /\ toAsk = {}
  /\ pc' = "con_resp" /\ toCome' = Cardinality(Ranks) /\ resp' = <<>>
  /\ UNCHANGED <<hostVars, cmd, sts, frame, op, ret, given, ie, toAsk, portRet, session,
                 configured, netVars, histVars>>

AwaitAnswers ==
  /\ pc = "con_ask" /\ toAsk = {}
  /\ pc' = "con_resp" /\ toCome' = Cardinality(Ranks) - 1 /\ resp' = <<>>
  /\ UNCHANGED <<hostVars, cmd, sts, frame, op, ret, given, ie, toAsk, portRet, session,
                 configured, netVars, histVars>>

ReadAnswer ==
  /\ pc = "con_resp" /\ toCome > 0 /\ Len(resp) < 4 /\ conSts # <<>>
  /\ resp' = Append(resp, Head(conSts))
  /\ conSts' = Tail(conSts)
  /\ UNCHANGED <<hostVars, cmd, sts, callVars, toAsk, toCome, portRet, session, configured,
                 conQ, asking, answering, portQ, portSts, listen, opened, nsession,
                 histVars>>

(* Mutant of IsOf: ranks are told apart by their ip alone.                 *)
IsOfHost(ip, port, r) == Addr[r].ip = ip

IsOf(ip, port, r) == Addr[r].ip = ip /\ Addr[r].port = port

(* The session goes to the first rank with the answer's address.           *)
Stored(s, ip, port) ==
  [r \in Ranks |->
     IF IsOf(ip, port, r) /\ \A q \in Ranks : IsOf(ip, port, q) => r <= q
     THEN s ELSE session[r]]

(* Mutant of TakeAnswer: openCon returns at the first refusal.             *)
TakeAnswerOrGiveUp ==
  /\ pc = "con_resp" /\ Len(resp) = 4
  /\ \/ /\ resp[4] # 0
        /\ session' = Stored(resp[1], resp[2], resp[3])
        /\ toCome' = toCome - 1
        /\ UNCHANGED ret
     \/ /\ resp[4] = 0
        /\ ret' = OPEN_COM_NOT_SUCCEEDED
        /\ toCome' = 0
        /\ UNCHANGED session
  /\ resp' = <<>>
  /\ UNCHANGED <<hostVars, cmd, sts, pc, frame, op, given, ie, toAsk, portRet,
                 configured, netVars, histVars>>

(* An answer is complete: session, ip, port, success. A refusal is kept in *)
(* mind while the other answers are awaited.                               *)
TakeAnswer ==
  /\ pc = "con_resp" /\ Len(resp) = 4
  /\ \/ /\ resp[4] # 0
        /\ session' = Stored(resp[1], resp[2], resp[3])
        /\ UNCHANGED ret
     \/ /\ resp[4] = 0
        /\ ret' = OPEN_COM_NOT_SUCCEEDED
        /\ UNCHANGED session
  /\ toCome' = toCome - 1
  /\ resp' = <<>>
  /\ UNCHANGED <<hostVars, cmd, sts, pc, frame, op, given, ie, toAsk, portRet,
                 configured, netVars, histVars>>

(* ret_openPort | ret_openCon: 17 | 18 is 19, DMA_SIZE_ERROR.              *)
Or(port, con) == IF port # 0 /\ con # 0 THEN 19 ELSE port + con

ConnectionsOpened ==
  /\ pc = "con_resp" /\ toCome = 0
  /\ ret' = IF op.kind = "init_connection" THEN Or(portRet, ret) ELSE ret
  /\ pc' = "finalize"
  /\ UNCHANGED <<hostVars, cmd, sts, frame, op, given, ie, conVars, netVars, histVars>>

-----------------------------------------------------------------------------
(* The kernels and the TCP stack                                           *)

(* tcp_openConReq: two words make a request.                               *)
RequestConnection ==
  /\ Len(conQ) >= 2
  /\ asking' = asking \cup {[ip |-> conQ[1], port |-> conQ[2], nth |-> nsession]}
  /\ conQ' = SubSeq(conQ, 3, Len(conQ))
  /\ nsession' = nsession + 1
  /\ UNCHANGED <<hostVars, cmd, sts, callVars, conVars, answering, conSts, portQ,
                 portSts, listen, opened, histVars>>

(* The stack answers its requests in any order; tcp_openConResp takes an   *)
(* answer apart.                                                           *)
StackAnswers(q, success) ==
  /\ q \in asking /\ answering = <<>>
  /\ asking' = asking \ {q}
  /\ answering' = <<q.nth + 1, q.ip, q.port, IF success THEN 1 ELSE 0>>
  /\ opened' = [r \in Ranks |-> IF success /\ Addr[r] = [ip |-> q.ip, port |-> q.port]
                                THEN q.nth + 1 ELSE opened[r]]
  /\ UNCHANGED <<hostVars, cmd, sts, callVars, conVars, conQ, conSts, portQ, portSts,
                 listen, nsession, histVars>>

WriteAnswer ==
  /\ answering # <<>> /\ Len(conSts) < RespDepth
  /\ conSts' = Append(conSts, Head(answering))
  /\ answering' = Tail(answering)
  /\ UNCHANGED <<hostVars, cmd, sts, callVars, conVars, conQ, asking, portQ, portSts,
                 listen, opened, nsession, histVars>>

(* tcp_openPort: OPEN_PORT, WAIT_PORT_STATUS, WR_STS.                      *)
RequestPort ==
  /\ listen = "open_port" /\ portQ # <<>>
  /\ portQ' = Tail(portQ) /\ listen' = "wait"
  /\ UNCHANGED <<hostVars, cmd, sts, callVars, conVars, conQ, asking, answering, conSts,
                 portSts, opened, nsession, histVars>>

PortStatus(success) ==
  /\ listen = "wait"
  /\ listen' = IF success THEN "opened" ELSE "refused"
  /\ UNCHANGED <<hostVars, cmd, sts, callVars, conVars, conQ, asking, answering, conSts,
                 portQ, portSts, opened, nsession, histVars>>

WritePortStatus ==
  /\ listen \in {"opened", "refused"}
  /\ portSts' = Append(portSts, IF listen = "opened" THEN 1 ELSE 0)
  /\ listen' = "open_port"
  /\ UNCHANGED <<hostVars, cmd, sts, callVars, conVars, conQ, asking, answering, conSts,
                 portQ, opened, nsession, histVars>>

-----------------------------------------------------------------------------

Hostctrl == WriteWord \/ ReadStatus

Opening ==
  \/ AskPort \/ PortOpened
  \/ \E r \in Ranks : AskConnection(r)
  \/ AwaitAnswers \/ ReadAnswer \/ TakeAnswer \/ ConnectionsOpened

MainLoop ==
  \/ WaitForCall \/ ReadWord
  \/ \E k \in Kinds : Dispatch(k)
  \/ \E r \in {Success, HandlerError} : Work(r)
  \/ SetIrq \/ SoftReset
  \/ Opening
  \/ Finalize

Answering ==
  \/ \E q \in asking, success \in BOOLEAN : StackAnswers(q, success)
  \/ WriteAnswer

PortKernel == RequestPort \/ WritePortStatus \/ \E s \in BOOLEAN : PortStatus(s)

HostNext ==
  \/ Configure
  \/ \E k \in Kinds : HostCall(k)
  \/ Hostctrl
  \/ MainLoop
  \/ HandlerRaises
  \/ RequestConnection
  \/ Answering
  \/ PortKernel

(* Processor, kernels and stack go on while they can; the host owes no     *)
(* call and the handler no error.                                          *)
HostFairness ==
  /\ WF_vars(Hostctrl) /\ WF_vars(MainLoop)
  /\ WF_vars(RequestConnection) /\ WF_vars(Answering) /\ WF_vars(PortKernel)

HostSpec == HostInit /\ [][HostNext]_vars /\ HostFairness

-----------------------------------------------------------------------------
(* Properties                                                              *)

(* Each call is given the result of its own execution, not one of another  *)
(* call or of the handler: hostctrl and main count calls alike, although   *)
(* nothing on the streams names the call. An error that the handler finds  *)
(* while no call is carried out breaks this for good.                      *)
OwnAnswer ==
  ~ stray => \A n \in DOMAIN answer : [call |-> n, ret |-> answer[n]] \in given

(* Opening connections leaves nothing behind, whether they succeed or not: *)
(* when no call opens any, no request is under way and no word of an       *)
(* answer is left that the next openCon would take for the first of its    *)
(* own. An error of the handler in the middle of openCon breaks this.      *)
ConnectionsSettled ==
  (pc \notin {"port_wait", "con_ask", "con_resp"} /\ ~ cutOff) =>
    /\ conQ = <<>> /\ asking = {} /\ answering = <<>> /\ conSts = <<>>
    /\ portQ = <<>> /\ portSts = <<>> /\ listen = "open_port"

(* Whatever order the stack answers in, a successful openCon leaves each   *)
(* rank the session that the stack opened to that rank's address, and each *)
(* rank of the communicator but the local one has a session. (After a      *)
(* stray status the host runs ahead, and configures while openCon runs.)   *)
SessionsRight ==
  (pc = "finalize" /\ op.kind = "open_con" /\ ret = Success
     /\ ~ cutOff /\ ~ stray) =>
    \A r \in Others : session[r] # 0 /\ session[r] = opened[r]

(* Liveness: a call returns, also when errors of the handler end it or     *)
(* leave words of it behind, as long as there is room for their statuses.  *)
CallsAnswered == (hpc # "idle" /\ ~ stray) ~> (hpc = "idle" \/ stray)

=============================================================================
