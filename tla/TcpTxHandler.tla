---------------------------- MODULE TcpTxHandler ----------------------------
(***************************************************************************)
(* tcp_txHandler: cuts the messages of the packetizer in TCP packets. For  *)
(* each packet it asks the TCP stack for room, and writes the words of the *)
(* packet once the stack has agreed; it asks for the next packet while it  *)
(* writes this one. A request that finds no room is made again; when the   *)
(* connection is gone nothing is.                                          *)
(*                                                                         *)
(* Lengths count bytes, of which a word has WordBytes (64 in the code).    *)
(***************************************************************************)
EXTENDS Integers, Sequences

CONSTANTS
  Messages,   \* what the packetizer sends: a sequence of [session, len]
  WordBytes,  \* bytes of a word
  MaxPkgWord, \* words of a packet at most
  FifoDepth,  \* words between the packetizer and the handler
  MaxRefused, \* bound on the refusals of the stack
  TearsDown   \* TRUE when the stack may report that a connection is gone

ASSUME TxAssumption ==
  /\ WordBytes \in Nat \ {0} /\ MaxPkgWord \in Nat \ {0} /\ FifoDepth \in Nat \ {0}
  /\ MaxRefused \in Nat /\ TearsDown \in BOOLEAN
  /\ Len(Messages) \in Nat /\ DOMAIN Messages = 1 .. Len(Messages)
  /\ \A i \in DOMAIN Messages : Messages[i].len \in Nat \ {0}

VARIABLES
  state,     \* txHandlerState
  cmd,       \* sessionID and expectedTxByteCnt: number of the message
  sentBytes, \* sentByteCnt
  pkgWords,  \* currentPkgWord
  wordCnt,
  fed,       \* words of each message that the packetizer has written
  cmdQ,      \* cmd_txHandler
  dataQ,     \* s_data_in: words [msg, word]
  metaQ,     \* m_axis_tcp_tx_meta: requests [session, len]
  statusQ,   \* s_axis_tcp_tx_status: answers [session, len, error]
  granted,   \* the stack: packets it agreed to and misses words of
  out,       \* what was written to m_axis_tcp_tx_data
  refused,   \* refusals so far
  gone       \* the stack has reported a connection gone

handlerVars == <<state, cmd, sentBytes, pkgWords, wordCnt>>
stackVars   == <<granted, refused, gone>>
vars == <<handlerVars, fed, cmdQ, dataQ, metaQ, statusQ, stackVars, out>>

Words(len) == (len + WordBytes - 1) \div WordBytes
MaxBytes == MaxPkgWord * WordBytes

TxInit ==
  /\ state = "WAIT_CMD" /\ cmd = 0 /\ sentBytes = 0 /\ pkgWords = 0 /\ wordCnt = 0
  /\ fed = [m \in DOMAIN Messages |-> 0]
  /\ cmdQ = <<>> /\ dataQ = <<>> /\ metaQ = <<>> /\ statusQ = <<>>
  /\ granted = <<>> /\ out = <<>> /\ refused = 0 /\ gone = FALSE

Session == Messages[cmd].session
Expected == Messages[cmd].len

WaitCmd ==
  /\ state = "WAIT_CMD" /\ cmdQ # <<>>
  /\ cmd' = Head(cmdQ) /\ cmdQ' = Tail(cmdQ)
  /\ state' = "WAIT_FIRST_DATA"
  /\ UNCHANGED <<sentBytes, pkgWords, wordCnt, fed, dataQ, metaQ, statusQ, stackVars, out>>

(* The first word is there (it is not read): ask for the first packet.     *)
WaitFirstData ==
  /\ state = "WAIT_FIRST_DATA" /\ dataQ # <<>>
  /\ metaQ' = Append(metaQ, [session |-> Session,
                             len |-> IF MaxBytes > Expected THEN Expected ELSE MaxBytes])
  /\ state' = "CHECK_REQ"
  /\ UNCHANGED <<cmd, sentBytes, pkgWords, wordCnt, fed, cmdQ, dataQ, statusQ, stackVars, out>>

Answer == Head(statusQ)

(* Mutant of NextLen: the next packet is always a full one.                *)
NextLenFull(sent) == MaxBytes

NextLen(sent) ==
  IF sent + MaxBytes < Expected THEN MaxBytes ELSE Expected - sent

(* The stack has agreed: ask for the next packet, if there is one.         *)
Accepted ==
  /\ state = "CHECK_REQ" /\ statusQ # <<>> /\ Answer.error = 0
  /\ pkgWords' = Words(Answer.len)
  /\ sentBytes' = sentBytes + Answer.len
  /\ metaQ' = IF sentBytes' < Expected
              THEN Append(metaQ, [session |-> Answer.session, len |-> NextLen(sentBytes')])
              ELSE metaQ
  /\ statusQ' = Tail(statusQ)
  /\ state' = "WRITE_PKG"
  /\ UNCHANGED <<cmd, wordCnt, fed, cmdQ, dataQ, stackVars, out>>

(* Mutant of Refused: the packet is taken for sent.                        *)
RefusedSkips ==
  /\ state = "CHECK_REQ" /\ statusQ # <<>> /\ Answer.error > 1
  /\ pkgWords' = Words(Answer.len)
  /\ statusQ' = Tail(statusQ)
  /\ state' = "WRITE_PKG"
  /\ UNCHANGED <<cmd, sentBytes, wordCnt, fed, cmdQ, dataQ, metaQ, stackVars, out>>

(* No room: the same request again.                                        *)
Refused ==
  /\ state = "CHECK_REQ" /\ statusQ # <<>> /\ Answer.error > 1
  /\ pkgWords' = Words(Answer.len)
  /\ metaQ' = Append(metaQ, [session |-> Answer.session, len |-> Answer.len])
  /\ statusQ' = Tail(statusQ)
  /\ UNCHANGED <<state, cmd, sentBytes, wordCnt, fed, cmdQ, dataQ, stackVars, out>>

(* The connection was torn down: the handler stays where it is.            *)
TornDown ==
  /\ state = "CHECK_REQ" /\ statusQ # <<>> /\ Answer.error = 1
  /\ pkgWords' = Words(Answer.len)
  /\ statusQ' = Tail(statusQ)
  /\ UNCHANGED <<state, cmd, sentBytes, wordCnt, fed, cmdQ, dataQ, metaQ, stackVars, out>>

(* Mutant of AfterPacket: the counts of the message are kept.              *)
AfterPacketKept ==
  /\ wordCnt' = 0
  /\ state' = IF sentBytes >= Expected THEN "WAIT_CMD" ELSE "CHECK_REQ"
  /\ UNCHANGED <<sentBytes, pkgWords>>

AfterPacket ==
  /\ wordCnt' = 0
  /\ IF sentBytes >= Expected
     THEN state' = "WAIT_CMD" /\ sentBytes' = 0 /\ pkgWords' = 0
     ELSE state' = "CHECK_REQ" /\ UNCHANGED <<sentBytes, pkgWords>>

(* A word goes to the stack, marked when it is the packet's last.          *)
WritePkg ==
  /\ state = "WRITE_PKG" /\ dataQ # <<>>
  /\ out' = Append(out, [msg |-> Head(dataQ).msg, word |-> Head(dataQ).word,
                         last |-> wordCnt + 1 = pkgWords])
  /\ dataQ' = Tail(dataQ)
  /\ granted' = IF granted = <<>> THEN granted
                ELSE IF granted[1].words = 1 THEN Tail(granted)
                     ELSE [granted EXCEPT ![1].words = @ - 1]
  /\ IF wordCnt + 1 = pkgWords THEN AfterPacket
     ELSE wordCnt' = wordCnt + 1 /\ UNCHANGED <<state, sentBytes, pkgWords>>
  /\ UNCHANGED <<cmd, fed, cmdQ, metaQ, statusQ, refused, gone>>

-----------------------------------------------------------------------------

(* The packetizer: a command before the words of each message, in order.   *)
PktCmd(m) ==
  /\ fed[m] = 0 /\ \A p \in 1 .. m - 1 : fed[p] = Words(Messages[p].len) + 1
  /\ cmdQ' = Append(cmdQ, m)
  /\ fed' = [fed EXCEPT ![m] = 1]
  /\ UNCHANGED <<handlerVars, dataQ, metaQ, statusQ, stackVars, out>>

PktWord(m) ==
  /\ fed[m] \in 1 .. Words(Messages[m].len) /\ Len(dataQ) < FifoDepth
  /\ dataQ' = Append(dataQ, [msg |-> m, word |-> fed[m]])
  /\ fed' = [fed EXCEPT ![m] = @ + 1]
  /\ UNCHANGED <<handlerVars, cmdQ, metaQ, statusQ, stackVars, out>>

(* The TCP stack answers a request, as soon as it gets it or later.        *)
StackAnswers(error) ==
  /\ metaQ # <<>>
  /\ statusQ' = Append(statusQ, [session |-> Head(metaQ).session,
                                 len |-> Head(metaQ).len, error |-> error])
  /\ metaQ' = Tail(metaQ)
  /\ granted' = IF error = 0
                THEN Append(granted, [session |-> Head(metaQ).session,
                                      words |-> Words(Head(metaQ).len)])
                ELSE granted
  /\ refused' = IF error > 1 THEN refused + 1 ELSE refused
  /\ gone' = (gone \/ error = 1)
  /\ UNCHANGED <<handlerVars, fed, cmdQ, dataQ, out>>

Accept == StackAnswers(0)
Refuse == refused < MaxRefused /\ StackAnswers(2)
LoseConnection == TearsDown /\ ~gone /\ StackAnswers(1)

Handler == WaitCmd \/ WaitFirstData \/ Accepted \/ Refused \/ TornDown \/ WritePkg

TxNext ==
  \/ WaitCmd \/ WaitFirstData \/ Accepted \/ Refused \/ TornDown \/ WritePkg
  \/ \E m \in DOMAIN Messages : PktCmd(m) \/ PktWord(m)
  \/ Accept \/ Refuse \/ LoseConnection

(* The pipeline runs on; the stack answers, and its buffers empty.         *)
TxFairness ==
  /\ WF_vars(Handler) /\ WF_vars(Accept)
  /\ \A m \in DOMAIN Messages : WF_vars(PktCmd(m)) /\ WF_vars(PktWord(m))

TxSpec == TxInit /\ [][TxNext]_vars /\ TxFairness

-----------------------------------------------------------------------------

(* Words go to the stack only for a packet it agreed to, of the connection *)
(* it agreed for, as many as agreed, the last one marked: the stack has no *)
(* other way to tell where a packet of another session begins.             *)
WrittenAsAgreed ==
  [][out' # out =>
       /\ granted # <<>> /\ Messages[dataQ[1].msg].session = granted[1].session
       /\ out'[Len(out')].last <=> granted[1].words = 1]_vars

(* The packets are full ones, but for the last of a message, which ends    *)
(* where the message does: packets never span messages, through refusals   *)
(* at any point.                                                           *)
PacketsCut ==
  \A i \in DOMAIN out :
    out[i].last <=> \/ out[i].word % MaxPkgWord = 0
                    \/ out[i].word = Words(Messages[out[i].msg].len)

(* Liveness: every message is sent whole, unless a connection is lost, the *)
(* one case where the handler waits for an answer that nobody owes it.     *)
MessagesSent ==
  <>(gone \/ \A m \in DOMAIN Messages :
       \E i \in DOMAIN out : out[i].msg = m /\ out[i].last
                             /\ out[i].word = Words(Messages[m].len))

=============================================================================
