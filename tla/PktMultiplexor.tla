--------------------------- MODULE PktMultiplexor ---------------------------
(***************************************************************************)
(* pktMultiplexor: packets of several TCP sessions arrive interleaved on   *)
(* one stream; each message is given one of a few destinations for as long *)
(* as its packets come. session_dest_lookup keeps the table of sessions,   *)
(* procStream forwards the words; the size of a message is in its first    *)
(* word, so that the table is filled in after a miss was answered.         *)
(*                                                                         *)
(* Lengths count words. A word is the message it belongs to and its place  *)
(* in it.                                                                  *)
(***************************************************************************)
EXTENDS Integers, Sequences, FiniteSets

CONSTANTS
  Sessions,
  Messages,   \* what each session sends: messages as sequences of packets' lengths
  NumStreams, \* NUM_MULT_STREAM
  FifoDepth   \* packets, and words, waiting at the inputs

ASSUME MuxAssumption ==
  /\ NumStreams \in Nat \ {0} /\ FifoDepth \in Nat \ {0}
  /\ Messages \in [Sessions -> Seq(Seq(Nat \ {0}) \ {<<>>})]

Dests == 0 .. NumStreams - 1

VARIABLES
  lookup,    \* lookupFsmState
  counter,   \* destinations initialised
  valid, sessionOf, total, rcvd,  \* sessionTable..., by destination
  freeDest,  \* FIFO of destinations
  req,       \* session and pktLen of the request in hand
  reqQ,      \* pktMetaIn
  respQ,     \* lookupResp
  updQ,      \* lookupUpd
  proc,      \* FsmState
  resp,      \* procStream's resp
  inQ,       \* pktStreamIn
  next,      \* the network: next message and packet of each session, and the
  sending,   \* packet whose words are arriving
  cur        \* what was last written to each destination: [session, msg, word]

table == <<valid, sessionOf, total, rcvd, freeDest>>
lookupVars == <<lookup, counter, table, req>>
procVars == <<proc, resp, cur>>
netVars == <<next, sending>>
vars == <<lookupVars, reqQ, respQ, updQ, procVars, inQ, netVars>>

NoReq  == [session |-> "none", pktLen |-> 0]
NoResp == [hit |-> FALSE, isLastPkt |-> FALSE, dest |-> 0, session |-> "none", pktLen |-> 0]
Nothing == [session |-> "none", msg |-> 0, word |-> 0]

(* Words of the first p packets of a message.                              *)
Size(s, m, p) ==
  LET size[k \in Nat] == IF k = 0 THEN 0 ELSE Messages[s][m][k] + size[k - 1] IN size[p]
MsgSize(s, m) == Size(s, m, Len(Messages[s][m]))

MuxInit ==
  /\ lookup = "IDLE" /\ counter = 0
  /\ valid = [d \in Dests |-> FALSE] /\ sessionOf = [d \in Dests |-> "none"]
  /\ total = [d \in Dests |-> 0] /\ rcvd = total
  /\ freeDest = <<>> /\ req = NoReq
  /\ reqQ = <<>> /\ respQ = <<>> /\ updQ = <<>> /\ inQ = <<>>
  /\ proc = "WAIT_STREAM" /\ resp = NoResp
  /\ next = [s \in Sessions |-> [msg |-> 1, pkt |-> 1]]
  /\ sending = <<>>
  /\ cur = [d \in Dests |-> Nothing]

(* IDLE: one destination a cycle.                                          *)
Populate ==
  /\ lookup = "IDLE"
  /\ freeDest' = Append(freeDest, counter)
  /\ counter' = IF counter + 1 = NumStreams THEN 0 ELSE counter + 1
  /\ lookup' = IF counter + 1 = NumStreams THEN "REQ" ELSE lookup
  /\ UNCHANGED <<valid, sessionOf, total, rcvd, req, reqQ, respQ, updQ, procVars, inQ, netVars>>

Entries(s) == {d \in Dests : valid[d] /\ sessionOf[d] = s}

Req ==
  /\ lookup = "REQ" /\ reqQ # <<>>
  /\ req' = Head(reqQ) /\ reqQ' = Tail(reqQ)
  /\ lookup' = IF Entries(Head(reqQ).session) # {} THEN "HIT_RESP" ELSE "MISS_RESP"
  /\ UNCHANGED <<counter, table, respQ, updQ, procVars, inQ, netVars>>

Respond(hit, last, d) ==
  respQ' = Append(respQ, [hit |-> hit, isLastPkt |-> last, dest |-> d,
                          session |-> req.session, pktLen |-> req.pktLen])

Clear(d) ==
  /\ valid' = [valid EXCEPT ![d] = FALSE] /\ sessionOf' = [sessionOf EXCEPT ![d] = "none"]
  /\ total' = [total EXCEPT ![d] = 0] /\ rcvd' = [rcvd EXCEPT ![d] = 0]
  /\ freeDest' = Append(freeDest, d)

(* Mutant of HitResp: the packet is not counted.                           *)
HitRespUncounted ==
  /\ lookup = "HIT_RESP"
  /\ \E d \in Entries(req.session) :
       IF rcvd[d] + req.pktLen >= total[d]
       THEN Clear(d) /\ Respond(TRUE, TRUE, d)
       ELSE Respond(TRUE, FALSE, d) /\ UNCHANGED table
  /\ lookup' = "REQ"
  /\ UNCHANGED <<counter, req, reqQ, updQ, procVars, inQ, netVars>>

(* The session has a destination; after the last packet it is free again.  *)
HitResp ==
  /\ lookup = "HIT_RESP"
  /\ \E d \in Entries(req.session) :
       IF rcvd[d] + req.pktLen >= total[d]
       THEN Clear(d) /\ Respond(TRUE, TRUE, d)
       ELSE /\ rcvd' = [rcvd EXCEPT ![d] = @ + req.pktLen]
            /\ Respond(TRUE, FALSE, d)
            /\ UNCHANGED <<valid, sessionOf, total, freeDest>>
  /\ lookup' = "REQ"
  /\ UNCHANGED <<counter, req, reqQ, updQ, procVars, inQ, netVars>>

(* A first packet takes a free destination, or waits for one.              *)
MissResp ==
  /\ lookup = "MISS_RESP" /\ freeDest # <<>>
  /\ freeDest' = Tail(freeDest)
  /\ Respond(FALSE, FALSE, Head(freeDest))
  /\ lookup' = "UPDATE"
  /\ UNCHANGED <<counter, valid, sessionOf, total, rcvd, req, reqQ, updQ, procVars, inQ, netVars>>

(* Mutant of Update: a message of one packet stays in the table.           *)
UpdateAlways ==
  /\ lookup = "UPDATE" /\ updQ # <<>>
  /\ LET u == Head(updQ) IN
       /\ valid' = [valid EXCEPT ![u.dest] = TRUE]
       /\ sessionOf' = [sessionOf EXCEPT ![u.dest] = u.session]
       /\ total' = [total EXCEPT ![u.dest] = u.msgSize]
       /\ rcvd' = [rcvd EXCEPT ![u.dest] = u.pktLen]
  /\ updQ' = Tail(updQ) /\ lookup' = "REQ"
  /\ UNCHANGED <<counter, freeDest, req, reqQ, respQ, procVars, inQ, netVars>>

(* Mutant of Update: the destination is not given back.                    *)
UpdateKeeps ==
  /\ lookup = "UPDATE" /\ updQ # <<>>
  /\ LET u == Head(updQ) IN
       IF u.pktLen >= u.msgSize THEN UNCHANGED table
       ELSE /\ valid' = [valid EXCEPT ![u.dest] = TRUE]
            /\ sessionOf' = [sessionOf EXCEPT ![u.dest] = u.session]
            /\ total' = [total EXCEPT ![u.dest] = u.msgSize]
            /\ rcvd' = [rcvd EXCEPT ![u.dest] = u.pktLen]
            /\ UNCHANGED freeDest
  /\ updQ' = Tail(updQ) /\ lookup' = "REQ"
  /\ UNCHANGED <<counter, req, reqQ, respQ, procVars, inQ, netVars>>

(* The size is known: more packets are to come, or the destination is free *)
(* again.                                                                  *)
Update ==
  /\ lookup = "UPDATE" /\ updQ # <<>>
  /\ LET u == Head(updQ) IN
       IF u.pktLen >= u.msgSize THEN Clear(u.dest)
       ELSE /\ valid' = [valid EXCEPT ![u.dest] = TRUE]
            /\ sessionOf' = [sessionOf EXCEPT ![u.dest] = u.session]
            /\ total' = [total EXCEPT ![u.dest] = u.msgSize]
            /\ rcvd' = [rcvd EXCEPT ![u.dest] = u.pktLen]
            /\ UNCHANGED freeDest
  /\ updQ' = Tail(updQ) /\ lookup' = "REQ"
  /\ UNCHANGED <<counter, req, reqQ, respQ, procVars, inQ, netVars>>

-----------------------------------------------------------------------------

(* procStream writes a word; last is set on the last word of a message.    *)
Forward(w, r) ==
  /\ cur' = [cur EXCEPT ![r.dest] = [session |-> w.session, msg |-> w.msg, word |-> w.word]]
  /\ inQ' = Tail(inQ)
  /\ proc' = IF w.last THEN "WAIT_STREAM" ELSE "CONSUME"

WaitStream ==
  /\ proc = "WAIT_STREAM" /\ respQ # <<>> /\ inQ # <<>>
  /\ resp' = Head(respQ) /\ respQ' = Tail(respQ)
  /\ updQ' = IF resp'.hit THEN updQ
             ELSE Append(updQ, [msgSize |-> MsgSize(Head(inQ).session, Head(inQ).msg),
                                session |-> resp'.session, dest |-> resp'.dest,
                                pktLen |-> resp'.pktLen])
  /\ Forward(Head(inQ), resp')
  /\ UNCHANGED <<lookupVars, reqQ, netVars>>

Consume ==
  /\ proc = "CONSUME" /\ inQ # <<>>
  /\ Forward(Head(inQ), resp)
  /\ UNCHANGED <<lookupVars, reqQ, respQ, updQ, resp, netVars>>

(* TLAST of the word that a step forwards.                                 *)
MarkedLast == inQ[1].last /\ resp'.isLastPkt

-----------------------------------------------------------------------------

(* The network: a session's next packet is announced, then its words come. *)
Announce(s) ==
  /\ sending = <<>> /\ Len(reqQ) < FifoDepth /\ next[s].msg <= Len(Messages[s])
  /\ LET m == next[s].msg  p == next[s].pkt  n == Messages[s][m][p]
     IN /\ reqQ' = Append(reqQ, [session |-> s, pktLen |-> n])
        /\ sending' = [k \in 1 .. n |-> [session |-> s, msg |-> m,
                                         word |-> Size(s, m, p - 1) + k, last |-> k = n]]
        /\ next' = [next EXCEPT ![s] = IF p = Len(Messages[s][m])
                                       THEN [msg |-> m + 1, pkt |-> 1]
                                       ELSE [msg |-> m, pkt |-> p + 1]]
  /\ UNCHANGED <<lookupVars, respQ, updQ, procVars, inQ>>

WordArrives ==
  /\ sending # <<>> /\ Len(inQ) < FifoDepth
  /\ inQ' = Append(inQ, Head(sending)) /\ sending' = Tail(sending)
  /\ UNCHANGED <<lookupVars, reqQ, respQ, updQ, procVars, next>>

Lookup == Populate \/ Req \/ HitResp \/ MissResp \/ Update
ProcStream == WaitStream \/ Consume

MuxNext ==
  \/ Populate \/ Req \/ HitResp \/ MissResp \/ Update
  \/ WaitStream \/ Consume
  \/ (\E s \in Sessions : Announce(s)) \/ WordArrives

(* Both pipelines run on, and what was announced arrives.                  *)
MuxFairness == WF_vars(Lookup) /\ WF_vars(ProcStream) /\ WF_vars(WordArrives)
               /\ \A s \in Sessions : WF_vars(Announce(s))

MuxSpec == MuxInit /\ [][MuxNext]_vars /\ MuxFairness

-----------------------------------------------------------------------------

Free == {freeDest[i] : i \in DOMAIN freeDest}
Used == {d \in Dests : valid[d]}
Promised == {respQ[i].dest : i \in {j \in DOMAIN respQ : ~ respQ[j].hit}}
            \cup {updQ[i].dest : i \in DOMAIN updQ}

(* Every initialised destination is free, once, or in the table for a      *)
(* session of its own, or promised to a message whose size is not in the   *)
(* table yet; a table entry still misses words.                            *)
EntriesAccounted ==
  /\ \A i, j \in DOMAIN freeDest : freeDest[i] = freeDest[j] => i = j
  /\ Free \cup Used \cup Promised = IF lookup = "IDLE" THEN 0 .. counter - 1 ELSE Dests
  /\ Free \cap Used = {} /\ Free \cap Promised = {} /\ Used \cap Promised = {}
  /\ \A d, e \in Used : sessionOf[d] = sessionOf[e] => d = e
  /\ \A d \in Used : ~ (rcvd[d] >= total[d])

(* A destination carries one message at a time, word by word: packets of   *)
(* other sessions in between do not mix with it, and the destination is    *)
(* not given away before the message is complete, although the lookup runs *)
(* ahead of the words.                                                     *)
OneMessagePerDest ==
  [][\A d \in Dests : cur'[d] # cur[d] =>
       IF cur'[d].word = 1
       THEN cur[d] = Nothing \/ cur[d].word = MsgSize(cur[d].session, cur[d].msg)
       ELSE cur[d] = [cur'[d] EXCEPT !.word = @ - 1]]_vars

(* TLAST is set on the last word of a message and on no other, for the     *)
(* messages of several packets: the lookup finds the last packet by adding *)
(* lengths up before the packets' words are there.                         *)
LastMarked ==
  [][cur' # cur =>
       LET w == inQ[1] IN
         Len(Messages[w.session][w.msg]) > 1 =>
           (MarkedLast <=> w.word = MsgSize(w.session, w.msg))]_vars

(* The comment on the lookup, of all messages: "If a full message is       *)
(* consumed, issue the dest with the isLastPkt signal set", so that the    *)
(* last word is marked. The code breaks it: the only packet of a message   *)
(* is answered as a miss, with isLastPkt unset.                            *)
FullMessageMarked ==
  [][cur' # cur =>
       LET w == inQ[1] IN w.word = MsgSize(w.session, w.msg) => MarkedLast]_vars

(* Liveness: with no more sessions than destinations everything is         *)
(* forwarded, and all destinations are free in the end.                    *)
AllForwarded ==
  <>[](/\ \A s \in Sessions : next[s].msg > Len(Messages[s])
       /\ sending = <<>> /\ inQ = <<>> /\ Len(freeDest) = NumStreams)

=============================================================================
