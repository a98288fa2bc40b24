------------------------ MODULE PktMultiplexorProofs ------------------------
(***************************************************************************)
(* Proofs about PktMultiplexor, for any number of destinations, sessions,  *)
(* messages and FIFO depths: no destination is lost or given away twice,   *)
(* each carries whole messages one after the other, and the last word of a *)
(* message of several packets is the one that is marked.                   *)
(*                                                                         *)
(* The last two need the history of the packets (Story, below): it is      *)
(* recovered from the state in each step rather than kept in a variable.   *)
(***************************************************************************)
EXTENDS PktMultiplexor, ProofFacts, TLAPS

Shape ==
  /\ lookup \in {"IDLE", "REQ", "HIT_RESP", "MISS_RESP", "UPDATE"}
  /\ counter \in Nat
  /\ valid \in [Dests -> BOOLEAN]
  /\ DOMAIN sessionOf = Dests /\ DOMAIN total = Dests /\ DOMAIN rcvd = Dests
  /\ freeDest \in Seq(Dests) /\ IsSeq(respQ)

(* While destinations are initialised nothing was looked up.               *)
Initialising == lookup = "IDLE" => counter < NumStreams

(* Only in state UPDATE a message's size is awaited: its answer is the     *)
(* last one, or its update is there.                                       *)
AllHits == \A i \in DOMAIN respQ : respQ[i].hit

AwaitedAnswer ==
  /\ updQ = <<>> /\ respQ # <<>>
  /\ \A i \in DOMAIN respQ : respQ[i].hit <=> i # Len(respQ)
  /\ respQ[Len(respQ)].session = req.session

AwaitedUpdate ==
  AllHits /\ \E u : updQ = <<u>> /\ u.session = req.session

Awaited ==
  IF lookup = "UPDATE" THEN AwaitedAnswer \/ AwaitedUpdate
  ELSE AllHits /\ updQ = <<>>

(* A session that missed is not in the table.                              *)
Missed == lookup \in {"MISS_RESP", "UPDATE"} => Entries(req.session) = {}

MuxInv == Shape /\ Initialising /\ Awaited /\ Missed /\ EntriesAccounted

-----------------------------------------------------------------------------

LEMMA PromisedWhenAllHits == AllHits /\ updQ = <<>> => Promised = {}
  BY DEF AllHits, Promised

LEMMA PromisedByAnswer ==
  ASSUME IsSeq(respQ), AwaitedAnswer PROVE Promised = {respQ[Len(respQ)].dest}
<1>1. PICK T : respQ \in Seq(T)
  BY DEF IsSeq
<1>2. Len(respQ) \in DOMAIN respQ
  BY <1>1 DEF AwaitedAnswer
<1>3. {j \in DOMAIN respQ : ~ respQ[j].hit} = {Len(respQ)}
  BY <1>2 DEF AwaitedAnswer
<1>4. {updQ[i].dest : i \in DOMAIN updQ} = {}
  BY DEF AwaitedAnswer
<1>5. QED
  BY <1>3, <1>4 DEF Promised

LEMMA PromisedByUpdate ==
  ASSUME AllHits, NEW u, updQ = <<u>> PROVE Promised = {u.dest}
<1>1. {updQ[i].dest : i \in DOMAIN updQ} = {u.dest}
  OBVIOUS
<1>2. {j \in DOMAIN respQ : ~ respQ[j].hit} = {}
  BY DEF AllHits
<1>3. QED
  BY <1>1, <1>2 DEF Promised

(* A destination that is not free is appended to the FIFO.                 *)
LEMMA FreeAppend ==
  ASSUME freeDest \in Seq(Dests), NEW d \in Dests, d \notin Free,
         freeDest' = Append(freeDest, d),
         \A i, j \in DOMAIN freeDest : freeDest[i] = freeDest[j] => i = j
  PROVE  /\ freeDest' \in Seq(Dests) /\ Free' = Free \cup {d}
         /\ \A i, j \in DOMAIN freeDest' : freeDest'[i] = freeDest'[j] => i = j
<1>1. /\ freeDest' \in Seq(Dests) /\ DOMAIN freeDest' = 1 .. Len(freeDest) + 1
      /\ DOMAIN freeDest = 1 .. Len(freeDest) /\ Len(freeDest) \in Nat
      /\ \A i \in DOMAIN freeDest : freeDest'[i] = freeDest[i]
      /\ freeDest'[Len(freeDest) + 1] = d
  OBVIOUS
<1>2. Free' = Free \cup {d}
  BY <1>1 DEF Free
<1>3. \A i \in DOMAIN freeDest : freeDest[i] # d
  BY DEF Free
<1>4. QED
  BY <1>1, <1>2, <1>3

LEMMA FreeTail ==
  ASSUME freeDest \in Seq(Dests), freeDest # <<>>, freeDest' = Tail(freeDest),
         \A i, j \in DOMAIN freeDest : freeDest[i] = freeDest[j] => i = j
  PROVE  /\ freeDest' \in Seq(Dests) /\ Head(freeDest) \in Free
         /\ Free' = Free \ {Head(freeDest)} /\ Head(freeDest) \in Dests
         /\ \A i, j \in DOMAIN freeDest' : freeDest'[i] = freeDest'[j] => i = j
<1>1. /\ freeDest' \in Seq(Dests) /\ DOMAIN freeDest' = 1 .. Len(freeDest) - 1
      /\ DOMAIN freeDest = 1 .. Len(freeDest) /\ Len(freeDest) \in Nat \ {0}
      /\ \A i \in DOMAIN freeDest' : freeDest'[i] = freeDest[i + 1]
      /\ Head(freeDest) = freeDest[1] /\ Head(freeDest) \in Dests
  OBVIOUS
<1>2. \A i \in DOMAIN freeDest : i = 1 \/ i - 1 \in DOMAIN freeDest'
  BY <1>1
<1>3. \A i \in DOMAIN freeDest' : freeDest'[i] # freeDest[1]
  BY <1>1
<1>4. Free' = Free \ {Head(freeDest)}
  <2>1. Free' \subseteq Free \ {Head(freeDest)}
    BY <1>1, <1>3 DEF Free
  <2>2. Free \ {Head(freeDest)} \subseteq Free'
    <3> SUFFICES ASSUME NEW i \in DOMAIN freeDest, freeDest[i] # freeDest[1]
                 PROVE  freeDest[i] \in Free'
      BY <1>1 DEF Free
    <3>1. i - 1 \in DOMAIN freeDest' /\ freeDest'[i - 1] = freeDest[i]
      BY <1>1, <1>2
    <3>2. QED
      BY <3>1 DEF Free
  <2>3. QED
    BY <2>1, <2>2
<1>5. \A i, j \in DOMAIN freeDest' : freeDest'[i] = freeDest'[j] => i = j
  <2> SUFFICES ASSUME NEW i \in DOMAIN freeDest', NEW j \in DOMAIN freeDest',
                      freeDest'[i] = freeDest'[j]
               PROVE  i = j
    OBVIOUS
  <2>1. i + 1 \in DOMAIN freeDest /\ j + 1 \in DOMAIN freeDest /\ i \in Nat /\ j \in Nat
    BY <1>1
  <2>2. freeDest[i + 1] = freeDest[j + 1]
    BY <1>1
  <2>3. i + 1 = j + 1
    BY <2>1, <2>2
  <2>4. QED
    BY <2>1, <2>3
<1>6. Head(freeDest) \in Free
  BY <1>1 DEF Free
<1>7. QED
  BY <1>1, <1>4, <1>5, <1>6

-----------------------------------------------------------------------------

LEMMA InitInv == MuxInit => MuxInv
<1> SUFFICES ASSUME MuxInit PROVE MuxInv
  OBVIOUS
<1>1. Shape
  <2>1. IsSeq(respQ)
    BY DEF MuxInit, IsSeq
  <2>2. QED
    BY <2>1 DEF MuxInit, Shape
<1>2. Initialising
  BY MuxAssumption DEF MuxInit, Initialising
<1>3. Awaited /\ Promised = {}
  BY DEF MuxInit, Awaited, AllHits, Promised
<1>4. Missed
  BY DEF MuxInit, Missed
<1>5. Free = {} /\ Used = {}
  BY DEF MuxInit, Free, Used
<1>6. EntriesAccounted
  BY <1>3, <1>5 DEF MuxInit, EntriesAccounted
<1>7. QED
  BY <1>1, <1>2, <1>3, <1>4, <1>6 DEF MuxInv

(* One destination after the other is free.                                *)
LEMMA PopulateInv == MuxInv /\ Populate => MuxInv'
<1> SUFFICES ASSUME MuxInv, Populate PROVE MuxInv'
  OBVIOUS
<1> USE DEF MuxInv
<1>1. /\ counter \in Nat /\ counter < NumStreams /\ counter \in Dests /\ NumStreams \in Nat
      /\ lookup = "IDLE" /\ freeDest' = Append(freeDest, counter)
      /\ UNCHANGED <<valid, sessionOf, total, rcvd, req, respQ, updQ>>
  BY MuxAssumption DEF Populate, Shape, Initialising, Dests
<1>2. /\ Promised = {} /\ Promised' = {}
  BY <1>1, PromisedWhenAllHits DEF Awaited, Promised
<1>3. Free \cup Used = 0 .. counter - 1
  BY <1>1, <1>2 DEF EntriesAccounted
<1>4. counter \notin Free /\ counter \notin Used
  BY <1>1, <1>3
<1>5. /\ freeDest' \in Seq(Dests) /\ Free' = Free \cup {counter}
      /\ \A i, j \in DOMAIN freeDest' : freeDest'[i] = freeDest'[j] => i = j
  BY <1>1, <1>4, FreeAppend DEF Shape, EntriesAccounted
<1>6. Shape' /\ Initialising'
  BY <1>1, <1>5 DEF Shape, Initialising, Populate
<1>7. Awaited'
  BY <1>1 DEF Awaited, AllHits, Populate
<1>8. Missed'
  BY DEF Missed, Populate
<1>9. Used' = Used
  BY <1>1 DEF Used
<1>10. Free' \cup Used' = 0 .. counter
  BY <1>1, <1>3, <1>5, <1>9
<1>11. (Free \cup Used \cup Promised = IF lookup = "IDLE" THEN 0 .. counter - 1 ELSE Dests)'
  <2>1. CASE counter + 1 = NumStreams
    <3>1. lookup' = "REQ" /\ 0 .. counter = Dests
      BY <2>1, <1>1 DEF Populate, Dests
    <3>2. QED
      BY <3>1, <1>2, <1>10
  <2>2. CASE counter + 1 # NumStreams
    <3>1. lookup' = "IDLE" /\ counter' - 1 = counter
      BY <2>2, <1>1 DEF Populate
    <3>2. QED
      BY <3>1, <1>2, <1>10
  <2>3. QED
    BY <2>1, <2>2
<1>12. EntriesAccounted'
  BY <1>1, <1>2, <1>4, <1>5, <1>9, <1>11 DEF EntriesAccounted
<1>13. QED
  BY <1>6, <1>7, <1>8, <1>12

(* A lookup that changes no entry.                                         *)
LEMMA ReqInv == MuxInv /\ Req => MuxInv'
<1> SUFFICES ASSUME MuxInv, Req PROVE MuxInv'
  OBVIOUS
<1> USE DEF MuxInv
<1>1. /\ lookup = "REQ" /\ lookup' \in {"HIT_RESP", "MISS_RESP"}
      /\ UNCHANGED <<counter, valid, sessionOf, total, rcvd, freeDest, respQ, updQ>>
      /\ lookup' = "MISS_RESP" => Entries(req'.session) = {}
  BY DEF Req, table
<1>2. Shape' /\ Initialising'
  BY <1>1 DEF Shape, Initialising
<1>3. Awaited'
  BY <1>1 DEF Awaited, AllHits
<1>4. Missed'
  BY <1>1 DEF Missed, Entries
<1>5. EntriesAccounted'
  BY <1>1 DEF EntriesAccounted, Free, Used, Promised
<1>6. QED
  BY <1>2, <1>3, <1>4, <1>5

(* An answer is appended.                                                  *)
LEMMA RespondFacts ==
  ASSUME IsSeq(respQ), AllHits, NEW h \in BOOLEAN, NEW l, NEW d, Respond(h, l, d)
  PROVE  /\ IsSeq(respQ') /\ respQ' # <<>> /\ Len(respQ) \in Nat
         /\ Len(respQ') = Len(respQ) + 1 /\ DOMAIN respQ' = 1 .. Len(respQ')
         /\ \A i \in DOMAIN respQ' : respQ'[i].hit <=> (i # Len(respQ') \/ h)
         /\ respQ'[Len(respQ')].dest = d
         /\ respQ'[Len(respQ')].session = req.session
<1> DEFINE x == [hit |-> h, isLastPkt |-> l, dest |-> d,
                 session |-> req.session, pktLen |-> req.pktLen]
<1>1. respQ' = Append(respQ, x)
  BY DEF Respond
<1>2. x.hit = h /\ x.dest = d /\ x.session = req.session
  OBVIOUS
<1> HIDE DEF x
<1>3. QED
  BY <1>1, <1>2, AppendFacts DEF AllHits

(* A destination that is not free, and free from now on.                   *)
LEMMA ClearFacts ==
  ASSUME Shape, EntriesAccounted, NEW d \in Dests, d \notin Free, Clear(d)
  PROVE  /\ valid' \in [Dests -> BOOLEAN] /\ DOMAIN sessionOf' = Dests
         /\ DOMAIN total' = Dests /\ DOMAIN rcvd' = Dests /\ freeDest' \in Seq(Dests)
         /\ Free' = Free \cup {d} /\ Used' = Used \ {d}
         /\ \A i, j \in DOMAIN freeDest' : freeDest'[i] = freeDest'[j] => i = j
         /\ \A e \in Used' : /\ sessionOf'[e] = sessionOf[e]
                             /\ total'[e] = total[e] /\ rcvd'[e] = rcvd[e]
<1>1. freeDest' = Append(freeDest, d)
  BY DEF Clear
<1>2. /\ freeDest' \in Seq(Dests) /\ Free' = Free \cup {d}
      /\ \A i, j \in DOMAIN freeDest' : freeDest'[i] = freeDest'[j] => i = j
  BY <1>1, FreeAppend DEF Shape, EntriesAccounted
<1>3. /\ valid' \in [Dests -> BOOLEAN] /\ Used' = Used \ {d}
      /\ DOMAIN sessionOf' = Dests /\ DOMAIN total' = Dests /\ DOMAIN rcvd' = Dests
  BY DEF Clear, Shape, Used
<1>4. \A e \in Used' : /\ sessionOf'[e] = sessionOf[e]
                       /\ total'[e] = total[e] /\ rcvd'[e] = rcvd[e]
  BY <1>3 DEF Clear, Shape, Used
<1>5. QED
  BY <1>2, <1>3, <1>4

LEMMA HitRespInv == MuxInv /\ HitResp => MuxInv'
<1> SUFFICES ASSUME MuxInv, HitResp PROVE MuxInv'
  OBVIOUS
<1> USE DEF MuxInv
<1>1. PICK d \in Entries(req.session) :
        IF rcvd[d] + req.pktLen >= total[d]
        THEN Clear(d) /\ Respond(TRUE, TRUE, d)
        ELSE /\ rcvd' = [rcvd EXCEPT ![d] = @ + req.pktLen]
             /\ Respond(TRUE, FALSE, d)
             /\ UNCHANGED <<valid, sessionOf, total, freeDest>>
  BY DEF HitResp
<1>2. lookup = "HIT_RESP" /\ lookup' = "REQ" /\ UNCHANGED <<counter, req, updQ>>
  BY DEF HitResp
<1>3. d \in Dests /\ d \in Used /\ d \notin Free
  BY <1>1 DEF Entries, Used, EntriesAccounted
<1>4. AllHits /\ updQ = <<>> /\ Promised = {}
  BY <1>2, PromisedWhenAllHits DEF Awaited
<1>5. IsSeq(respQ') /\ AllHits'
  <2>1. PICK l \in BOOLEAN : Respond(TRUE, l, d)
    BY <1>1
  <2>2. IsSeq(respQ)
    BY DEF Shape
  <2>3. IsSeq(respQ') /\ \A i \in DOMAIN respQ' : respQ'[i].hit
    BY <1>4, <2>1, <2>2, RespondFacts
  <2>4. QED
    BY <2>3 DEF AllHits
<1>6. Promised' = {}
  BY <1>2, <1>4, <1>5 DEF AllHits, Promised
<1>7. Awaited' /\ Initialising' /\ Missed'
  BY <1>2, <1>4, <1>5 DEF Awaited, Initialising, Missed
<1>8. CASE rcvd[d] + req.pktLen >= total[d]
  <2>1. Clear(d)
    BY <1>1, <1>8
  <2>2. /\ valid' \in [Dests -> BOOLEAN] /\ DOMAIN sessionOf' = Dests
        /\ DOMAIN total' = Dests /\ DOMAIN rcvd' = Dests /\ freeDest' \in Seq(Dests)
        /\ Free' = Free \cup {d} /\ Used' = Used \ {d}
        /\ \A i, j \in DOMAIN freeDest' : freeDest'[i] = freeDest'[j] => i = j
        /\ \A e \in Used' : /\ sessionOf'[e] = sessionOf[e]
                            /\ total'[e] = total[e] /\ rcvd'[e] = rcvd[e]
    BY <1>3, <2>1, ClearFacts
  <2>3. Shape'
    BY <1>2, <1>5, <2>2 DEF Shape
  <2>4. EntriesAccounted'
    BY <1>2, <1>3, <1>4, <1>6, <2>2 DEF EntriesAccounted
  <2>5. QED
    BY <1>7, <2>3, <2>4
<1>9. CASE ~ (rcvd[d] + req.pktLen >= total[d])
  <2>1. /\ rcvd' = [rcvd EXCEPT ![d] = @ + req.pktLen]
        /\ UNCHANGED <<valid, sessionOf, total, freeDest>>
    BY <1>1, <1>9
  <2>2. Shape'
    BY <1>2, <1>5, <2>1 DEF Shape
  <2>3. Free' = Free /\ Used' = Used
    BY <2>1 DEF Free, Used
  <2>4. \A e \in Dests : rcvd'[e] = IF e = d THEN rcvd[d] + req.pktLen ELSE rcvd[e]
    BY <1>3, <2>1 DEF Shape
  <2>5. \A e \in Used : ~ (rcvd'[e] >= total'[e])
    BY <1>9, <2>1, <2>4 DEF EntriesAccounted, Used
  <2>6. EntriesAccounted'
    BY <1>2, <1>4, <1>6, <2>1, <2>3, <2>5 DEF EntriesAccounted
  <2>7. QED
    BY <1>7, <2>2, <2>6
<1>10. QED
  BY <1>8, <1>9

(* A free destination is promised.                                         *)
LEMMA MissRespInv == MuxInv /\ MissResp => MuxInv'
<1> SUFFICES ASSUME MuxInv, MissResp PROVE MuxInv'
  OBVIOUS
<1> USE DEF MuxInv
<1>1. /\ lookup = "MISS_RESP" /\ lookup' = "UPDATE" /\ freeDest # <<>>
      /\ freeDest' = Tail(freeDest) /\ Respond(FALSE, FALSE, Head(freeDest))
      /\ UNCHANGED <<counter, valid, sessionOf, total, rcvd, req, updQ>>
  BY DEF MissResp
<1>2. AllHits /\ updQ = <<>> /\ Promised = {}
  BY <1>1, PromisedWhenAllHits DEF Awaited
<1>3. /\ freeDest' \in Seq(Dests) /\ Head(freeDest) \in Free
      /\ Free' = Free \ {Head(freeDest)} /\ Head(freeDest) \in Dests
      /\ \A i, j \in DOMAIN freeDest' : freeDest'[i] = freeDest'[j] => i = j
  BY <1>1, FreeTail DEF Shape, EntriesAccounted
<1>4. IsSeq(respQ)
  BY DEF Shape
<1>5. /\ IsSeq(respQ') /\ respQ' # <<>>
      /\ \A i \in DOMAIN respQ' : respQ'[i].hit <=> i # Len(respQ')
      /\ respQ'[Len(respQ')].dest = Head(freeDest)
      /\ respQ'[Len(respQ')].session = req.session
  BY <1>1, <1>2, <1>4, RespondFacts
<1>6. AwaitedAnswer'
  BY <1>1, <1>2, <1>5 DEF AwaitedAnswer
<1>7. Promised' = {Head(freeDest)}
  <2>1. PICK T : respQ' \in Seq(T)
    BY <1>5 DEF IsSeq
  <2>2. Len(respQ') \in DOMAIN respQ'
    BY <1>5, <2>1
  <2>3. {j \in DOMAIN respQ' : ~ respQ'[j].hit} = {Len(respQ')}
    BY <1>5, <2>2
  <2>4. {updQ'[i].dest : i \in DOMAIN updQ'} = {}
    BY <1>1, <1>2
  <2>5. QED
    BY <1>5, <2>3, <2>4 DEF Promised
<1>8. Shape' /\ Initialising' /\ Awaited'
  BY <1>1, <1>3, <1>5, <1>6 DEF Shape, Initialising, Awaited
<1>9. Missed'
  BY <1>1 DEF Missed, Entries
<1>10. Used' = Used
  BY <1>1 DEF Used
<1>11. EntriesAccounted'
  BY <1>1, <1>2, <1>3, <1>7, <1>10 DEF EntriesAccounted
<1>12. QED
  BY <1>8, <1>9, <1>11

(* The promised destination is free again or in the table.                 *)
LEMMA UpdateInv == MuxInv /\ Update => MuxInv'
<1> SUFFICES ASSUME MuxInv, Update PROVE MuxInv'
  OBVIOUS
<1> USE DEF MuxInv
<1>1. /\ lookup = "UPDATE" /\ lookup' = "REQ" /\ updQ # <<>> /\ updQ' = Tail(updQ)
      /\ UNCHANGED <<counter, req, respQ>>
  BY DEF Update
<1>2. AllHits /\ \E u : updQ = <<u>> /\ u.session = req.session
  BY <1>1 DEF Awaited, AwaitedAnswer, AwaitedUpdate
<1>3. PICK u : updQ = <<u>> /\ u.session = req.session
  BY <1>2
<1>4. Head(updQ) = u /\ updQ' = <<>>
  BY <1>1, <1>3
<1>5. Promised = {u.dest}
  BY <1>2, <1>3, PromisedByUpdate
<1>6. AllHits' /\ Promised' = {}
  BY <1>1, <1>2, <1>4 DEF AllHits, Promised
<1>7. Awaited' /\ Initialising' /\ Missed'
  BY <1>1, <1>4, <1>6 DEF Awaited, Initialising, Missed
<1>8. u.dest \in Dests /\ u.dest \notin Free /\ u.dest \notin Used
  BY <1>1, <1>5 DEF EntriesAccounted
<1>9. \A d \in Used : sessionOf[d] # u.session
  BY <1>1, <1>3 DEF Missed, Entries, Used
<1>10. CASE u.pktLen >= u.msgSize
  <2>1. Clear(u.dest)
    BY <1>4, <1>10 DEF Update
  <2>2. /\ valid' \in [Dests -> BOOLEAN] /\ DOMAIN sessionOf' = Dests
        /\ DOMAIN total' = Dests /\ DOMAIN rcvd' = Dests /\ freeDest' \in Seq(Dests)
        /\ Free' = Free \cup {u.dest} /\ Used' = Used \ {u.dest}
        /\ \A i, j \in DOMAIN freeDest' : freeDest'[i] = freeDest'[j] => i = j
        /\ \A e \in Used' : /\ sessionOf'[e] = sessionOf[e]
                            /\ total'[e] = total[e] /\ rcvd'[e] = rcvd[e]
    BY <1>8, <2>1, ClearFacts
  <2>3. Shape'
    BY <1>1, <2>2 DEF Shape
  <2>4. EntriesAccounted'
    BY <1>1, <1>5, <1>6, <1>8, <2>2 DEF EntriesAccounted
  <2>5. QED
    BY <1>7, <2>3, <2>4
<1>11. CASE ~ (u.pktLen >= u.msgSize)
  <2>1. /\ valid' = [valid EXCEPT ![u.dest] = TRUE]
        /\ sessionOf' = [sessionOf EXCEPT ![u.dest] = u.session]
        /\ total' = [total EXCEPT ![u.dest] = u.msgSize]
        /\ rcvd' = [rcvd EXCEPT ![u.dest] = u.pktLen]
        /\ freeDest' = freeDest
    BY <1>4, <1>11 DEF Update
  <2>2. Shape'
    BY <1>1, <1>8, <2>1 DEF Shape
  <2>3. Free' = Free /\ Used' = Used \cup {u.dest}
    BY <1>8, <2>1 DEF Free, Used, Shape
  <2>4. /\ sessionOf'[u.dest] = u.session
        /\ \A e \in Used : sessionOf'[e] = sessionOf[e]
    BY <1>8, <2>1 DEF Shape, Used
  <2>5. \A d, e \in Used' : sessionOf'[d] = sessionOf'[e] => d = e
    BY <1>9, <2>3, <2>4 DEF EntriesAccounted
  <2>6. /\ total'[u.dest] = u.msgSize /\ rcvd'[u.dest] = u.pktLen
        /\ \A e \in Used : total'[e] = total[e] /\ rcvd'[e] = rcvd[e]
    BY <1>8, <2>1 DEF Shape, Used
  <2>7. \A d \in Used' : ~ (rcvd'[d] >= total'[d])
    BY <1>11, <2>3, <2>6 DEF EntriesAccounted
  <2>8. EntriesAccounted'
    BY <1>1, <1>5, <1>6, <1>8, <2>1, <2>3, <2>5, <2>7 DEF EntriesAccounted
  <2>9. QED
    BY <1>7, <2>2, <2>8
<1>12. QED
  BY <1>10, <1>11

(* procStream takes an answer: the promise moves on to the update.         *)
LEMMA WaitStreamInv == MuxInv /\ WaitStream => MuxInv'
<1> SUFFICES ASSUME MuxInv, WaitStream PROVE MuxInv'
  OBVIOUS
<1> USE DEF MuxInv
<1> DEFINE u == [msgSize |-> MsgSize(Head(inQ).session, Head(inQ).msg),
                 session |-> resp'.session, dest |-> resp'.dest, pktLen |-> resp'.pktLen]
<1>1. /\ respQ # <<>> /\ resp' = Head(respQ) /\ respQ' = Tail(respQ)
      /\ updQ' = IF resp'.hit THEN updQ ELSE Append(updQ, u)
  BY DEF WaitStream
<1>2. UNCHANGED <<lookup, counter, valid, sessionOf, total, rcvd, freeDest, req>>
  BY DEF WaitStream, lookupVars, table
<1>3. u.session = resp'.session /\ u.dest = resp'.dest
  OBVIOUS
<1> HIDE DEF u
<1>4. IsSeq(respQ)
  BY DEF Shape
<1>5. /\ IsSeq(respQ') /\ Len(respQ') = Len(respQ) - 1 /\ Len(respQ) \in Nat \ {0}
      /\ DOMAIN respQ' = 1 .. Len(respQ) - 1 /\ DOMAIN respQ = 1 .. Len(respQ)
      /\ \A i \in DOMAIN respQ' : respQ'[i] = respQ[i + 1]
      /\ resp' = respQ[1]
  BY <1>1, <1>4, TailFacts
<1>6. Shape' /\ Initialising' /\ Missed'
  BY <1>2, <1>5 DEF Shape, Initialising, Missed, Entries
<1>7. Free' = Free /\ Used' = Used
  BY <1>2 DEF Free, Used
<1>8. CASE AllHits
  <2>1. updQ' = updQ /\ AllHits'
    BY <1>1, <1>5, <1>8 DEF AllHits
  <2>2. Awaited'
    BY <1>2, <1>8, <2>1, <1>1, <1>5 DEF Awaited, AwaitedAnswer, AwaitedUpdate, AllHits
  <2>3. {j \in DOMAIN respQ : ~ respQ[j].hit} = {} /\ {j \in DOMAIN respQ' : ~ respQ'[j].hit} = {}
    BY <1>8, <2>1 DEF AllHits
  <2>4. Promised' = Promised
    BY <2>1, <2>3 DEF Promised
  <2>5. EntriesAccounted'
    BY <1>2, <1>7, <2>4 DEF EntriesAccounted
  <2>6. QED
    BY <1>6, <2>2, <2>5
<1>9. CASE ~ AllHits
  <2>1. lookup = "UPDATE" /\ AwaitedAnswer
    BY <1>9 DEF Awaited, AwaitedUpdate
  <2>2. Promised = {respQ[Len(respQ)].dest}
    BY <1>4, <2>1, PromisedByAnswer
  <2>3. CASE Len(respQ) = 1
    <3>1. ~ resp'.hit /\ resp'.session = req.session /\ Promised = {resp'.dest}
      BY <1>5, <2>1, <2>2, <2>3 DEF AwaitedAnswer
    <3>2. updQ' = <<u>>
      BY <1>1, <2>1, <3>1 DEF AwaitedAnswer
    <3>3. AllHits'
      BY <1>5, <2>3 DEF AllHits
    <3>4. Awaited'
      BY <1>2, <1>3, <2>1, <3>1, <3>2, <3>3 DEF Awaited, AwaitedUpdate
    <3>5. Promised' = {u.dest}
      <4>1. {updQ'[i].dest : i \in DOMAIN updQ'} = {u.dest}
        BY <3>2
      <4>2. {j \in DOMAIN respQ' : ~ respQ'[j].hit} = {}
        BY <3>3 DEF AllHits
      <4>3. QED
        BY <4>1, <4>2 DEF Promised
    <3>6. EntriesAccounted'
      BY <1>2, <1>3, <1>7, <3>1, <3>5 DEF EntriesAccounted
    <3>7. QED
      BY <1>6, <3>4, <3>6
  <2>4. CASE Len(respQ) # 1
    <3>1. resp'.hit /\ updQ' = updQ /\ updQ' = <<>> /\ respQ' # <<>>
      BY <1>1, <1>5, <2>1, <2>4 DEF AwaitedAnswer
    <3>2. /\ \A i \in DOMAIN respQ' : respQ'[i].hit <=> i # Len(respQ')
          /\ respQ'[Len(respQ')] = respQ[Len(respQ)]
      BY <1>5, <2>1, <2>4 DEF AwaitedAnswer
    <3>3. AwaitedAnswer'
      BY <1>2, <2>1, <3>1, <3>2 DEF AwaitedAnswer
    <3>4. Awaited'
      BY <1>2, <2>1, <3>3 DEF Awaited
    <3>5. Promised' = Promised
      <4>1. Len(respQ') \in DOMAIN respQ'
        BY <1>5, <2>4
      <4>2. {j \in DOMAIN respQ' : ~ respQ'[j].hit} = {Len(respQ')}
        BY <3>2, <4>1
      <4>3. {updQ'[i].dest : i \in DOMAIN updQ'} = {}
        BY <3>1
      <4>4. QED
        BY <2>2, <3>2, <4>2, <4>3 DEF Promised
    <3>6. EntriesAccounted'
      BY <1>2, <1>7, <3>5 DEF EntriesAccounted
    <3>7. QED
      BY <1>6, <3>4, <3>6
  <2>5. QED
    BY <2>3, <2>4
<1>10. QED
  BY <1>8, <1>9

(* What leaves the table and its queues alone.                             *)
LEMMA StutterInv == MuxInv /\ UNCHANGED <<lookupVars, respQ, updQ>> => MuxInv'
<1> SUFFICES ASSUME MuxInv, UNCHANGED <<lookupVars, respQ, updQ>> PROVE MuxInv'
  OBVIOUS
<1>1. Shape' /\ Initialising' /\ Missed'
  BY DEF MuxInv, lookupVars, table, Shape, Initialising, Missed, Entries
<1>2. Awaited'
  BY DEF MuxInv, lookupVars, Awaited, AllHits, AwaitedAnswer, AwaitedUpdate
<1>3. EntriesAccounted'
  BY DEF MuxInv, lookupVars, table, EntriesAccounted, Free, Used, Promised
<1>4. QED
  BY <1>1, <1>2, <1>3 DEF MuxInv

LEMMA StepInv == MuxInv /\ [MuxNext]_vars => MuxInv'
<1> SUFFICES ASSUME MuxInv, [MuxNext]_vars PROVE MuxInv'
  OBVIOUS
<1>1. CASE Populate \/ Req \/ HitResp \/ MissResp \/ Update
  BY <1>1, PopulateInv, ReqInv, HitRespInv, MissRespInv, UpdateInv
<1>2. CASE WaitStream
  BY <1>2, WaitStreamInv
<1>3. CASE Consume \/ (\E s \in Sessions : Announce(s)) \/ WordArrives
  BY <1>3, StutterInv DEF Consume, Announce, WordArrives
<1>4. CASE UNCHANGED vars
  BY <1>4, StutterInv DEF vars
<1>5. QED
  BY <1>1, <1>2, <1>3, <1>4 DEF MuxNext

-----------------------------------------------------------------------------

(* No destination of pktMultiplexor is lost, given away twice or shared by *)
(* sessions, although the table is filled in after the lookup of a         *)
(* message's first packet was answered.                                    *)
THEOREM DestinationsAccounted == MuxSpec => []EntriesAccounted
<1>1. MuxInv => EntriesAccounted
  BY DEF MuxInv
<1>2. QED
  BY <1>1, InitInv, StepInv, PTL DEF MuxSpec

-----------------------------------------------------------------------------
(* What became of the packets: the list of all that were announced, with   *)
(* the destination each was given and the words each consists of. The      *)
(* lookup, procStream and the network stand at positions in that list.     *)

(* g holds the sizes of the first packets of a message, up to n of them.   *)
SizesUpto(s, m, n, g) ==
  /\ DOMAIN g = 0 .. n /\ g[0] = 0
  /\ \A p \in 1 .. n : g[p] = Messages[s][m][p] + g[p - 1]

(* There are such sizes, and they are determined.                          *)
LEMMA SizesExist ==
  ASSUME NEW s, NEW m PROVE \A n \in Nat : \E g : SizesUpto(s, m, n, g)
<1>1. PICK S : S = {n \in Nat : \E g : SizesUpto(s, m, n, g)}
  OBVIOUS
<1>2. 0 \in S
  <2>1. SizesUpto(s, m, 0, [p \in 0 .. 0 |-> 0])
    BY DEF SizesUpto
  <2>2. QED
    BY <1>1, <2>1
<1>3. ASSUME NEW n \in S PROVE n + 1 \in S
  <2>1. n \in Nat /\ \E g : SizesUpto(s, m, n, g)
    BY <1>1, <1>3
  <2>2. PICK g : SizesUpto(s, m, n, g)
    BY <2>1
  <2>3. PICK h : h = [p \in 0 .. n + 1 |-> IF p = n + 1 THEN Messages[s][m][p] + g[n] ELSE g[p]]
    OBVIOUS
  <2>4. SizesUpto(s, m, n + 1, h)
    BY <2>1, <2>2, <2>3 DEF SizesUpto
  <2>5. QED
    BY <1>1, <2>1, <2>4
<1>4. S \in SUBSET Nat /\ \A n \in S : n + 1 \in S
  BY <1>1, <1>3
<1>5. \A n \in Nat : n \in S
  BY <1>2, <1>4, Induction
<1>6. QED
  BY <1>1, <1>5

LEMMA SizesAgree ==
  ASSUME NEW s, NEW m, NEW j \in Nat, NEW k \in Nat, NEW g, SizesUpto(s, m, j, g),
         NEW h, SizesUpto(s, m, k, h)
  PROVE  \A n \in Nat : n <= j /\ n <= k => g[n] = h[n]
<1>1. PICK S : S = {n \in Nat : n <= j /\ n <= k => g[n] = h[n]}
  OBVIOUS
<1>2. 0 \in S
  BY <1>1 DEF SizesUpto
<1>3. ASSUME NEW n \in S PROVE n + 1 \in S
  BY <1>1, <1>3 DEF SizesUpto
<1>4. S \in SUBSET Nat /\ \A n \in S : n + 1 \in S
  BY <1>1, <1>3
<1>5. \A n \in Nat : n \in S
  BY <1>2, <1>4, Induction
<1>6. QED
  BY <1>1, <1>5

(* They are those that procStream and the network use.                     *)
LEMMA SizeUnfold ==
  ASSUME NEW s, NEW m
  PROVE  \A p \in Nat :
           Size(s, m, p) = IF p = 0 THEN 0 ELSE Messages[s][m][p] + Size(s, m, p - 1)
<1> DEFINE G(p) == CHOOSE g : SizesUpto(s, m, p, g)
<1> DEFINE F == [p \in Nat |-> G(p)[p]]
<1>1. ASSUME NEW p \in Nat
      PROVE  G(p)[p] = IF p = 0 THEN 0 ELSE Messages[s][m][p] + G(p - 1)[p - 1]
  <2>1. SizesUpto(s, m, p, G(p))
    BY SizesExist
  <2>2. CASE p = 0
    BY <2>1, <2>2 DEF SizesUpto
  <2>3. CASE p # 0
    <3>1. p - 1 \in Nat /\ p - 1 <= p /\ p \in 1 .. p
      BY <2>3
    <3>2. SizesUpto(s, m, p - 1, G(p - 1))
      BY <3>1, SizesExist
    <3> HIDE DEF G
    <3>3. G(p)[p - 1] = G(p - 1)[p - 1]
      BY <2>1, <3>1, <3>2, SizesAgree
    <3>4. G(p)[p] = Messages[s][m][p] + G(p)[p - 1]
      BY <2>1, <3>1 DEF SizesUpto
    <3>5. QED
      BY <2>3, <3>3, <3>4
  <2>4. QED
    BY <2>2, <2>3
<1> HIDE DEF G
<1>2. F = [p \in Nat |-> IF p = 0 THEN 0 ELSE Messages[s][m][p] + F[p - 1]]
  BY <1>1
<1> HIDE DEF F
<1>3. PICK z : z = CHOOSE f : f = [p \in Nat |-> IF p = 0 THEN 0 ELSE Messages[s][m][p] + f[p - 1]]
  OBVIOUS
<1>4. z = [p \in Nat |-> IF p = 0 THEN 0 ELSE Messages[s][m][p] + z[p - 1]]
  BY <1>2, <1>3
<1>5. \A p \in Nat : Size(s, m, p) = z[p]
  BY <1>3 DEF Size
<1>6. QED
  BY <1>4, <1>5

(* A message is cut into the words of its packets.                         *)
LEMMA MessageFacts ==
  ASSUME NEW s \in Sessions, NEW m \in 1 .. Len(Messages[s])
  PROVE  /\ Len(Messages[s][m]) \in Nat \ {0}
         /\ \A k \in 1 .. Len(Messages[s][m]) : Messages[s][m][k] \in Nat \ {0}
<1>1. Messages[s] \in Seq(Seq(Nat \ {0}) \ {<<>>})
  BY MuxAssumption
<1>2. PICK q : q = Messages[s][m] /\ q \in Seq(Nat \ {0}) /\ q # <<>>
  BY <1>1
<1>3. Len(q) \in Nat \ {0} /\ \A k \in 1 .. Len(q) : q[k] \in Nat \ {0}
  BY <1>2
<1>4. QED
  BY <1>2, <1>3

(* Each packet of a message makes it longer.                               *)
LEMMA SizeGrows ==
  ASSUME NEW s \in Sessions, NEW m \in 1 .. Len(Messages[s])
  PROVE  /\ Size(s, m, 0) = 0
         /\ \A k \in Nat : k <= Len(Messages[s][m]) => Size(s, m, k) \in Nat
         /\ \A k \in 1 .. Len(Messages[s][m]) :
              Size(s, m, k) = Size(s, m, k - 1) + Messages[s][m][k]
         /\ \A j, k \in Nat :
              j < k /\ k <= Len(Messages[s][m]) => Size(s, m, j) < Size(s, m, k)
<1>1. PICK n \in Nat \ {0} :
        n = Len(Messages[s][m]) /\ \A k \in 1 .. n : Messages[s][m][k] \in Nat \ {0}
  BY MessageFacts
<1>2. /\ Size(s, m, 0) = 0
      /\ \A k \in Nat \ {0} : Size(s, m, k) = Messages[s][m][k] + Size(s, m, k - 1)
  BY SizeUnfold
<1>3. ASSUME NEW k \in Nat PROVE k <= n => Size(s, m, k) \in Nat
  <2>1. PICK S : S = {i \in Nat : i <= n => Size(s, m, i) \in Nat}
    OBVIOUS
  <2>2. 0 \in S
    BY <1>2, <2>1
  <2>3. ASSUME NEW i \in S PROVE i + 1 \in S
    <3>1. i + 1 \in Nat \ {0} /\ i + 1 - 1 = i /\ i \in Nat
      BY <2>1
    <3>2. Size(s, m, i + 1) = Messages[s][m][i + 1] + Size(s, m, i)
      BY <1>2, <3>1
    <3>3. i + 1 <= n => Messages[s][m][i + 1] \in Nat /\ Size(s, m, i) \in Nat
      BY <1>1, <2>1, <3>1
    <3>4. QED
      BY <2>1, <3>1, <3>2, <3>3
  <2>4. S \in SUBSET Nat /\ \A i \in S : i + 1 \in S
    BY <2>1, <2>3
  <2>5. k \in S
    BY <2>2, <2>4, Induction
  <2>6. QED
    BY <2>1, <2>5
<1>4. ASSUME NEW k \in 1 .. n PROVE Size(s, m, k) = Size(s, m, k - 1) + Messages[s][m][k]
  <2>1. k \in Nat \ {0} /\ k - 1 \in Nat /\ k - 1 <= n
    BY <1>4
  <2>2. Messages[s][m][k] \in Nat /\ Size(s, m, k - 1) \in Nat
    BY <1>1, <1>3, <1>4, <2>1
  <2>3. QED
    BY <1>2, <2>1, <2>2
<1>5. ASSUME NEW j \in Nat, NEW k \in Nat, j < k, k <= n PROVE Size(s, m, j) < Size(s, m, k)
  <2>1. PICK S : S = {i \in Nat : j + 1 + i <= n => Size(s, m, j) < Size(s, m, j + 1 + i)}
    OBVIOUS
  <2>2. ASSUME NEW i \in Nat, i + 1 <= n
        PROVE  Size(s, m, i) < Size(s, m, i + 1) /\ Size(s, m, i) \in Nat
               /\ Size(s, m, i + 1) \in Nat
    <3>1. i + 1 \in 1 .. n /\ i + 1 - 1 = i
      BY <2>2
    <3>2. Size(s, m, i + 1) = Size(s, m, i) + Messages[s][m][i + 1]
      BY <1>4, <3>1
    <3>3. Messages[s][m][i + 1] \in Nat \ {0} /\ Size(s, m, i) \in Nat
      BY <1>1, <1>3, <2>2, <3>1
    <3>4. QED
      BY <3>2, <3>3
  <2>3. 0 \in S
    <3>1. j + 1 + 0 = j + 1
      OBVIOUS
    <3>2. QED
      BY <2>1, <2>2, <3>1
  <2>4. ASSUME NEW i \in S PROVE i + 1 \in S
    <3>1. PICK l \in Nat : l = j + 1 + i /\ l + 1 = j + 1 + (i + 1) /\ i \in Nat /\ i + 1 \in Nat
      BY <2>1
    <3>2. l + 1 <= n => Size(s, m, j) < Size(s, m, l) /\ Size(s, m, l) < Size(s, m, l + 1)
                        /\ Size(s, m, l) \in Nat /\ Size(s, m, l + 1) \in Nat
      BY <2>1, <2>2, <3>1
    <3>3. l + 1 <= n => Size(s, m, j) < Size(s, m, l + 1)
      <4>1. l + 1 <= n => Size(s, m, j) \in Nat
        BY <1>3, <3>1
      <4>2. QED
        BY <3>2, <4>1
    <3>4. QED
      BY <2>1, <3>1, <3>3
  <2>5. S \in SUBSET Nat /\ \A i \in S : i + 1 \in S
    BY <2>1, <2>4
  <2>6. k - j - 1 \in Nat /\ j + 1 + (k - j - 1) = k
    BY <1>5
  <2>7. k - j - 1 \in S
    BY <2>3, <2>5, <2>6, Induction
  <2>8. QED
    BY <1>5, <2>1, <2>6, <2>7
<1>6. QED
  BY <1>1, <1>2, <1>3, <1>4, <1>5

-----------------------------------------------------------------------------
(* A packet: which of which message of its session.                        *)
IsPacket(p) ==
  /\ p \in [session : Sessions, msg : Nat, pkt : Nat]
  /\ p.msg \in 1 .. Len(Messages[p.session])
  /\ p.pkt \in 1 .. Len(Messages[p.session][p.msg])

(* Its length, and the words of its message before it, up to it, in all.   *)
PktLen(p) == Messages[p.session][p.msg][p.pkt]
Before(p) == Size(p.session, p.msg, p.pkt - 1)
Upto(p)   == Size(p.session, p.msg, p.pkt)
Whole(p)  == MsgSize(p.session, p.msg)

Starts(p) == p.pkt = 1
Ends(p)   == p.pkt = Len(Messages[p.session][p.msg])

Continues(p, q) == q.session = p.session /\ q.msg = p.msg /\ q.pkt = p.pkt + 1
Follows(p, q)   == Continues(p, q) \/ (Ends(p) /\ Starts(q))

(* What a session sends after packet p.                                    *)
NextOf(p) == IF Ends(p) THEN [msg |-> p.msg + 1, pkt |-> 1]
             ELSE [msg |-> p.msg, pkt |-> p.pkt + 1]
PlaceOf(p) == [msg |-> p.msg, pkt |-> p.pkt]

(* Packet l is the latest of the first n of session s, or at destination d.*)
LatestOf(ps, s, n, l) ==
  l \in 1 .. n /\ ps[l].session = s /\ \A j \in l + 1 .. n : ps[j].session # s
LatestAt(ds, d, n, l) ==
  l \in 1 .. n /\ ds[l] = d /\ \A j \in l + 1 .. n : ds[j] # d
NoneOf(ps, s, n) == \A j \in 1 .. n : ps[j].session # s
NoneAt(ds, d, n) == \A j \in 1 .. n : ds[j] # d

(* Each session sends its packets in order.                                *)
InOrder(ps, n) ==
  \A k \in 1 .. n :
    /\ IsPacket(ps[k])
    /\ \A l \in 1 .. k - 1 : LatestOf(ps, ps[k].session, k - 1, l) => PlaceOf(ps[k]) = NextOf(ps[l])
    /\ NoneOf(ps, ps[k].session, k - 1) => Starts(ps[k])

(* What was given to a destination is, one after the other, messages.      *)
Given(ps, ds, a) ==
  \A k \in 1 .. a :
    /\ ds[k] \in Dests
    /\ \A l \in 1 .. k - 1 : LatestAt(ds, ds[k], k - 1, l) => Follows(ps[l], ps[k])
    /\ NoneAt(ds, ds[k], k - 1) => Starts(ps[k])

(* The network goes on where a session's latest packet ends.               *)
Announced(ps, n) ==
  /\ DOMAIN next = Sessions
  /\ \A s \in Sessions :
       /\ \A l \in 1 .. n : LatestOf(ps, s, n, l) => next[s] = NextOf(ps[l])
       /\ NoneOf(ps, s, n) => next[s] = [msg |-> 1, pkt |-> 1]

Request(p) == [session |-> p.session, pktLen |-> PktLen(p)]
LookedUp == lookup \in {"HIT_RESP", "MISS_RESP"}

(* The packets after the answered ones, up to the last one, are requested. *)
Requested(ps, n, a) ==
  /\ IsSeq(reqQ)
  /\ LookedUp => /\ n = a + 1 + Len(reqQ) /\ req = Request(ps[a + 1])
               /\ \A i \in 1 .. Len(reqQ) : reqQ[i] = Request(ps[a + 1 + i])
  /\ ~ LookedUp => /\ n = a + Len(reqQ)
                 /\ \A i \in 1 .. Len(reqQ) : reqQ[i] = Request(ps[a + i])

Answer(p, d) == [hit |-> ~ Starts(p), isLastPkt |-> ~ Starts(p) /\ Ends(p), dest |-> d,
                 session |-> p.session, pktLen |-> PktLen(p)]

(* The packets after the current one, up to the last answered one.         *)
Answers(ps, ds, a, c) ==
  /\ a = c + Len(respQ)
  /\ \A i \in 1 .. Len(respQ) : respQ[i] = Answer(ps[c + i], ds[c + i])
  /\ c > 0 => resp = Answer(ps[c], ds[c])

(* What the table knows of the packets that were answered.                 *)
EntryRight(ps, ds, a) ==
  \A d \in Used : \E l \in 1 .. a :
    /\ LatestAt(ds, d, a, l) /\ LatestOf(ps, sessionOf[d], a, l) /\ ~ Ends(ps[l])
    /\ total[d] = Whole(ps[l]) /\ rcvd[d] = Upto(ps[l])
FreeComplete(ps, ds, a) ==
  \A d \in Free : \A l \in 1 .. a : LatestAt(ds, d, a, l) => Ends(ps[l])
NoEntryComplete(ps, a) ==
  \A s \in Sessions :
    Entries(s) = {} /\ ~ (lookup = "UPDATE" /\ req.session = s)
      => \A l \in 1 .. a : LatestOf(ps, s, a, l) => Ends(ps[l])

(* The message whose size is not in the table yet.                         *)
SizeAwaited(ps, ds, a) ==
  /\ lookup = "IDLE" => a = 0
  /\ lookup = "UPDATE" =>
       /\ a > 0 /\ Starts(ps[a]) /\ req.session = ps[a].session
       /\ updQ # <<>> =>
            updQ[1] = [msgSize |-> Whole(ps[a]), session |-> ps[a].session,
                       dest |-> ds[a], pktLen |-> PktLen(ps[a])]

(* The words of the packets, in a row: word i of all is word wd[i] of the  *)
(* message of packet pk[i].                                                *)
LastAt(ps, pk, wd, i) == wd[i] = Upto(ps[pk[i]])
Cut(ps, n, pk, wd, e) ==
  /\ \A i \in 1 .. e :
       /\ pk[i] \in 1 .. n /\ wd[i] \in Nat
       /\ wd[i] > Before(ps[pk[i]]) /\ wd[i] <= Upto(ps[pk[i]])
  /\ e > 0 => pk[1] = 1 /\ wd[1] = Before(ps[1]) + 1
  /\ \A i \in 1 .. e - 1 :
       IF LastAt(ps, pk, wd, i) THEN pk[i + 1] = pk[i] + 1 /\ wd[i + 1] = Before(ps[pk[i] + 1]) + 1
       ELSE pk[i + 1] = pk[i] /\ wd[i + 1] = wd[i] + 1
  /\ IF n = 0 THEN e = 0 ELSE e > 0 /\ pk[e] = n /\ LastAt(ps, pk, wd, e)

WordAt(ps, pk, wd, i) ==
  [session |-> ps[pk[i]].session, msg |-> ps[pk[i]].msg, word |-> wd[i],
   last |-> LastAt(ps, pk, wd, i)]

Arriving(ps, pk, wd, e, f) ==
  /\ IsSeq(inQ) /\ IsSeq(sending) /\ e = f + Len(inQ) + Len(sending)
  /\ \A i \in 1 .. Len(inQ) : inQ[i] = WordAt(ps, pk, wd, f + i)
  /\ \A i \in 1 .. Len(sending) : sending[i] = WordAt(ps, pk, wd, f + Len(inQ) + i)

(* f words are forwarded, up to a word of packet c.                        *)
Forwarded(ps, pk, wd, f, c) ==
  /\ c = IF f = 0 THEN 0 ELSE pk[f]
  /\ proc = IF f = 0 \/ LastAt(ps, pk, wd, f) THEN "WAIT_STREAM" ELSE "CONSUME"

(* Each destination has the words of its packets up to there.              *)
Written(ps, ds, pk, wd, f, c) ==
  /\ DOMAIN cur = Dests
  /\ \A d \in Dests :
       /\ \A l \in 1 .. c : LatestAt(ds, d, c, l) =>
            cur[d] = [session |-> ps[l].session, msg |-> ps[l].msg,
                      word |-> IF l = c THEN wd[f] ELSE Upto(ps[l])]
       /\ NoneAt(ds, d, c) => cur[d] = Nothing

-----------------------------------------------------------------------------

LEMMA PacketFacts ==
  ASSUME NEW p, IsPacket(p)
  PROVE  /\ p.session \in Sessions /\ p.msg \in Nat /\ p.pkt \in Nat
         /\ Before(p) \in Nat /\ PktLen(p) \in Nat \ {0} /\ Upto(p) = Before(p) + PktLen(p)
         /\ Upto(p) \in Nat /\ Whole(p) \in Nat /\ Upto(p) <= Whole(p)
         /\ Upto(p) = Whole(p) <=> Ends(p)
         /\ Before(p) = 0 <=> Starts(p)
<1>1. PICK s \in Sessions, m \in Nat, k \in Nat :
        /\ s = p.session /\ m = p.msg /\ k = p.pkt
        /\ m \in 1 .. Len(Messages[s]) /\ k \in 1 .. Len(Messages[s][m])
  BY DEF IsPacket
<1>2. PICK n \in Nat \ {0} :
        n = Len(Messages[s][m]) /\ \A j \in 1 .. n : Messages[s][m][j] \in Nat \ {0}
  BY <1>1, MessageFacts
<1>3. /\ Size(s, m, 0) = 0
      /\ \A j \in Nat : j <= n => Size(s, m, j) \in Nat
      /\ \A j \in 1 .. n : Size(s, m, j) = Size(s, m, j - 1) + Messages[s][m][j]
      /\ \A i, j \in Nat : i < j /\ j <= n => Size(s, m, i) < Size(s, m, j)
  BY <1>1, <1>2, SizeGrows
<1>4. k \in 1 .. n /\ k - 1 \in Nat /\ k - 1 <= n /\ k <= n
  BY <1>1, <1>2
<1>5. /\ Before(p) = Size(s, m, k - 1) /\ Upto(p) = Size(s, m, k)
      /\ Whole(p) = Size(s, m, n) /\ PktLen(p) = Messages[s][m][k]
      /\ (Ends(p) <=> k = n) /\ (Starts(p) <=> k = 1)
  BY <1>1, <1>2 DEF Before, Upto, Whole, PktLen, Ends, Starts, MsgSize
<1>6. /\ Before(p) \in Nat /\ PktLen(p) \in Nat \ {0} /\ Upto(p) = Before(p) + PktLen(p)
      /\ Upto(p) \in Nat /\ Whole(p) \in Nat
  BY <1>2, <1>3, <1>4, <1>5
<1>7. k # n => Size(s, m, k) < Size(s, m, n)
  BY <1>2, <1>3, <1>4
<1>8. k # 1 => Size(s, m, 0) < Size(s, m, k - 1)
  <2>1. k # 1 => 0 < k - 1
    BY <1>4
  <2>2. QED
    BY <1>3, <1>4, <2>1
<1>9. k = 1 => Size(s, m, k - 1) = 0
  BY <1>3
<1>10. Upto(p) <= Whole(p) /\ (Upto(p) = Whole(p) <=> Ends(p))
  <2>1. k = n => Size(s, m, k) = Size(s, m, n)
    OBVIOUS
  <2>2. PICK u \in Nat, w \in Nat : u = Upto(p) /\ w = Whole(p)
    BY <1>6
  <2>3. (Ends(p) => u = w) /\ (~ Ends(p) => u < w)
    BY <1>5, <1>7, <2>1, <2>2
  <2>4. QED
    BY <2>2, <2>3
<1>11. Before(p) = 0 <=> Starts(p)
  BY <1>3, <1>5, <1>6, <1>8, <1>9
<1>12. QED
  BY <1>1, <1>6, <1>10, <1>11

LEMMA ContinueFacts ==
  ASSUME NEW p, IsPacket(p), NEW q, IsPacket(q), Continues(p, q)
  PROVE  /\ Before(q) = Upto(p) /\ Whole(q) = Whole(p)
         /\ q.session = p.session /\ q.msg = p.msg /\ ~ Starts(q) /\ ~ Ends(p)
<1>1. PICK k \in Nat : k = p.pkt /\ q.pkt = k + 1 /\ k >= 1
  BY DEF IsPacket, Continues
<1>2. q.pkt - 1 = p.pkt /\ q.pkt # 1
  BY <1>1
<1>3. q.session = p.session /\ q.msg = p.msg
  BY DEF Continues
<1>4. ~ Ends(p)
  <2>1. q.pkt <= Len(Messages[p.session][p.msg]) /\ Len(Messages[p.session][p.msg]) \in Nat
    BY <1>3, MessageFacts DEF IsPacket
  <2>2. QED
    BY <1>1, <2>1 DEF Ends
<1>5. QED
  BY <1>2, <1>3, <1>4 DEF Before, Upto, Whole, Starts

(* The packet that a session sends after another.                          *)
LEMMA NextFacts ==
  ASSUME NEW p, IsPacket(p), NEW q, IsPacket(q), q.session = p.session,
         PlaceOf(q) = NextOf(p)
  PROVE  IF Ends(p) THEN Starts(q) ELSE Continues(p, q)
<1>1. CASE Ends(p)
  <2>1. [msg |-> q.msg, pkt |-> q.pkt] = [msg |-> p.msg + 1, pkt |-> 1]
    BY <1>1 DEF PlaceOf, NextOf
  <2>2. q.pkt = 1
    BY <2>1
  <2>3. QED
    BY <1>1, <2>2 DEF Starts
<1>2. CASE ~ Ends(p)
  <2>1. [msg |-> q.msg, pkt |-> q.pkt] = [msg |-> p.msg, pkt |-> p.pkt + 1]
    BY <1>2 DEF PlaceOf, NextOf
  <2>2. q.msg = p.msg /\ q.pkt = p.pkt + 1
    BY <2>1
  <2>3. QED
    BY <1>2, <2>2 DEF Continues
<1>3. QED
  BY <1>1, <1>2

-----------------------------------------------------------------------------
(* The latest packets.                                                     *)

LEMMA Latest ==
  ASSUME NEW S, NEW n \in Nat, S \subseteq 1 .. n, S # {}
  PROVE  \E l \in S : \A j \in S : j <= l
<1>1. PICK T : T = {n - l : l \in S}
  OBVIOUS
<1>2. T \in SUBSET Nat /\ T # {}
  <2>1. \A l \in S : n - l \in Nat
    OBVIOUS
  <2>2. QED
    BY <1>1, <2>1
<1>3. PICK i \in T : \A j \in T : i <= j
  BY <1>2, LeastNumber
<1>4. PICK l \in S : i = n - l
  BY <1>1, <1>3
<1>5. ASSUME NEW j \in S PROVE j <= l
  <2>1. n - j \in T
    BY <1>1
  <2>2. n - l <= n - j
    BY <1>3, <1>4, <2>1
  <2>3. QED
    BY <2>2
<1>6. QED
  BY <1>5

LEMMA SomeOf ==
  ASSUME NEW ps, NEW s, NEW n \in Nat
  PROVE  NoneOf(ps, s, n) \/ \E l \in 1 .. n : LatestOf(ps, s, n, l)
<1>1. PICK S : S = {l \in 1 .. n : ps[l].session = s}
  OBVIOUS
<1>2. CASE S = {}
  BY <1>1, <1>2 DEF NoneOf
<1>3. CASE S # {}
  <2>1. PICK l \in S : \A j \in S : j <= l
    BY <1>1, <1>3, Latest
  <2>2. ASSUME NEW j \in l + 1 .. n PROVE ps[j].session # s
    <3>1. l \in Nat /\ j \in 1 .. n /\ ~ (j <= l)
      BY <1>1, <2>2
    <3>2. QED
      BY <1>1, <2>1, <3>1
  <2>3. QED
    BY <1>1, <2>1, <2>2 DEF LatestOf
<1>4. QED
  BY <1>2, <1>3

LEMMA SomeAt ==
  ASSUME NEW ds, NEW d, NEW n \in Nat
  PROVE  NoneAt(ds, d, n) \/ \E l \in 1 .. n : LatestAt(ds, d, n, l)
<1>1. PICK S : S = {l \in 1 .. n : ds[l] = d}
  OBVIOUS
<1>2. CASE S = {}
  BY <1>1, <1>2 DEF NoneAt
<1>3. CASE S # {}
  <2>1. PICK l \in S : \A j \in S : j <= l
    BY <1>1, <1>3, Latest
  <2>2. ASSUME NEW j \in l + 1 .. n PROVE ds[j] # d
    <3>1. l \in Nat /\ j \in 1 .. n /\ ~ (j <= l)
      BY <1>1, <2>2
    <3>2. QED
      BY <1>1, <2>1, <3>1
  <2>3. QED
    BY <1>1, <2>1, <2>2 DEF LatestAt
<1>4. QED
  BY <1>2, <1>3

(* One packet more.                                                        *)
LEMMA MoreOf ==
  ASSUME NEW ps, NEW n \in Nat \ {0}
  PROVE  /\ \A l : LatestOf(ps, ps[n].session, n, l) <=> l = n
         /\ ~ NoneOf(ps, ps[n].session, n)
         /\ \A s : s # ps[n].session =>
              /\ \A l : LatestOf(ps, s, n, l) <=> LatestOf(ps, s, n - 1, l)
              /\ NoneOf(ps, s, n) <=> NoneOf(ps, s, n - 1)
<1>1. PICK m \in Nat : m = n - 1 /\ n = m + 1
  OBVIOUS
<1>2. \A j : j \in 1 .. n <=> j \in 1 .. m \/ j = n
  BY <1>1
<1>3. ASSUME NEW l \in 1 .. m
      PROVE  \A j : j \in l + 1 .. n <=> j \in l + 1 .. m \/ j = n
  BY <1>1
<1>4. \A j : j \notin n + 1 .. n
  OBVIOUS
<1>5. n \notin 1 .. m
  BY <1>1
<1>6. QED
  BY <1>1, <1>2, <1>3, <1>4, <1>5 DEF LatestOf, NoneOf

LEMMA MoreAt ==
  ASSUME NEW ds, NEW n \in Nat \ {0}
  PROVE  /\ \A l : LatestAt(ds, ds[n], n, l) <=> l = n
         /\ ~ NoneAt(ds, ds[n], n)
         /\ \A d : d # ds[n] =>
              /\ \A l : LatestAt(ds, d, n, l) <=> LatestAt(ds, d, n - 1, l)
              /\ NoneAt(ds, d, n) <=> NoneAt(ds, d, n - 1)
<1>1. PICK m \in Nat : m = n - 1 /\ n = m + 1
  OBVIOUS
<1>2. \A j : j \in 1 .. n <=> j \in 1 .. m \/ j = n
  BY <1>1
<1>3. ASSUME NEW l \in 1 .. m
      PROVE  \A j : j \in l + 1 .. n <=> j \in l + 1 .. m \/ j = n
  BY <1>1
<1>4. \A j : j \notin n + 1 .. n
  OBVIOUS
<1>5. n \notin 1 .. m
  BY <1>1
<1>6. QED
  BY <1>1, <1>2, <1>3, <1>4, <1>5 DEF LatestAt, NoneAt

(* What is latest depends on the packets so far.                           *)
LEMMA SameOf ==
  ASSUME NEW ps, NEW qs, NEW n \in Nat, \A k \in 1 .. n : qs[k] = ps[k],
         NEW m \in Nat, m <= n, NEW s
  PROVE  /\ \A l : LatestOf(qs, s, m, l) <=> LatestOf(ps, s, m, l)
         /\ NoneOf(qs, s, m) <=> NoneOf(ps, s, m)
<1>1. \A k \in 1 .. m : qs[k] = ps[k]
  OBVIOUS
<1>2. \A l \in 1 .. m : \A j \in l + 1 .. m : j \in 1 .. m
  OBVIOUS
<1>3. QED
  BY <1>1, <1>2 DEF LatestOf, NoneOf

LEMMA SameAt ==
  ASSUME NEW ds, NEW es, NEW n \in Nat, \A k \in 1 .. n : es[k] = ds[k],
         NEW m \in Nat, m <= n, NEW d
  PROVE  /\ \A l : LatestAt(es, d, m, l) <=> LatestAt(ds, d, m, l)
         /\ NoneAt(es, d, m) <=> NoneAt(ds, d, m)
<1>1. \A k \in 1 .. m : es[k] = ds[k]
  OBVIOUS
<1>2. \A l \in 1 .. m : \A j \in l + 1 .. m : j \in 1 .. m
  OBVIOUS
<1>3. QED
  BY <1>1, <1>2 DEF LatestAt, NoneAt

-----------------------------------------------------------------------------
(* n packets were announced, a of them answered; the words of c were       *)
(* forwarded or are being forwarded, f words of e.                         *)

Past(ps, ds, pk, wd, n, a, c, e, f) ==
  /\ n \in Nat /\ a \in Nat /\ c \in Nat /\ e \in Nat /\ f \in Nat
  /\ c <= a /\ a <= n /\ f <= e
  /\ InOrder(ps, n) /\ Given(ps, ds, a) /\ Cut(ps, n, pk, wd, e)

LookupRight(ps, ds, n, a) ==
  /\ Announced(ps, n) /\ Requested(ps, n, a)
  /\ EntryRight(ps, ds, a) /\ FreeComplete(ps, ds, a) /\ NoEntryComplete(ps, a)
  /\ SizeAwaited(ps, ds, a)

ProcRight(ps, ds, pk, wd, a, c, e, f) ==
  /\ Answers(ps, ds, a, c) /\ Arriving(ps, pk, wd, e, f)
  /\ Forwarded(ps, pk, wd, f, c) /\ Written(ps, ds, pk, wd, f, c)

Story ==
  \E ps, ds, pk, wd, n, a, c, e, f :
    /\ Past(ps, ds, pk, wd, n, a, c, e, f)
    /\ LookupRight(ps, ds, n, a) /\ ProcRight(ps, ds, pk, wd, a, c, e, f)

LEMMA StoryStart == MuxInit => Story
<1> SUFFICES ASSUME MuxInit PROVE Story
  OBVIOUS
<1>1. PICK q : q = <<>>
  OBVIOUS
<1>2. /\ \A k : k \notin 1 .. 0
      /\ \A k : k \notin 1 .. 0 - 1
  OBVIOUS
<1>3. Past(q, q, q, q, 0, 0, 0, 0, 0)
  BY <1>2 DEF Past, InOrder, Given, Cut
<1>4. IsSeq(<<>>) /\ Len(<<>>) = 0
  BY EmptyFacts
<1>5. LookupRight(q, q, 0, 0)
  <2>1. /\ lookup = "IDLE" /\ reqQ = <<>> /\ valid = [d \in Dests |-> FALSE]
        /\ next = [s \in Sessions |-> [msg |-> 1, pkt |-> 1]]
    BY DEF MuxInit
  <2>2. Announced(q, 0)
    BY <1>2, <2>1 DEF Announced, LatestOf
  <2>3. Requested(q, 0, 0)
    BY <1>2, <1>4, <2>1 DEF Requested, LookedUp
  <2>4. EntryRight(q, q, 0)
    BY <2>1 DEF EntryRight, Used
  <2>5. FreeComplete(q, q, 0) /\ NoEntryComplete(q, 0)
    BY <1>2 DEF FreeComplete, NoEntryComplete
  <2>6. SizeAwaited(q, q, 0)
    BY <2>1 DEF SizeAwaited
  <2>7. QED
    BY <2>2, <2>3, <2>4, <2>5, <2>6 DEF LookupRight
<1>6. ProcRight(q, q, q, q, 0, 0, 0, 0)
  <2>1. /\ respQ = <<>> /\ inQ = <<>> /\ sending = <<>> /\ proc = "WAIT_STREAM"
        /\ cur = [d \in Dests |-> Nothing]
    BY DEF MuxInit
  <2>2. Answers(q, q, 0, 0) /\ Arriving(q, q, q, 0, 0)
    BY <1>2, <1>4, <2>1 DEF Answers, Arriving
  <2>3. Forwarded(q, q, q, 0, 0) /\ Written(q, q, q, q, 0, 0)
    BY <1>2, <2>1 DEF Forwarded, Written
  <2>4. QED
    BY <2>2, <2>3 DEF ProcRight
<1>7. QED
  BY <1>3, <1>5, <1>6 DEF Story

-----------------------------------------------------------------------------
(* What the two processes leave to each other.                             *)

LEMMA ProcSame ==
  ASSUME NEW ps, NEW ds, NEW pk, NEW wd, NEW a, NEW c, NEW e, NEW f,
         ProcRight(ps, ds, pk, wd, a, c, e, f),
         UNCHANGED <<respQ, procVars, inQ, sending>>
  PROVE  ProcRight(ps, ds, pk, wd, a, c, e, f)'
<1>1. UNCHANGED <<respQ, proc, resp, cur, inQ, sending>>
  BY DEF procVars
<1>2. QED
  BY <1>1 DEF ProcRight, Answers, Arriving, Forwarded, Written

LEMMA LookupSame ==
  ASSUME NEW ps, NEW ds, NEW n, NEW a, LookupRight(ps, ds, n, a),
         UNCHANGED <<lookupVars, reqQ, updQ, next>>
  PROVE  LookupRight(ps, ds, n, a)'
<1>1. /\ UNCHANGED <<lookup, valid, sessionOf, total, rcvd, freeDest, req, reqQ, updQ, next>>
      /\ Used' = Used /\ Free' = Free /\ \A s : Entries(s)' = Entries(s)
  BY DEF lookupVars, table, Used, Free, Entries
<1>2. Announced(ps, n)' /\ Requested(ps, n, a)'
  BY <1>1 DEF LookupRight, Announced, Requested, LookedUp
<1>3. EntryRight(ps, ds, a)' /\ FreeComplete(ps, ds, a)' /\ NoEntryComplete(ps, a)'
  BY <1>1 DEF LookupRight, EntryRight, FreeComplete, NoEntryComplete
<1>4. SizeAwaited(ps, ds, a)'
  BY <1>1 DEF LookupRight, SizeAwaited
<1>5. QED
  BY <1>2, <1>3, <1>4 DEF LookupRight

(* Initialising the destinations.                                          *)
LEMMA PopulateStory ==
  ASSUME NEW ps, NEW ds, NEW n \in Nat, NEW a \in Nat, LookupRight(ps, ds, n, a), Populate
  PROVE  LookupRight(ps, ds, n, a)'
<1>1. /\ lookup = "IDLE" /\ lookup' \in {"IDLE", "REQ"}
      /\ UNCHANGED <<valid, sessionOf, total, rcvd, req, reqQ, updQ, next>>
  BY DEF Populate, netVars
<1>2. a = 0 /\ \A k : k \notin 1 .. a
  BY <1>1 DEF LookupRight, SizeAwaited
<1>3. Announced(ps, n)' /\ Requested(ps, n, a)'
  BY <1>1 DEF LookupRight, Announced, Requested, LookedUp
<1>4. EntryRight(ps, ds, a)'
  BY <1>1, <1>2 DEF LookupRight, EntryRight, Used
<1>5. FreeComplete(ps, ds, a)' /\ NoEntryComplete(ps, a)' /\ SizeAwaited(ps, ds, a)'
  BY <1>1, <1>2 DEF FreeComplete, NoEntryComplete, SizeAwaited
<1>6. QED
  BY <1>3, <1>4, <1>5 DEF LookupRight

(* A request is looked up.                                                 *)
LEMMA ReqStory ==
  ASSUME NEW ps, NEW ds, NEW n \in Nat, NEW a \in Nat, LookupRight(ps, ds, n, a), Req
  PROVE  LookupRight(ps, ds, n, a)'
<1>1. /\ lookup = "REQ" /\ lookup' \in {"HIT_RESP", "MISS_RESP"} /\ reqQ # <<>>
      /\ req' = Head(reqQ) /\ reqQ' = Tail(reqQ)
      /\ UNCHANGED <<valid, sessionOf, total, rcvd, freeDest, updQ, next>>
  BY DEF Req, table, netVars
<1>2. /\ IsSeq(reqQ) /\ n = a + Len(reqQ)
      /\ \A i \in 1 .. Len(reqQ) : reqQ[i] = Request(ps[a + i])
  BY <1>1 DEF LookupRight, Requested, LookedUp
<1>3. PICK q : /\ q = Tail(reqQ) /\ IsSeq(q) /\ Len(q) = Len(reqQ) - 1
               /\ Len(reqQ) \in Nat \ {0} /\ Head(reqQ) = reqQ[1]
               /\ \A i \in 1 .. Len(reqQ) - 1 : q[i] = reqQ[i + 1]
  BY <1>1, <1>2, TailFacts
<1>4. Requested(ps, n, a)'
  <2>1. n = a + 1 + Len(q) /\ req' = Request(ps[a + 1])
    BY <1>1, <1>2, <1>3
  <2>2. ASSUME NEW i \in 1 .. Len(q) PROVE q[i] = Request(ps[a + 1 + i])
    <3>1. i \in 1 .. Len(reqQ) - 1 /\ i + 1 \in 1 .. Len(reqQ) /\ a + (i + 1) = a + 1 + i
      BY <1>3
    <3>2. QED
      BY <1>2, <1>3, <3>1
  <2>3. QED
    BY <1>1, <1>3, <2>1, <2>2 DEF Requested, LookedUp
<1>5. EntryRight(ps, ds, a)' /\ FreeComplete(ps, ds, a)'
  BY <1>1 DEF LookupRight, EntryRight, FreeComplete, Used, Free
<1>6. NoEntryComplete(ps, a)'
  BY <1>1 DEF LookupRight, NoEntryComplete, Entries
<1>7. Announced(ps, n)' /\ SizeAwaited(ps, ds, a)'
  BY <1>1 DEF LookupRight, Announced, SizeAwaited
<1>8. QED
  BY <1>4, <1>5, <1>6, <1>7 DEF LookupRight

(* A packet is answered.                                                   *)
LEMMA AnswerStory ==
  ASSUME NEW ps, NEW ds, NEW pk, NEW wd, NEW n, NEW a, NEW c, NEW e, NEW f,
         Past(ps, ds, pk, wd, n, a, c, e, f), ProcRight(ps, ds, pk, wd, a, c, e, f),
         IsSeq(respQ), a + 1 <= n, req = Request(ps[a + 1]),
         NEW d \in Dests, NEW es, es[a + 1] = d, \A k \in 1 .. a : es[k] = ds[k],
         \A l \in 1 .. a : LatestAt(ds, d, a, l) => Follows(ps[l], ps[a + 1]),
         NoneAt(ds, d, a) => Starts(ps[a + 1]),
         NEW h, NEW last, Respond(h, last, d), h = (~ Starts(ps[a + 1])),
         last = (~ Starts(ps[a + 1]) /\ Ends(ps[a + 1])),
         UNCHANGED <<procVars, inQ, sending>>
  PROVE  /\ Past(ps, es, pk, wd, n, a + 1, c, e, f)
         /\ ProcRight(ps, es, pk, wd, a + 1, c, e, f)'
<1>1. n \in Nat /\ a \in Nat /\ c \in Nat /\ c <= a /\ f \in Nat
  BY DEF Past
<1>2. \A m \in Nat : m <= a => \A x :
        /\ \A l : LatestAt(es, x, m, l) <=> LatestAt(ds, x, m, l)
        /\ NoneAt(es, x, m) <=> NoneAt(ds, x, m)
  BY <1>1, SameAt
<1>3. Given(ps, es, a + 1)
  <2>1. ASSUME NEW k \in 1 .. a + 1
        PROVE  /\ es[k] \in Dests
               /\ \A l \in 1 .. k - 1 : LatestAt(es, es[k], k - 1, l) => Follows(ps[l], ps[k])
               /\ NoneAt(es, es[k], k - 1) => Starts(ps[k])
    <3>1. CASE k = a + 1
      <4>1. k - 1 = a
        BY <1>1, <3>1
      <4>2. QED
        BY <1>1, <1>2, <3>1, <4>1
    <3>2. CASE k # a + 1
      <4>1. k \in 1 .. a /\ k - 1 \in Nat /\ k - 1 <= a
        BY <1>1, <3>2
      <4>2. /\ ds[k] \in Dests /\ es[k] = ds[k]
            /\ \A l \in 1 .. k - 1 : LatestAt(ds, ds[k], k - 1, l) => Follows(ps[l], ps[k])
            /\ NoneAt(ds, ds[k], k - 1) => Starts(ps[k])
        BY <4>1 DEF Past, Given
      <4>3. QED
        BY <1>2, <4>1, <4>2
    <3>3. QED
      BY <3>1, <3>2
  <2>2. QED
    BY <2>1 DEF Given
<1>4. Past(ps, es, pk, wd, n, a + 1, c, e, f)
  BY <1>1, <1>3 DEF Past
<1>5. Answers(ps, es, a + 1, c)'
  <2>1. PICK x : x = Answer(ps[a + 1], d)
    OBVIOUS
  <2>2. respQ' = Append(respQ, x)
    <3>1. req.session = ps[a + 1].session /\ req.pktLen = PktLen(ps[a + 1])
      BY DEF Request
    <3>2. QED
      BY <2>1, <3>1 DEF Respond, Answer
  <2>3. /\ a = c + Len(respQ)
        /\ \A i \in 1 .. Len(respQ) : respQ[i] = Answer(ps[c + i], ds[c + i])
        /\ c > 0 => resp = Answer(ps[c], ds[c])
    BY DEF ProcRight, Answers
  <2>4. PICK m \in Nat : /\ m = Len(respQ) /\ Len(respQ') = m + 1
                         /\ \A i \in 1 .. m : respQ'[i] = respQ[i]
                         /\ respQ'[m + 1] = x
    BY <2>2, AppendFacts
  <2>5. a + 1 = c + Len(respQ')
    BY <1>1, <2>3, <2>4
  <2>6. ASSUME NEW i \in 1 .. m + 1 PROVE respQ'[i] = Answer(ps[c + i], es[c + i])
    <3>1. CASE i = m + 1
      <4>1. c + i = a + 1
        BY <1>1, <2>3, <2>4, <3>1
      <4>2. QED
        BY <2>1, <2>4, <3>1, <4>1
    <3>2. CASE i # m + 1
      <4>1. i \in 1 .. m /\ c + i \in 1 .. a
        BY <1>1, <2>3, <2>4, <3>2
      <4>2. QED
        BY <2>3, <2>4, <4>1
    <3>3. QED
      BY <3>1, <3>2
  <2>7. c > 0 => resp' = Answer(ps[c], es[c])
    <3>1. c > 0 => c \in 1 .. a /\ es[c] = ds[c]
      BY <1>1
    <3>2. resp' = resp
      BY DEF procVars
    <3>3. QED
      BY <2>3, <3>1, <3>2
  <2>8. QED
    BY <2>4, <2>5, <2>6, <2>7 DEF Answers
<1>6. Arriving(ps, pk, wd, e, f)' /\ Forwarded(ps, pk, wd, f, c)'
  BY DEF ProcRight, procVars, Arriving, Forwarded
<1>7. Written(ps, es, pk, wd, f, c)'
  <2>1. \A x : /\ \A l : LatestAt(es, x, c, l) <=> LatestAt(ds, x, c, l)
               /\ NoneAt(es, x, c) <=> NoneAt(ds, x, c)
    BY <1>1, <1>2
  <2>2. cur' = cur
    BY DEF procVars
  <2>3. QED
    BY <2>1, <2>2 DEF ProcRight, Written
<1>8. QED
  BY <1>4, <1>5, <1>6, <1>7 DEF ProcRight

(* The packet that is looked up.                                           *)
LEMMA LookedUpFacts ==
  ASSUME NEW ps, NEW ds, NEW pk, NEW wd, NEW n, NEW a, NEW c, NEW e, NEW f,
         Past(ps, ds, pk, wd, n, a, c, e, f), LookupRight(ps, ds, n, a), LookedUp
  PROVE  /\ a + 1 <= n /\ a + 1 \in 1 .. n /\ n \in Nat /\ a \in Nat
         /\ IsSeq(reqQ) /\ n = a + 1 + Len(reqQ)
         /\ \A i \in 1 .. Len(reqQ) : reqQ[i] = Request(ps[a + 1 + i])
         /\ req = Request(ps[a + 1]) /\ req.session = ps[a + 1].session
         /\ req.pktLen = PktLen(ps[a + 1])
         /\ IsPacket(ps[a + 1]) /\ \A k \in 1 .. a : IsPacket(ps[k])
         /\ \A l : LatestOf(ps, ps[a + 1].session, a, l) =>
              /\ l \in 1 .. a
              /\ IF Ends(ps[l]) THEN Starts(ps[a + 1]) ELSE Continues(ps[l], ps[a + 1])
         /\ NoneOf(ps, ps[a + 1].session, a) => Starts(ps[a + 1])
<1>1. n \in Nat /\ a \in Nat /\ a <= n
  BY DEF Past
<1>2. /\ IsSeq(reqQ) /\ n = a + 1 + Len(reqQ) /\ req = Request(ps[a + 1])
      /\ \A i \in 1 .. Len(reqQ) : reqQ[i] = Request(ps[a + 1 + i])
  BY DEF LookupRight, Requested
<1>3. Len(reqQ) \in Nat
  BY <1>2, EmptyFacts
<1>4. a + 1 \in 1 .. n /\ a + 1 - 1 = a
  BY <1>1, <1>2, <1>3
<1>5. \A k \in 1 .. n :
        /\ IsPacket(ps[k])
        /\ \A l \in 1 .. k - 1 :
             LatestOf(ps, ps[k].session, k - 1, l) => PlaceOf(ps[k]) = NextOf(ps[l])
        /\ NoneOf(ps, ps[k].session, k - 1) => Starts(ps[k])
  BY DEF Past, InOrder
<1>6. \A k \in 1 .. a : IsPacket(ps[k])
  BY <1>1, <1>5
<1>7. ASSUME NEW l, LatestOf(ps, ps[a + 1].session, a, l)
      PROVE  /\ l \in 1 .. a
             /\ IF Ends(ps[l]) THEN Starts(ps[a + 1]) ELSE Continues(ps[l], ps[a + 1])
  <2>1. l \in 1 .. a /\ ps[l].session = ps[a + 1].session
    BY <1>7 DEF LatestOf
  <2>2. PICK p, q : p = ps[l] /\ q = ps[a + 1]
    OBVIOUS
  <2>3. PICK k : k = a + 1 /\ k - 1 = a /\ k \in 1 .. n
    BY <1>1, <1>4
  <2>4. PlaceOf(q) = NextOf(p)
    BY <1>5, <1>7, <2>1, <2>2, <2>3
  <2>5. IsPacket(p) /\ IsPacket(q) /\ q.session = p.session
    BY <1>4, <1>5, <1>6, <2>1, <2>2
  <2>6. IF Ends(p) THEN Starts(q) ELSE Continues(p, q)
    BY <2>4, <2>5, NextFacts
  <2>7. IF Ends(ps[l]) THEN Starts(ps[a + 1]) ELSE Continues(ps[l], ps[a + 1])
    BY <2>2, <2>6
  <2>8. QED
    BY <2>1, <2>7
<1>8. NoneOf(ps, ps[a + 1].session, a) => Starts(ps[a + 1])
  <2>1. PICK k : k = a + 1 /\ k - 1 = a /\ k \in 1 .. n
    BY <1>1, <1>4
  <2>2. NoneOf(ps, ps[k].session, k - 1) => Starts(ps[k])
    BY <1>5, <2>1
  <2>3. QED
    BY <2>1, <2>2
<1>9. req.session = ps[a + 1].session /\ req.pktLen = PktLen(ps[a + 1])
  BY <1>2 DEF Request
<1>10. QED
  BY <1>1, <1>2, <1>4, <1>5, <1>6, <1>7, <1>8, <1>9

(* A packet of a session that has a destination.                           *)
LEMMA HitStory ==
  ASSUME MuxInv, NEW ps, NEW ds, NEW pk, NEW wd, NEW n, NEW a, NEW c, NEW e, NEW f,
         Past(ps, ds, pk, wd, n, a, c, e, f), LookupRight(ps, ds, n, a),
         ProcRight(ps, ds, pk, wd, a, c, e, f), HitResp
  PROVE  Story'
<1>1. PICK d \in Entries(req.session) :
        IF rcvd[d] + req.pktLen >= total[d]
        THEN Clear(d) /\ Respond(TRUE, TRUE, d)
        ELSE /\ rcvd' = [rcvd EXCEPT ![d] = @ + req.pktLen]
             /\ Respond(TRUE, FALSE, d)
             /\ UNCHANGED <<valid, sessionOf, total, freeDest>>
  BY DEF HitResp
<1>2. /\ lookup = "HIT_RESP" /\ lookup' = "REQ"
      /\ UNCHANGED <<req, reqQ, updQ, procVars, inQ, next, sending>>
  BY DEF HitResp, netVars
<1>3. d \in Dests /\ d \in Used /\ d \notin Free /\ sessionOf[d] = req.session
  BY <1>1 DEF Entries, Used, MuxInv, EntriesAccounted
<1>4. PICK x : x = ps[a + 1]
  OBVIOUS
<1>5. /\ a + 1 <= n /\ n \in Nat /\ a \in Nat /\ IsSeq(reqQ) /\ n = a + 1 + Len(reqQ)
      /\ \A i \in 1 .. Len(reqQ) : reqQ[i] = Request(ps[a + 1 + i])
      /\ req = Request(x) /\ req.session = x.session /\ req.pktLen = PktLen(x)
      /\ IsPacket(x) /\ \A k \in 1 .. a : IsPacket(ps[k])
      /\ \A l : LatestOf(ps, x.session, a, l) =>
           /\ l \in 1 .. a
           /\ IF Ends(ps[l]) THEN Starts(x) ELSE Continues(ps[l], x)
  <2>1. LookedUp
    BY <1>2 DEF LookedUp
  <2>2. QED
    BY <1>4, <2>1, LookedUpFacts
<1>6. PICK l : /\ LatestAt(ds, d, a, l) /\ LatestOf(ps, x.session, a, l) /\ ~ Ends(ps[l])
               /\ total[d] = Whole(ps[l]) /\ rcvd[d] = Upto(ps[l])
  BY <1>3, <1>5 DEF LookupRight, EntryRight
<1>7. PICK p : p = ps[l] /\ IsPacket(p) /\ Continues(p, x)
  BY <1>5, <1>6
<1>8. /\ rcvd[d] = Before(x) /\ total[d] = Whole(x) /\ ~ Starts(x)
      /\ rcvd[d] + req.pktLen = Upto(x)
  BY <1>5, <1>6, <1>7, ContinueFacts, PacketFacts
<1>9. rcvd[d] + req.pktLen >= total[d] <=> Ends(x)
  <2>1. PICK u \in Nat, w \in Nat : u = Upto(x) /\ w = Whole(x) /\ u <= w
    BY <1>5, PacketFacts
  <2>2. u = w <=> Ends(x)
    BY <1>5, <2>1, PacketFacts
  <2>3. QED
    BY <1>8, <2>1, <2>2
<1>10. PICK es : es = [k \in 1 .. a + 1 |-> IF k = a + 1 THEN d ELSE ds[k]]
  OBVIOUS
<1>11. es[a + 1] = d /\ \A k \in 1 .. a : es[k] = ds[k]
  BY <1>5, <1>10
<1>12. ASSUME NEW k \in 1 .. a, LatestAt(ds, d, a, k) PROVE Follows(ps[k], x)
  <2>1. k = l
    <3>1. ds[k] = d /\ ds[l] = d /\ l \in 1 .. a
      BY <1>6, <1>12 DEF LatestAt
    <3>2. ~ (k < l) /\ ~ (l < k)
      <4>1. k < l => l \in k + 1 .. a
        BY <1>5, <3>1
      <4>2. l < k => k \in l + 1 .. a
        BY <1>5, <3>1
      <4>3. QED
        BY <1>6, <1>12, <3>1, <4>1, <4>2 DEF LatestAt
    <3>3. QED
      BY <1>5, <3>1, <3>2
  <2>2. QED
    BY <1>7, <2>1 DEF Follows
<1>13. ~ NoneAt(ds, d, a)
  BY <1>6 DEF LatestAt, NoneAt
<1>14. PICK last : /\ Respond(TRUE, last, d) /\ last = (~ Starts(x) /\ Ends(x))
  <2>1. CASE Ends(x)
    <3>1. Respond(TRUE, TRUE, d) /\ (~ Starts(x) /\ Ends(x)) = TRUE
      BY <1>1, <1>8, <1>9, <2>1
    <3>2. QED
      BY <3>1
  <2>2. CASE ~ Ends(x)
    <3>1. Respond(TRUE, FALSE, d) /\ (~ Starts(x) /\ Ends(x)) = FALSE
      BY <1>1, <1>8, <1>9, <2>2
    <3>2. QED
      BY <3>1
  <2>3. QED
    BY <2>1, <2>2
<1>15. /\ Past(ps, es, pk, wd, n, a + 1, c, e, f)
       /\ ProcRight(ps, es, pk, wd, a + 1, c, e, f)'
  <2>1. TRUE = (~ Starts(x))
    BY <1>8
  <2>2. IsSeq(respQ)
    BY DEF MuxInv, Shape
  <2>3. UNCHANGED <<procVars, inQ, sending>>
    BY <1>2
  <2>4. QED
    BY <1>3, <1>4, <1>5, <1>11, <1>12, <1>13, <1>14, <2>1, <2>2, <2>3, AnswerStory
<1>16. /\ \A k : LatestAt(es, d, a + 1, k) <=> k = a + 1
       /\ \A y : y # d => \A k : LatestAt(es, y, a + 1, k) <=> LatestAt(ds, y, a, k)
       /\ \A k : LatestOf(ps, x.session, a + 1, k) <=> k = a + 1
       /\ \A s : s # x.session =>
            \A k : LatestOf(ps, s, a + 1, k) <=> LatestOf(ps, s, a, k)
  <2>1. /\ \A k : LatestAt(es, d, a + 1, k) <=> k = a + 1
        /\ \A y : y # d => \A k : LatestAt(es, y, a + 1, k) <=> LatestAt(ds, y, a, k)
        /\ \A k : LatestOf(ps, ps[a + 1].session, a + 1, k) <=> k = a + 1
        /\ \A s : s # ps[a + 1].session =>
             \A k : LatestOf(ps, s, a + 1, k) <=> LatestOf(ps, s, a, k)
    <3>1. PICK b : b = a + 1 /\ a \in Nat /\ b \in Nat \ {0} /\ b - 1 = a
      BY <1>5
    <3>2. /\ \A k : LatestAt(es, d, b, k) <=> k = b
          /\ \A y : y # d => \A k : LatestAt(es, y, b, k) <=> LatestAt(ds, y, a, k)
      <4>1. es[b] = d /\ a <= a
        BY <1>11, <3>1
      <4>2. \A y : \A k : LatestAt(es, y, a, k) <=> LatestAt(ds, y, a, k)
        BY <1>11, <3>1, <4>1, SameAt
      <4>3. /\ \A k : LatestAt(es, d, b, k) <=> k = b
            /\ \A y : y # d => \A k : LatestAt(es, y, b, k) <=> LatestAt(es, y, b - 1, k)
        BY <3>1, <4>1, MoreAt
      <4>4. QED
        BY <3>1, <4>2, <4>3
    <3>3. /\ \A k : LatestOf(ps, ps[b].session, b, k) <=> k = b
          /\ \A s : s # ps[b].session =>
               \A k : LatestOf(ps, s, b, k) <=> LatestOf(ps, s, b - 1, k)
      BY <3>1, MoreOf
    <3>4. QED
      BY <3>1, <3>2, <3>3
  <2>2. QED
    BY <1>4, <2>1
<1>17. Announced(ps, n)' /\ Requested(ps, n, a + 1)' /\ SizeAwaited(ps, es, a + 1)'
  <2>1. Announced(ps, n)'
    BY <1>2 DEF LookupRight, Announced
  <2>2. Requested(ps, n, a + 1)'
    BY <1>2, <1>5 DEF Requested, LookedUp
  <2>3. QED
    BY <1>2, <2>1, <2>2 DEF SizeAwaited
<1>18. /\ IF Ends(x) THEN Free' = Free \cup {d} /\ Used' = Used \ {d}
          ELSE Free' = Free /\ Used' = Used
       /\ \A y \in Used' : /\ sessionOf'[y] = sessionOf[y] /\ total'[y] = total[y]
                           /\ rcvd'[y] = IF y = d THEN Upto(x) ELSE rcvd[y]
  <2>1. CASE Ends(x)
    <3>1. Clear(d)
      BY <1>1, <1>9, <2>1
    <3>2. /\ Free' = Free \cup {d} /\ Used' = Used \ {d}
          /\ \A y \in Used' : /\ sessionOf'[y] = sessionOf[y]
                              /\ total'[y] = total[y] /\ rcvd'[y] = rcvd[y]
      BY <1>3, <3>1, ClearFacts DEF MuxInv
    <3>3. QED
      BY <2>1, <3>2
  <2>2. CASE ~ Ends(x)
    <3>1. /\ rcvd' = [rcvd EXCEPT ![d] = @ + req.pktLen]
          /\ UNCHANGED <<valid, sessionOf, total, freeDest>>
      BY <1>1, <1>9, <2>2
    <3>2. Free' = Free /\ Used' = Used
      BY <3>1 DEF Free, Used
    <3>3. \A y \in Dests : rcvd'[y] = IF y = d THEN Upto(x) ELSE rcvd[y]
      BY <1>3, <1>8, <3>1 DEF MuxInv, Shape
    <3>4. Used \subseteq Dests
      BY DEF Used
    <3>5. QED
      BY <2>2, <3>1, <3>2, <3>3, <3>4
  <2>3. QED
    BY <2>1, <2>2
<1>19. EntryRight(ps, es, a + 1)'
  <2>1. ASSUME NEW y \in Used'
        PROVE  \E k \in 1 .. a + 1 :
                 /\ LatestAt(es, y, a + 1, k) /\ LatestOf(ps, sessionOf'[y], a + 1, k)
                 /\ ~ Ends(ps[k])
                 /\ total'[y] = Whole(ps[k]) /\ rcvd'[y] = Upto(ps[k])
    <3>1. CASE y = d
      <4>1. ~ Ends(x) /\ sessionOf'[y] = x.session /\ total'[y] = Whole(x)
            /\ rcvd'[y] = Upto(x)
        BY <1>3, <1>5, <1>8, <1>18, <3>1
      <4>2. a + 1 \in 1 .. a + 1
        BY <1>5
      <4>3. QED
        BY <1>4, <1>16, <3>1, <4>1, <4>2
    <3>2. CASE y # d
      <4>1. y \in Used /\ sessionOf'[y] = sessionOf[y] /\ total'[y] = total[y]
            /\ rcvd'[y] = rcvd[y]
        BY <1>18, <3>2
      <4>2. sessionOf[y] # x.session
        BY <1>3, <1>5, <3>2, <4>1 DEF MuxInv, EntriesAccounted
      <4>3. PICK k \in 1 .. a :
              /\ LatestAt(ds, y, a, k) /\ LatestOf(ps, sessionOf[y], a, k) /\ ~ Ends(ps[k])
              /\ total[y] = Whole(ps[k]) /\ rcvd[y] = Upto(ps[k])
        BY <4>1 DEF LookupRight, EntryRight
      <4>4. k \in 1 .. a + 1
        BY <1>5
      <4>5. QED
        BY <1>16, <3>2, <4>1, <4>2, <4>3, <4>4
    <3>3. QED
      BY <3>1, <3>2
  <2>2. QED
    BY <2>1 DEF EntryRight
<1>20. FreeComplete(ps, es, a + 1)'
  <2>1. ASSUME NEW y \in Free', NEW k \in 1 .. a + 1, LatestAt(es, y, a + 1, k)
        PROVE  Ends(ps[k])
    <3>1. CASE y = d
      BY <1>3, <1>4, <1>16, <1>18, <2>1, <3>1
    <3>2. CASE y # d
      <4>1. y \in Free /\ LatestAt(ds, y, a, k)
        BY <1>16, <1>18, <2>1, <3>2
      <4>2. k \in 1 .. a
        BY <4>1 DEF LatestAt
      <4>3. QED
        BY <4>1, <4>2 DEF LookupRight, FreeComplete
    <3>3. QED
      BY <3>1, <3>2
  <2>2. QED
    BY <2>1 DEF FreeComplete
<1>21. NoEntryComplete(ps, a + 1)'
  <2>1. ASSUME NEW s \in Sessions, Entries(s)' = {}, NEW k \in 1 .. a + 1,
               LatestOf(ps, s, a + 1, k)
        PROVE  Ends(ps[k])
    <3>1. CASE s = x.session
      <4>1. k = a + 1
        BY <1>16, <2>1, <3>1
      <4>2. ~ Ends(x) => d \in Entries(s)'
        <5>1. ~ Ends(x) => d \in Used' /\ sessionOf'[d] = s
          BY <1>3, <1>5, <1>18, <3>1
        <5>2. QED
          BY <5>1 DEF Used, Entries
      <4>3. QED
        BY <1>4, <2>1, <4>1, <4>2
    <3>2. CASE s # x.session
      <4>1. LatestOf(ps, s, a, k)
        BY <1>16, <2>1, <3>2
      <4>2. Entries(s) = {}
        <5>1. ASSUME NEW y \in Entries(s) PROVE y \in Entries(s)'
          <6>1. y \in Used /\ sessionOf[y] = s
            BY <5>1 DEF Entries, Used
          <6>2. y # d
            BY <1>3, <1>5, <3>2, <6>1
          <6>3. y \in Used' /\ sessionOf'[y] = s
            BY <1>18, <6>1, <6>2
          <6>4. QED
            BY <6>3 DEF Entries, Used
        <5>2. QED
          BY <2>1, <5>1
      <4>3. k \in 1 .. a
        BY <4>1 DEF LatestOf
      <4>4. QED
        BY <1>2, <4>1, <4>2, <4>3 DEF LookupRight, NoEntryComplete
    <3>3. QED
      BY <3>1, <3>2
  <2>2. QED
    BY <2>1 DEF NoEntryComplete
<1>22. QED
  BY <1>15, <1>17, <1>19, <1>20, <1>21 DEF LookupRight, Story

(* A first packet of a message, for which there is a free destination.     *)
LEMMA MissStory ==
  ASSUME MuxInv, NEW ps, NEW ds, NEW pk, NEW wd, NEW n, NEW a, NEW c, NEW e, NEW f,
         Past(ps, ds, pk, wd, n, a, c, e, f), LookupRight(ps, ds, n, a),
         ProcRight(ps, ds, pk, wd, a, c, e, f), MissResp
  PROVE  Story'
<1>1. PICK d : d = Head(freeDest)
  OBVIOUS
<1>2. /\ lookup = "MISS_RESP" /\ lookup' = "UPDATE" /\ freeDest # <<>>
      /\ freeDest' = Tail(freeDest) /\ Respond(FALSE, FALSE, d)
      /\ UNCHANGED <<valid, sessionOf, total, rcvd, req, reqQ, updQ, procVars, inQ,
                     next, sending>>
  BY <1>1 DEF MissResp, netVars
<1>3. d \in Dests /\ d \in Free /\ Free' = Free \ {d} /\ Used' = Used /\ d \notin Used
      /\ updQ = <<>> /\ Entries(req.session) = {} /\ \A s : Entries(s)' = Entries(s)
  <2>1. d \in Dests /\ d \in Free /\ Free' = Free \ {d}
    BY <1>1, <1>2, FreeTail DEF MuxInv, Shape, EntriesAccounted
  <2>2. Used' = Used /\ \A s : Entries(s)' = Entries(s)
    BY <1>2 DEF Used, Entries
  <2>3. updQ = <<>> /\ Entries(req.session) = {}
    BY <1>2 DEF MuxInv, Awaited, Missed
  <2>4. QED
    BY <2>1, <2>2, <2>3 DEF MuxInv, EntriesAccounted
<1>4. PICK x : x = ps[a + 1]
  OBVIOUS
<1>5. /\ a + 1 <= n /\ n \in Nat /\ a \in Nat /\ IsSeq(reqQ) /\ n = a + 1 + Len(reqQ)
      /\ \A i \in 1 .. Len(reqQ) : reqQ[i] = Request(ps[a + 1 + i])
      /\ req = Request(x) /\ req.session = x.session /\ req.pktLen = PktLen(x)
      /\ IsPacket(x)
      /\ \A l : LatestOf(ps, x.session, a, l) =>
           /\ l \in 1 .. a
           /\ IF Ends(ps[l]) THEN Starts(x) ELSE Continues(ps[l], x)
      /\ NoneOf(ps, x.session, a) => Starts(x)
  <2>1. LookedUp
    BY <1>2 DEF LookedUp
  <2>2. QED
    BY <1>4, <2>1, LookedUpFacts
<1>6. Starts(x)
  <2>1. CASE NoneOf(ps, x.session, a)
    BY <1>5, <2>1
  <2>2. ASSUME NEW l \in 1 .. a, LatestOf(ps, x.session, a, l) PROVE Starts(x)
    <3>1. x.session \in Sessions
      BY <1>5, PacketFacts
    <3>2. Ends(ps[l])
      BY <1>2, <1>3, <1>5, <2>2, <3>1 DEF LookupRight, NoEntryComplete
    <3>3. QED
      BY <1>5, <2>2, <3>2
  <2>3. QED
    BY <1>5, <2>1, <2>2, SomeOf
<1>7. PICK es : es = [k \in 1 .. a + 1 |-> IF k = a + 1 THEN d ELSE ds[k]]
  OBVIOUS
<1>8. es[a + 1] = d /\ \A k \in 1 .. a : es[k] = ds[k]
  BY <1>5, <1>7
<1>9. /\ Past(ps, es, pk, wd, n, a + 1, c, e, f)
      /\ ProcRight(ps, es, pk, wd, a + 1, c, e, f)'
  <2>1. FALSE = (~ Starts(x)) /\ FALSE = (~ Starts(x) /\ Ends(x))
    BY <1>6
  <2>2. IsSeq(respQ)
    BY DEF MuxInv, Shape
  <2>3. UNCHANGED <<procVars, inQ, sending>>
    BY <1>2
  <2>4. ASSUME NEW l \in 1 .. a, LatestAt(ds, d, a, l) PROVE Follows(ps[l], x)
    BY <1>3, <1>6, <2>4 DEF LookupRight, FreeComplete, Follows
  <2>5. QED
    BY <1>2, <1>3, <1>4, <1>5, <1>6, <1>8, <2>1, <2>2, <2>3, <2>4, AnswerStory
<1>10. /\ \A k : LatestAt(es, d, a + 1, k) <=> k = a + 1
       /\ \A y : y # d => \A k : LatestAt(es, y, a + 1, k) <=> LatestAt(ds, y, a, k)
       /\ \A k : LatestOf(ps, x.session, a + 1, k) <=> k = a + 1
       /\ \A s : s # x.session =>
            \A k : LatestOf(ps, s, a + 1, k) <=> LatestOf(ps, s, a, k)
  <2>1. /\ \A k : LatestAt(es, d, a + 1, k) <=> k = a + 1
        /\ \A y : y # d => \A k : LatestAt(es, y, a + 1, k) <=> LatestAt(ds, y, a, k)
        /\ \A k : LatestOf(ps, ps[a + 1].session, a + 1, k) <=> k = a + 1
        /\ \A s : s # ps[a + 1].session =>
             \A k : LatestOf(ps, s, a + 1, k) <=> LatestOf(ps, s, a, k)
    <3>1. PICK b : b = a + 1 /\ a \in Nat /\ b \in Nat \ {0} /\ b - 1 = a
      BY <1>5
    <3>2. /\ \A k : LatestAt(es, d, b, k) <=> k = b
          /\ \A y : y # d => \A k : LatestAt(es, y, b, k) <=> LatestAt(ds, y, a, k)
      <4>1. es[b] = d /\ a <= a
        BY <1>8, <3>1
      <4>2. \A y : \A k : LatestAt(es, y, a, k) <=> LatestAt(ds, y, a, k)
        BY <1>8, <3>1, <4>1, SameAt
      <4>3. /\ \A k : LatestAt(es, d, b, k) <=> k = b
            /\ \A y : y # d => \A k : LatestAt(es, y, b, k) <=> LatestAt(es, y, b - 1, k)
        BY <3>1, <4>1, MoreAt
      <4>4. QED
        BY <3>1, <4>2, <4>3
    <3>3. /\ \A k : LatestOf(ps, ps[b].session, b, k) <=> k = b
          /\ \A s : s # ps[b].session =>
               \A k : LatestOf(ps, s, b, k) <=> LatestOf(ps, s, b - 1, k)
      BY <3>1, MoreOf
    <3>4. QED
      BY <3>1, <3>2, <3>3
  <2>2. QED
    BY <1>4, <2>1
<1>11. Announced(ps, n)' /\ Requested(ps, n, a + 1)' /\ SizeAwaited(ps, es, a + 1)'
  <2>1. Announced(ps, n)'
    BY <1>2 DEF LookupRight, Announced
  <2>2. Requested(ps, n, a + 1)'
    BY <1>2, <1>5 DEF Requested, LookedUp
  <2>3. a + 1 > 0
    BY <1>5
  <2>4. QED
    BY <1>2, <1>3, <1>4, <1>5, <1>6, <2>1, <2>2, <2>3 DEF SizeAwaited
<1>12. EntryRight(ps, es, a + 1)'
  <2>1. ASSUME NEW y \in Used
        PROVE  \E k \in 1 .. a + 1 :
                 /\ LatestAt(es, y, a + 1, k) /\ LatestOf(ps, sessionOf[y], a + 1, k)
                 /\ ~ Ends(ps[k])
                 /\ total[y] = Whole(ps[k]) /\ rcvd[y] = Upto(ps[k])
    <3>1. y # d
      BY <1>3
    <3>2. sessionOf[y] # x.session
      BY <1>3, <1>5 DEF Used, Entries
    <3>3. PICK k \in 1 .. a :
            /\ LatestAt(ds, y, a, k) /\ LatestOf(ps, sessionOf[y], a, k) /\ ~ Ends(ps[k])
            /\ total[y] = Whole(ps[k]) /\ rcvd[y] = Upto(ps[k])
      BY DEF LookupRight, EntryRight
    <3>4. k \in 1 .. a + 1
      BY <1>5
    <3>5. QED
      BY <1>10, <3>1, <3>2, <3>3, <3>4
  <2>2. QED
    BY <1>2, <1>3, <2>1 DEF EntryRight
<1>13. FreeComplete(ps, es, a + 1)'
  <2>1. ASSUME NEW y \in Free', NEW k \in 1 .. a + 1, LatestAt(es, y, a + 1, k)
        PROVE  Ends(ps[k])
    <3>1. y \in Free /\ LatestAt(ds, y, a, k)
      BY <1>3, <1>10, <2>1
    <3>2. k \in 1 .. a
      BY <3>1 DEF LatestAt
    <3>3. QED
      BY <3>1, <3>2 DEF LookupRight, FreeComplete
  <2>2. QED
    BY <2>1 DEF FreeComplete
<1>14. NoEntryComplete(ps, a + 1)'
  <2>1. ASSUME NEW s \in Sessions, Entries(s) = {}, s # x.session, NEW k \in 1 .. a + 1,
               LatestOf(ps, s, a + 1, k)
        PROVE  Ends(ps[k])
    <3>1. LatestOf(ps, s, a, k)
      BY <1>10, <2>1
    <3>2. k \in 1 .. a
      BY <3>1 DEF LatestOf
    <3>3. QED
      BY <1>2, <2>1, <3>1, <3>2 DEF LookupRight, NoEntryComplete
  <2>2. QED
    BY <1>2, <1>3, <1>5, <2>1 DEF NoEntryComplete
<1>15. QED
  BY <1>9, <1>11, <1>12, <1>13, <1>14 DEF LookupRight, Story

(* The size of the message gets into the table, if more packets follow.    *)
LEMMA UpdateStory ==
  ASSUME MuxInv, NEW ps, NEW ds, NEW pk, NEW wd, NEW n, NEW a, NEW c, NEW e, NEW f,
         Past(ps, ds, pk, wd, n, a, c, e, f), LookupRight(ps, ds, n, a), Update
  PROVE  LookupRight(ps, ds, n, a)'
<1>1. PICK x, d : x = ps[a] /\ d = ds[a]
  OBVIOUS
<1>2. /\ lookup = "UPDATE" /\ lookup' = "REQ" /\ updQ # <<>>
      /\ UNCHANGED <<req, reqQ, next>>
  BY DEF Update, netVars
<1>3. PICK b \in Nat : a = b + 1
  <2>1. a \in Nat /\ a > 0
    BY <1>2 DEF Past, LookupRight, SizeAwaited
  <2>2. a - 1 \in Nat /\ a = (a - 1) + 1
    BY <2>1
  <2>3. QED
    BY <2>2
<1>4. PICK u : /\ updQ = <<u>> /\ u.session = x.session /\ u.dest = d
               /\ u.msgSize = Whole(x) /\ u.pktLen = PktLen(x)
  <2>1. PICK u : updQ = <<u>>
    BY <1>2 DEF MuxInv, Awaited, AwaitedAnswer, AwaitedUpdate
  <2>2. u = [msgSize |-> Whole(x), session |-> x.session, dest |-> d, pktLen |-> PktLen(x)]
    BY <1>1, <1>2, <2>1 DEF LookupRight, SizeAwaited
  <2>3. QED
    BY <2>1, <2>2
<1>5. /\ d \in Dests /\ d \notin Free /\ d \notin Used
      /\ Entries(req.session) = {} /\ req.session = x.session
      /\ IsPacket(x) /\ Starts(x)
  <2>1. AllHits /\ Promised = {u.dest}
    <3>1. AllHits
      BY <1>2, <1>4 DEF MuxInv, Awaited, AwaitedAnswer, AwaitedUpdate
    <3>2. QED
      BY <1>4, <3>1, PromisedByUpdate
  <2>2. d \notin Free /\ d \notin Used
    BY <1>4, <2>1 DEF MuxInv, EntriesAccounted
  <2>3. a \in 1 .. a /\ a \in 1 .. n
    BY <1>3 DEF Past
  <2>4. d \in Dests /\ IsPacket(x)
    BY <1>1, <2>3 DEF Past, Given, InOrder
  <2>5. QED
    BY <1>1, <1>2, <2>2, <2>4 DEF LookupRight, SizeAwaited, MuxInv, Missed
<1>6. /\ u.pktLen >= u.msgSize <=> Ends(x)
      /\ u.pktLen = Upto(x)
  <2>1. PICK v \in Nat, w \in Nat : v = Upto(x) /\ w = Whole(x) /\ v <= w /\ PktLen(x) = v
    BY <1>5, PacketFacts
  <2>2. v = w <=> Ends(x)
    BY <1>5, <2>1, PacketFacts
  <2>3. QED
    BY <1>4, <2>1, <2>2
<1>7. /\ IF Ends(x) THEN Clear(d)
         ELSE /\ valid' = [valid EXCEPT ![d] = TRUE]
              /\ sessionOf' = [sessionOf EXCEPT ![d] = x.session]
              /\ total' = [total EXCEPT ![d] = Whole(x)]
              /\ rcvd' = [rcvd EXCEPT ![d] = Upto(x)]
              /\ UNCHANGED freeDest
      /\ updQ' = <<>>
  <2>1. Head(updQ) = u /\ Tail(updQ) = <<>>
    BY <1>4
  <2>2. QED
    BY <1>4, <1>6, <2>1 DEF Update
<1>8. /\ IF Ends(x) THEN Free' = Free \cup {d} /\ Used' = Used
         ELSE Free' = Free /\ Used' = Used \cup {d}
      /\ \A y \in Used : /\ sessionOf'[y] = sessionOf[y] /\ total'[y] = total[y]
                         /\ rcvd'[y] = rcvd[y]
      /\ ~ Ends(x) => sessionOf'[d] = x.session /\ total'[d] = Whole(x) /\ rcvd'[d] = Upto(x)
  <2>1. CASE Ends(x)
    <3>1. Clear(d)
      BY <1>7, <2>1
    <3>2. /\ Free' = Free \cup {d} /\ Used' = Used \ {d}
          /\ \A y \in Used' : /\ sessionOf'[y] = sessionOf[y]
                              /\ total'[y] = total[y] /\ rcvd'[y] = rcvd[y]
      BY <1>5, <3>1, ClearFacts DEF MuxInv
    <3>3. Used' = Used
      BY <1>5, <3>2
    <3>4. QED
      BY <2>1, <3>2, <3>3
  <2>2. CASE ~ Ends(x)
    <3>1. /\ valid' = [valid EXCEPT ![d] = TRUE]
          /\ sessionOf' = [sessionOf EXCEPT ![d] = x.session]
          /\ total' = [total EXCEPT ![d] = Whole(x)]
          /\ rcvd' = [rcvd EXCEPT ![d] = Upto(x)]
          /\ freeDest' = freeDest
      BY <1>7, <2>2
    <3>2. /\ valid \in [Dests -> BOOLEAN] /\ DOMAIN sessionOf = Dests
          /\ DOMAIN total = Dests /\ DOMAIN rcvd = Dests
      BY DEF MuxInv, Shape
    <3>3. Free' = Free
      BY <3>1 DEF Free
    <3>4. Used' = Used \cup {d}
      BY <1>5, <3>1, <3>2 DEF Used
    <3>5. sessionOf'[d] = x.session /\ total'[d] = Whole(x) /\ rcvd'[d] = Upto(x)
      BY <1>5, <3>1, <3>2
    <3>6. \A y \in Dests : y # d =>
            sessionOf'[y] = sessionOf[y] /\ total'[y] = total[y] /\ rcvd'[y] = rcvd[y]
      BY <3>1, <3>2
    <3>7. \A y \in Used : y \in Dests /\ y # d
      BY <1>5 DEF Used
    <3>8. QED
      BY <2>2, <3>3, <3>4, <3>5, <3>6, <3>7
  <2>3. QED
    BY <2>1, <2>2
<1>9. /\ \A k : LatestAt(ds, d, a, k) <=> k = a
      /\ \A k : LatestOf(ps, x.session, a, k) <=> k = a
  <2>1. a \in Nat \ {0}
    BY <1>3
  <2>2. QED
    BY <1>1, <2>1, MoreAt, MoreOf
<1>10. a \in 1 .. a
  BY <1>3
<1>11. Announced(ps, n)' /\ Requested(ps, n, a)' /\ SizeAwaited(ps, ds, a)'
  BY <1>2 DEF LookupRight, Announced, Requested, LookedUp, SizeAwaited
<1>12. EntryRight(ps, ds, a)'
  <2>1. ASSUME NEW y \in Used'
        PROVE  \E k \in 1 .. a :
                 /\ LatestAt(ds, y, a, k) /\ LatestOf(ps, sessionOf'[y], a, k)
                 /\ ~ Ends(ps[k])
                 /\ total'[y] = Whole(ps[k]) /\ rcvd'[y] = Upto(ps[k])
    <3>1. CASE y = d
      <4>1. ~ Ends(x) /\ sessionOf'[y] = x.session /\ total'[y] = Whole(x)
            /\ rcvd'[y] = Upto(x)
        BY <1>5, <1>8, <3>1
      <4>2. QED
        BY <1>1, <1>9, <1>10, <3>1, <4>1
    <3>2. CASE y # d
      <4>1. /\ y \in Used /\ sessionOf'[y] = sessionOf[y] /\ total'[y] = total[y]
            /\ rcvd'[y] = rcvd[y]
        BY <1>8, <3>2
      <4>2. QED
        BY <4>1 DEF LookupRight, EntryRight
    <3>3. QED
      BY <3>1, <3>2
  <2>2. QED
    BY <2>1 DEF EntryRight
<1>13. FreeComplete(ps, ds, a)'
  <2>1. ASSUME NEW y \in Free', NEW k \in 1 .. a, LatestAt(ds, y, a, k) PROVE Ends(ps[k])
    <3>1. CASE y = d
      BY <1>1, <1>5, <1>8, <1>9, <2>1, <3>1
    <3>2. CASE y # d
      <4>1. y \in Free
        BY <1>8, <2>1, <3>2
      <4>2. QED
        BY <2>1, <4>1 DEF LookupRight, FreeComplete
    <3>3. QED
      BY <3>1, <3>2
  <2>2. QED
    BY <2>1 DEF FreeComplete
<1>14. NoEntryComplete(ps, a)'
  <2>1. ASSUME NEW s \in Sessions, Entries(s)' = {}, NEW k \in 1 .. a, LatestOf(ps, s, a, k)
        PROVE  Ends(ps[k])
    <3>1. CASE s = x.session
      <4>1. ~ Ends(x) => d \in Entries(s)'
        <5>1. ~ Ends(x) => d \in Used' /\ sessionOf'[d] = s
          BY <1>8, <3>1
        <5>2. QED
          BY <5>1 DEF Used, Entries
      <4>2. QED
        BY <1>1, <1>9, <2>1, <3>1, <4>1
    <3>2. CASE s # x.session
      <4>1. Entries(s) = {}
        <5>1. ASSUME NEW y \in Entries(s) PROVE y \in Entries(s)'
          <6>1. y \in Used /\ sessionOf[y] = s
            BY <5>1 DEF Entries, Used
          <6>2. y \in Used' /\ sessionOf'[y] = s
            BY <1>8, <6>1
          <6>3. QED
            BY <6>2 DEF Entries, Used
        <5>2. QED
          BY <2>1, <5>1
      <4>2. QED
        BY <1>5, <2>1, <3>2, <4>1 DEF LookupRight, NoEntryComplete
    <3>3. QED
      BY <3>1, <3>2
  <2>2. QED
    BY <2>1 DEF NoEntryComplete
<1>15. QED
  BY <1>11, <1>12, <1>13, <1>14 DEF LookupRight

-----------------------------------------------------------------------------
(* The word that is forwarded next.                                        *)
LEMMA NextWord ==
  ASSUME NEW ps, NEW ds, NEW pk, NEW wd, NEW n, NEW a, NEW c, NEW e, NEW f,
         Past(ps, ds, pk, wd, n, a, c, e, f), ProcRight(ps, ds, pk, wd, a, c, e, f),
         inQ # <<>>
  PROVE  /\ f \in Nat /\ e \in Nat /\ n \in Nat /\ c \in Nat /\ a \in Nat
         /\ f + 1 <= e /\ f + 1 \in 1 .. e
         /\ inQ[1] = Head(inQ) /\ Head(inQ) = WordAt(ps, pk, wd, f + 1)
         /\ pk[f + 1] \in 1 .. n /\ IsPacket(ps[pk[f + 1]]) /\ wd[f + 1] \in Nat
         /\ wd[f + 1] > Before(ps[pk[f + 1]]) /\ wd[f + 1] <= Upto(ps[pk[f + 1]])
         /\ \/ /\ proc = "WAIT_STREAM" /\ pk[f + 1] = c + 1
               /\ wd[f + 1] = Before(ps[pk[f + 1]]) + 1
               /\ c > 0 => wd[f] = Upto(ps[c])
            \/ /\ proc = "CONSUME" /\ c > 0 /\ pk[f + 1] = c /\ IsPacket(ps[c])
               /\ wd[f + 1] = wd[f] + 1 /\ wd[f] \in Nat /\ wd[f] > Before(ps[c])
<1>1. /\ n \in Nat /\ a \in Nat /\ c \in Nat /\ e \in Nat /\ f \in Nat
      /\ InOrder(ps, n) /\ Cut(ps, n, pk, wd, e)
  BY DEF Past
<1>2. /\ IsSeq(inQ) /\ IsSeq(sending) /\ e = f + Len(inQ) + Len(sending)
      /\ \A i \in 1 .. Len(inQ) : inQ[i] = WordAt(ps, pk, wd, f + i)
      /\ c = IF f = 0 THEN 0 ELSE pk[f]
      /\ proc = IF f = 0 \/ LastAt(ps, pk, wd, f) THEN "WAIT_STREAM" ELSE "CONSUME"
  BY DEF ProcRight, Arriving, Forwarded
<1>3. Len(inQ) \in Nat /\ Len(inQ) >= 1 /\ Len(sending) \in Nat /\ Head(inQ) = inQ[1]
  BY <1>2, EmptyFacts, TailFacts
<1>4. PICK g : g = f + 1 /\ g \in Nat /\ g <= e /\ g \in 1 .. e
  BY <1>1, <1>2, <1>3
<1>5. inQ[1] = WordAt(ps, pk, wd, g)
  BY <1>2, <1>3, <1>4
<1>6. /\ pk[g] \in 1 .. n /\ wd[g] \in Nat
      /\ wd[g] > Before(ps[pk[g]]) /\ wd[g] <= Upto(ps[pk[g]])
  BY <1>1, <1>4 DEF Cut
<1>7. IsPacket(ps[pk[g]])
  BY <1>1, <1>6 DEF InOrder
<1>8. CASE f = 0
  <2>1. g = 1 /\ c = 0 /\ proc = "WAIT_STREAM" /\ e > 0
    BY <1>2, <1>4, <1>8
  <2>2. pk[g] = 1 /\ wd[g] = Before(ps[pk[g]]) + 1
    BY <1>1, <2>1 DEF Cut
  <2>3. pk[g] = c + 1 /\ ~ (c > 0)
    BY <2>1, <2>2
  <2>4. QED
    BY <1>1, <1>3, <1>4, <1>5, <1>6, <1>7, <2>1, <2>2, <2>3
<1>9. CASE f # 0
  <2>1. f \in 1 .. e /\ f \in 1 .. e - 1 /\ c = pk[f]
    BY <1>1, <1>2, <1>4, <1>9
  <2>2. /\ pk[f] \in 1 .. n /\ wd[f] \in Nat /\ wd[f] > Before(ps[pk[f]])
        /\ IF LastAt(ps, pk, wd, f)
           THEN pk[g] = pk[f] + 1 /\ wd[g] = Before(ps[pk[f] + 1]) + 1
           ELSE pk[g] = pk[f] /\ wd[g] = wd[f] + 1
    BY <1>1, <1>4, <2>1 DEF Cut
  <2>3. IsPacket(ps[c])
    BY <1>1, <2>1, <2>2 DEF InOrder
  <2>4. CASE LastAt(ps, pk, wd, f)
    <3>1. proc = "WAIT_STREAM" /\ wd[f] = Upto(ps[c])
      BY <1>2, <2>1, <2>4 DEF LastAt
    <3>2. pk[g] = c + 1 /\ wd[g] = Before(ps[pk[g]]) + 1
      BY <2>1, <2>2, <2>4
    <3>3. QED
      BY <1>1, <1>3, <1>4, <1>5, <1>6, <1>7, <3>1, <3>2
  <2>5. CASE ~ LastAt(ps, pk, wd, f)
    <3>1. proc = "CONSUME"
      BY <1>2, <1>9, <2>5
    <3>2. /\ pk[g] = c /\ wd[g] = wd[f] + 1 /\ c > 0
          /\ wd[f] \in Nat /\ wd[f] > Before(ps[c])
      BY <2>1, <2>2, <2>5
    <3>3. QED
      BY <1>1, <1>3, <1>4, <1>5, <1>6, <1>7, <2>3, <3>1, <3>2
  <2>6. QED
    BY <2>4, <2>5
<1>10. QED
  BY <1>8, <1>9

(* A word is forwarded; it belongs to packet k, whose answer is resp'.     *)
LEMMA ForwardStory ==
  ASSUME NEW ps, NEW ds, NEW pk, NEW wd, NEW n, NEW a, NEW c, NEW e, NEW f,
         Past(ps, ds, pk, wd, n, a, c, e, f), ProcRight(ps, ds, pk, wd, a, c, e, f),
         inQ # <<>>, NEW k, k = pk[f + 1], k <= a,
         resp' = Answer(ps[k], ds[k]), Forward(Head(inQ), resp'), sending' = sending
  PROVE  /\ Past(ps, ds, pk, wd, n, a, k, e, f + 1)
         /\ Arriving(ps, pk, wd, e, f + 1)' /\ Forwarded(ps, pk, wd, f + 1, k)'
         /\ Written(ps, ds, pk, wd, f + 1, k)'
<1>1. PICK g, x, d : g = f + 1 /\ x = ps[k] /\ d = ds[k]
  OBVIOUS
<1>2. /\ f \in Nat /\ e \in Nat /\ n \in Nat /\ c \in Nat /\ a \in Nat
      /\ g <= e /\ g \in 1 .. e /\ g \in Nat
      /\ Head(inQ) = WordAt(ps, pk, wd, g) /\ k \in 1 .. n /\ k \in Nat
      /\ \/ proc = "WAIT_STREAM" /\ k = c + 1 /\ (c > 0 => wd[f] = Upto(ps[c]))
         \/ proc = "CONSUME" /\ c > 0 /\ k = c
  BY <1>1, NextWord
<1>3. Past(ps, ds, pk, wd, n, a, k, e, f + 1)
  BY <1>1, <1>2 DEF Past
<1>4. k \in 1 .. a /\ d \in Dests
  <2>1. k \in 1 .. a
    BY <1>2
  <2>2. QED
    BY <1>1, <2>1 DEF Past, Given
<1>5. resp'.dest = d
  BY <1>1 DEF Answer
<1>6. PICK z : z = [session |-> x.session, msg |-> x.msg, word |-> wd[g]]
  OBVIOUS
<1>7. /\ cur' = [cur EXCEPT ![d] = z] /\ inQ' = Tail(inQ)
      /\ proc' = IF LastAt(ps, pk, wd, g) THEN "WAIT_STREAM" ELSE "CONSUME"
  <2>1. PICK w : /\ w = Head(inQ) /\ w.session = x.session /\ w.msg = x.msg /\ w.word = wd[g]
                 /\ w.last = LastAt(ps, pk, wd, g)
    <3>1. ps[pk[g]] = x
      BY <1>1
    <3>2. Head(inQ) = [session |-> x.session, msg |-> x.msg, word |-> wd[g],
                       last |-> LastAt(ps, pk, wd, g)]
      BY <1>2, <3>1 DEF WordAt
    <3>3. QED
      BY <3>2
  <2>2. PICK r : r = resp' /\ r.dest = d
    BY <1>5
  <2>3. Forward(w, r)
    BY <2>1, <2>2
  <2>4. QED
    BY <1>6, <2>1, <2>2, <2>3 DEF Forward
<1>8. Arriving(ps, pk, wd, e, f + 1)'
  <2>1. /\ IsSeq(inQ) /\ IsSeq(sending) /\ e = f + Len(inQ) + Len(sending)
        /\ \A i \in 1 .. Len(inQ) : inQ[i] = WordAt(ps, pk, wd, f + i)
        /\ \A i \in 1 .. Len(sending) : sending[i] = WordAt(ps, pk, wd, f + Len(inQ) + i)
    BY DEF ProcRight, Arriving
  <2>2. PICK q, m : q = Tail(inQ) /\ m = Len(inQ) - 1
    OBVIOUS
  <2>3. /\ IsSeq(q) /\ Len(q) = m /\ m \in Nat /\ Len(inQ) = m + 1
        /\ \A i \in 1 .. m : q[i] = inQ[i + 1]
    BY <2>1, <2>2, TailFacts
  <2>4. Len(sending) \in Nat
    BY <2>1, EmptyFacts
  <2>5. e = f + 1 + m + Len(sending) /\ f + 1 + m = f + Len(inQ)
    BY <1>2, <2>1, <2>3, <2>4
  <2>6. ASSUME NEW i \in 1 .. m PROVE q[i] = WordAt(ps, pk, wd, f + 1 + i)
    <3>1. i + 1 \in 1 .. Len(inQ) /\ f + (i + 1) = f + 1 + i
      BY <1>2, <2>3
    <3>2. QED
      BY <2>1, <2>3, <3>1
  <2>7. \A i \in 1 .. Len(sending) : sending[i] = WordAt(ps, pk, wd, f + 1 + m + i)
    BY <2>1, <2>5
  <2>8. QED
    BY <1>7, <2>1, <2>2, <2>3, <2>5, <2>6, <2>7 DEF Arriving
<1>9. Forwarded(ps, pk, wd, f + 1, k)'
  <2>1. k = pk[g] /\ g # 0
    BY <1>1, <1>2
  <2>2. QED
    BY <1>1, <1>7, <2>1 DEF Forwarded
<1>10. Written(ps, ds, pk, wd, f + 1, k)'
  <2>1. /\ DOMAIN cur = Dests
        /\ \A y \in Dests :
             /\ \A l \in 1 .. c : LatestAt(ds, y, c, l) =>
                  cur[y] = [session |-> ps[l].session, msg |-> ps[l].msg,
                            word |-> IF l = c THEN wd[f] ELSE Upto(ps[l])]
             /\ NoneAt(ds, y, c) => cur[y] = Nothing
    BY DEF ProcRight, Written
  <2>2. DOMAIN cur' = Dests /\ cur'[d] = z /\ \A y \in Dests : y # d => cur'[y] = cur[y]
    BY <1>4, <1>7, <2>1
  <2>3. /\ \A l : LatestAt(ds, d, k, l) <=> l = k
        /\ ~ NoneAt(ds, d, k)
        /\ \A y : y # d =>
             /\ \A l : LatestAt(ds, y, k, l) <=> LatestAt(ds, y, k - 1, l)
             /\ NoneAt(ds, y, k) <=> NoneAt(ds, y, k - 1)
    <3>1. k \in Nat \ {0}
      BY <1>2
    <3>2. d = ds[k]
      BY <1>1
    <3>3. ~ NoneAt(ds, ds[k], k) /\ \A l : LatestAt(ds, ds[k], k, l) <=> l = k
      BY <3>1, MoreAt
    <3>4. \A y : y # ds[k] =>
            /\ \A l : LatestAt(ds, y, k, l) <=> LatestAt(ds, y, k - 1, l)
            /\ NoneAt(ds, y, k) <=> NoneAt(ds, y, k - 1)
      BY <3>1, MoreAt
    <3>5. QED
      BY <3>2, <3>3, <3>4
  <2>4. ASSUME NEW y \in Dests, y # d
        PROVE  /\ \A l : LatestAt(ds, y, k, l) => l \in 1 .. c /\ LatestAt(ds, y, c, l) /\ l # k
               /\ NoneAt(ds, y, k) => NoneAt(ds, y, c)
    <3>1. CASE k = c
      BY <1>1, <2>4, <3>1 DEF LatestAt
    <3>2. CASE k = c + 1
      <4>1. k - 1 = c /\ \A l \in 1 .. c : l # k
        BY <1>2, <3>2
      <4>2. QED
        BY <2>3, <2>4, <4>1 DEF LatestAt
    <3>3. QED
      BY <1>2, <3>1, <3>2
  <2>5. ASSUME NEW y \in Dests, NEW l \in 1 .. k, LatestAt(ds, y, k, l)
        PROVE  cur'[y] = [session |-> ps[l].session, msg |-> ps[l].msg,
                          word |-> IF l = k THEN wd[g] ELSE Upto(ps[l])]
    <3>1. CASE y = d
      <4>1. l = k
        BY <2>3, <2>5, <3>1
      <4>2. QED
        BY <1>1, <1>6, <2>2, <3>1, <4>1
    <3>2. CASE y # d
      <4>1. l \in 1 .. c /\ LatestAt(ds, y, c, l) /\ l # k
        BY <2>4, <2>5, <3>2
      <4>2. l = c => wd[f] = Upto(ps[l])
        BY <1>2, <4>1
      <4>3. cur[y] = [session |-> ps[l].session, msg |-> ps[l].msg, word |-> Upto(ps[l])]
        BY <2>1, <4>1, <4>2
      <4>4. QED
        BY <2>2, <3>2, <4>1, <4>3
    <3>3. QED
      BY <3>1, <3>2
  <2>6. ASSUME NEW y \in Dests, NoneAt(ds, y, k) PROVE cur'[y] = Nothing
    <3>1. y # d
      BY <2>3, <2>6
    <3>2. QED
      BY <2>1, <2>2, <2>4, <2>6, <3>1
  <2>7. QED
    BY <1>1, <2>2, <2>5, <2>6 DEF Written
<1>11. QED
  BY <1>3, <1>8, <1>9, <1>10

(* procStream forwards a word of the packet of its answer in hand.         *)
LEMMA ForwardFacts ==
  ASSUME MuxInv, NEW ps, NEW ds, NEW pk, NEW wd, NEW n, NEW a, NEW c, NEW e, NEW f,
         Past(ps, ds, pk, wd, n, a, c, e, f), ProcRight(ps, ds, pk, wd, a, c, e, f),
         WaitStream \/ Consume
  PROVE  /\ inQ # <<>> /\ pk[f + 1] <= a /\ pk[f + 1] \in 1 .. a
         /\ resp' = Answer(ps[pk[f + 1]], ds[pk[f + 1]])
         /\ Forward(Head(inQ), resp') /\ sending' = sending
         /\ WaitStream => pk[f + 1] = c + 1
         /\ Consume => pk[f + 1] = c
<1>1. inQ # <<>> /\ sending' = sending /\ Forward(Head(inQ), resp')
  <2>1. CASE WaitStream
    BY <2>1 DEF WaitStream, netVars
  <2>2. CASE Consume
    <3>1. resp' = resp
      BY <2>2 DEF Consume
    <3>2. QED
      BY <2>2, <3>1 DEF Consume, netVars
  <2>3. QED
    BY <2>1, <2>2
<1>2. PICK k : k = pk[f + 1]
  OBVIOUS
<1>3. /\ c \in Nat /\ a \in Nat /\ c <= a /\ a <= n /\ n \in Nat /\ k \in 1 .. n
      /\ \/ proc = "WAIT_STREAM" /\ k = c + 1
         \/ proc = "CONSUME" /\ c > 0 /\ k = c
  <2>1. c <= a /\ a <= n
    BY DEF Past
  <2>2. QED
    BY <1>1, <1>2, <2>1, NextWord
<1>4. /\ a = c + Len(respQ)
      /\ \A i \in 1 .. Len(respQ) : respQ[i] = Answer(ps[c + i], ds[c + i])
      /\ c > 0 => resp = Answer(ps[c], ds[c])
  BY DEF ProcRight, Answers
<1>5. CASE WaitStream
  <2>1. /\ proc = "WAIT_STREAM" /\ respQ # <<>> /\ resp' = Head(respQ) /\ ~ Consume
    BY <1>5 DEF WaitStream, Consume
  <2>2. IsSeq(respQ)
    BY DEF MuxInv, Shape
  <2>3. Len(respQ) \in Nat /\ Len(respQ) >= 1 /\ Head(respQ) = respQ[1]
    BY <2>1, <2>2, TailFacts
  <2>4. k = c + 1
    BY <1>3, <2>1
  <2>5. k <= a /\ k \in 1 .. a /\ resp' = Answer(ps[k], ds[k])
    BY <1>3, <1>4, <2>1, <2>3, <2>4
  <2>6. QED
    BY <1>1, <1>2, <2>1, <2>4, <2>5
<1>6. CASE Consume
  <2>1. proc = "CONSUME" /\ resp' = resp /\ ~ WaitStream
    BY <1>6 DEF WaitStream, Consume
  <2>2. k = c /\ c > 0
    BY <1>3, <2>1
  <2>3. k <= a /\ k \in 1 .. a /\ resp' = Answer(ps[k], ds[k])
    BY <1>3, <1>4, <2>1, <2>2
  <2>4. QED
    BY <1>1, <1>2, <2>1, <2>2, <2>3
<1>7. QED
  BY <1>5, <1>6

(* The first word of a packet: the answer is taken, and after a miss the   *)
(* size of the message goes to the table.                                  *)
LEMMA WaitStreamStory ==
  ASSUME MuxInv, NEW ps, NEW ds, NEW pk, NEW wd, NEW n, NEW a, NEW c, NEW e, NEW f,
         Past(ps, ds, pk, wd, n, a, c, e, f), LookupRight(ps, ds, n, a),
         ProcRight(ps, ds, pk, wd, a, c, e, f), WaitStream
  PROVE  Story'
<1>1. PICK k : k = pk[f + 1]
  OBVIOUS
<1>2. /\ inQ # <<>> /\ k <= a /\ k \in 1 .. a /\ k = c + 1
      /\ resp' = Answer(ps[k], ds[k]) /\ Forward(Head(inQ), resp') /\ sending' = sending
  BY <1>1, ForwardFacts
<1>3. /\ Past(ps, ds, pk, wd, n, a, k, e, f + 1)
      /\ Arriving(ps, pk, wd, e, f + 1)' /\ Forwarded(ps, pk, wd, f + 1, k)'
      /\ Written(ps, ds, pk, wd, f + 1, k)'
  BY <1>1, <1>2, ForwardStory
<1>4. /\ respQ # <<>> /\ respQ' = Tail(respQ)
      /\ updQ' = IF resp'.hit THEN updQ
                 ELSE Append(updQ, [msgSize |-> MsgSize(Head(inQ).session, Head(inQ).msg),
                                    session |-> resp'.session, dest |-> resp'.dest,
                                    pktLen |-> resp'.pktLen])
      /\ UNCHANGED <<lookup, valid, sessionOf, total, rcvd, freeDest, req, reqQ, next>>
  BY DEF WaitStream, lookupVars, table, netVars
<1>5. c \in Nat /\ a \in Nat /\ n \in Nat /\ a <= n
  BY DEF Past
<1>6. /\ IsSeq(respQ) /\ a = c + Len(respQ)
      /\ \A i \in 1 .. Len(respQ) : respQ[i] = Answer(ps[c + i], ds[c + i])
  BY DEF ProcRight, Answers, MuxInv, Shape
<1>7. PICK q : /\ q = Tail(respQ) /\ IsSeq(q) /\ Len(q) = Len(respQ) - 1
               /\ Len(respQ) \in Nat \ {0} /\ Head(respQ) = respQ[1]
               /\ \A i \in 1 .. Len(respQ) - 1 : q[i] = respQ[i + 1]
  BY <1>4, <1>6, TailFacts
<1>8. Answers(ps, ds, a, k)'
  <2>1. a = k + Len(q)
    BY <1>2, <1>5, <1>6, <1>7
  <2>2. ASSUME NEW i \in 1 .. Len(q) PROVE q[i] = Answer(ps[k + i], ds[k + i])
    <3>1. i \in 1 .. Len(respQ) - 1 /\ i + 1 \in 1 .. Len(respQ) /\ c + (i + 1) = k + i
      BY <1>2, <1>5, <1>7
    <3>2. QED
      BY <1>6, <1>7, <3>1
  <2>3. QED
    BY <1>2, <1>4, <1>7, <2>1, <2>2 DEF Answers
<1>9. /\ Announced(ps, n)' /\ Requested(ps, n, a)' /\ EntryRight(ps, ds, a)'
      /\ FreeComplete(ps, ds, a)' /\ NoEntryComplete(ps, a)'
  <2>1. Used' = Used /\ Free' = Free /\ \A s : Entries(s)' = Entries(s)
    BY <1>4 DEF Used, Free, Entries
  <2>2. Announced(ps, n)' /\ Requested(ps, n, a)'
    BY <1>4 DEF LookupRight, Announced, Requested, LookedUp
  <2>3. EntryRight(ps, ds, a)' /\ FreeComplete(ps, ds, a)' /\ NoEntryComplete(ps, a)'
    BY <1>4, <2>1 DEF LookupRight, EntryRight, FreeComplete, NoEntryComplete
  <2>4. QED
    BY <2>2, <2>3
<1>10. SizeAwaited(ps, ds, a)'
  <2>1. SizeAwaited(ps, ds, a)
    BY DEF LookupRight
  <2>2. CASE resp'.hit
    <3>1. updQ' = updQ
      BY <1>4, <2>2
    <3>2. QED
      BY <1>4, <2>1, <3>1 DEF SizeAwaited
  <2>3. CASE ~ resp'.hit
    <3>1. resp' = respQ[1] /\ 1 \in DOMAIN respQ
      <4>1. resp' = Head(respQ)
        BY DEF WaitStream
      <4>2. DOMAIN respQ = 1 .. Len(respQ)
        BY <1>4, <1>6, TailFacts
      <4>3. QED
        BY <1>7, <4>1, <4>2
    <3>2. ~ AllHits
      BY <2>3, <3>1 DEF AllHits
    <3>3. lookup = "UPDATE" /\ AwaitedAnswer
      BY <3>2 DEF MuxInv, Awaited, AwaitedUpdate
    <3>4. Len(respQ) = 1 /\ updQ = <<>>
      BY <2>3, <3>1, <3>3 DEF AwaitedAnswer
    <3>5. k = a
      BY <1>2, <1>5, <1>6, <3>4
    <3>6. PICK x, d : x = ps[a] /\ d = ds[a]
      OBVIOUS
    <3>7. resp'.session = x.session /\ resp'.dest = d /\ resp'.pktLen = PktLen(x)
      BY <1>2, <3>5, <3>6 DEF Answer
    <3>8. MsgSize(Head(inQ).session, Head(inQ).msg) = Whole(x)
      <4>1. Head(inQ) = WordAt(ps, pk, wd, f + 1)
        BY <1>2, NextWord
      <4>2. Head(inQ).session = x.session /\ Head(inQ).msg = x.msg
        BY <1>1, <3>5, <3>6, <4>1 DEF WordAt
      <4>3. QED
        BY <4>2 DEF Whole
    <3>9. PICK u : u = [msgSize |-> Whole(x), session |-> x.session, dest |-> d,
                        pktLen |-> PktLen(x)]
      OBVIOUS
    <3>10. updQ' = <<u>>
      <4>1. updQ' = Append(<<>>, u)
        BY <1>4, <2>3, <3>4, <3>7, <3>8, <3>9
      <4>2. QED
        BY <4>1, ShortQueues
    <3>11. updQ'[1] = u
      BY <3>10, ShortQueues
    <3>12. QED
      BY <1>4, <2>1, <3>3, <3>6, <3>9, <3>11 DEF SizeAwaited
  <2>4. QED
    BY <2>2, <2>3
<1>11. LookupRight(ps, ds, n, a)' /\ ProcRight(ps, ds, pk, wd, a, k, e, f + 1)'
  BY <1>3, <1>8, <1>9, <1>10 DEF LookupRight, ProcRight
<1>12. QED
  BY <1>3, <1>11 DEF Story

(* A further word of a packet.                                             *)
LEMMA ConsumeStory ==
  ASSUME MuxInv, NEW ps, NEW ds, NEW pk, NEW wd, NEW n, NEW a, NEW c, NEW e, NEW f,
         Past(ps, ds, pk, wd, n, a, c, e, f), LookupRight(ps, ds, n, a),
         ProcRight(ps, ds, pk, wd, a, c, e, f), Consume
  PROVE  Story'
<1>1. PICK k : k = pk[f + 1]
  OBVIOUS
<1>2. /\ inQ # <<>> /\ k <= a /\ k \in 1 .. a /\ k = c
      /\ resp' = Answer(ps[k], ds[k]) /\ Forward(Head(inQ), resp') /\ sending' = sending
  BY <1>1, ForwardFacts
<1>3. /\ Past(ps, ds, pk, wd, n, a, k, e, f + 1)
      /\ Arriving(ps, pk, wd, e, f + 1)' /\ Forwarded(ps, pk, wd, f + 1, k)'
      /\ Written(ps, ds, pk, wd, f + 1, k)'
  BY <1>1, <1>2, ForwardStory
<1>4. UNCHANGED <<lookupVars, reqQ, respQ, updQ, next>>
  BY DEF Consume, netVars
<1>5. Answers(ps, ds, a, k)'
  BY <1>2, <1>4 DEF ProcRight, Answers
<1>6. LookupRight(ps, ds, n, a)'
  BY <1>4, LookupSame
<1>7. ProcRight(ps, ds, pk, wd, a, k, e, f + 1)'
  BY <1>3, <1>5 DEF ProcRight
<1>8. QED
  BY <1>3, <1>6, <1>7 DEF Story

-----------------------------------------------------------------------------
(* What a word that is forwarded means for its destination: it is the      *)
(* first one of a message, there or after a complete one, or the next one. *)
LEMMA DestForward ==
  ASSUME MuxInv, NEW ps, NEW ds, NEW pk, NEW wd, NEW n, NEW a, NEW c, NEW e, NEW f,
         Past(ps, ds, pk, wd, n, a, c, e, f), ProcRight(ps, ds, pk, wd, a, c, e, f),
         WaitStream \/ Consume, NEW d \in Dests, cur'[d] # cur[d]
  PROVE  IF cur'[d].word = 1
         THEN cur[d] = Nothing \/ cur[d].word = MsgSize(cur[d].session, cur[d].msg)
         ELSE cur[d] = [cur'[d] EXCEPT !.word = @ - 1]
<1>1. PICK g, k, x : g = f + 1 /\ k = pk[g] /\ x = ps[k]
  OBVIOUS
<1>2. /\ inQ # <<>> /\ k \in 1 .. a /\ resp' = Answer(x, ds[k]) /\ Forward(Head(inQ), resp')
  BY <1>1, ForwardFacts
<1>3. /\ f \in Nat /\ c \in Nat /\ a \in Nat
      /\ Head(inQ) = WordAt(ps, pk, wd, g) /\ IsPacket(x) /\ wd[g] \in Nat
      /\ wd[g] > Before(x)
      /\ \/ k = c + 1 /\ wd[g] = Before(x) + 1 /\ (c > 0 => wd[f] = Upto(ps[c]))
         \/ k = c /\ c > 0 /\ wd[g] = wd[f] + 1 /\ wd[f] \in Nat /\ wd[f] > Before(x)
  BY <1>1, <1>2, NextWord
<1>4. PICK w : w = Head(inQ) /\ w.session = x.session /\ w.msg = x.msg /\ w.word = wd[g]
  BY <1>1, <1>3 DEF WordAt
<1>5. PICK r : r = resp' /\ r.dest = ds[k]
  BY <1>2 DEF Answer
<1>6. PICK z : z = [session |-> x.session, msg |-> x.msg, word |-> wd[g]]
  OBVIOUS
<1>7. cur' = [cur EXCEPT ![ds[k]] = z]
  <2>1. Forward(w, r)
    BY <1>2, <1>4, <1>5
  <2>2. QED
    BY <1>4, <1>5, <1>6, <2>1 DEF Forward
<1>8. /\ DOMAIN cur = Dests
      /\ \A l \in 1 .. c : LatestAt(ds, d, c, l) =>
           cur[d] = [session |-> ps[l].session, msg |-> ps[l].msg,
                     word |-> IF l = c THEN wd[f] ELSE Upto(ps[l])]
      /\ NoneAt(ds, d, c) => cur[d] = Nothing
  BY DEF ProcRight, Written
<1>9. d = ds[k] /\ cur'[d] = z
  BY <1>7, <1>8
<1>10. Before(x) \in Nat /\ (Before(x) = 0 <=> Starts(x))
  BY <1>3, PacketFacts
<1>11. CASE k = c /\ c > 0 /\ wd[g] = wd[f] + 1 /\ wd[f] \in Nat /\ wd[f] > Before(x)
  <2>1. LatestAt(ds, d, c, c) /\ c \in 1 .. c
    <3>1. c \in Nat \ {0} /\ c \in 1 .. c
      BY <1>3, <1>11
    <3>2. QED
      BY <1>9, <1>11, <3>1, MoreAt
  <2>2. cur[d] = [session |-> x.session, msg |-> x.msg, word |-> wd[f]]
    BY <1>1, <1>8, <1>11, <2>1
  <2>3. wd[g] # 1 /\ wd[g] - 1 = wd[f]
    BY <1>10, <1>11
  <2>4. z.word = wd[g] /\ [z EXCEPT !.word = @ - 1] = cur[d]
    BY <1>6, <2>2, <2>3
  <2>5. QED
    BY <1>9, <2>3, <2>4
<1>12. CASE k = c + 1 /\ wd[g] = Before(x) + 1 /\ (c > 0 => wd[f] = Upto(ps[c]))
  <2>1. k - 1 = c /\ (wd[g] = 1 <=> Starts(x)) /\ wd[g] - 1 = Before(x) /\ z.word = wd[g]
    BY <1>3, <1>6, <1>10, <1>12
  <2>2. /\ \A l \in 1 .. c : LatestAt(ds, d, c, l) => Follows(ps[l], x)
        /\ NoneAt(ds, d, c) => Starts(x)
    <3>1. /\ \A l \in 1 .. k - 1 : LatestAt(ds, ds[k], k - 1, l) => Follows(ps[l], ps[k])
          /\ NoneAt(ds, ds[k], k - 1) => Starts(ps[k])
      BY <1>2 DEF Past, Given
    <3>2. QED
      BY <1>1, <1>9, <2>1, <3>1
  <2>3. CASE NoneAt(ds, d, c)
    BY <1>8, <1>9, <2>1, <2>2, <2>3
  <2>4. ASSUME NEW l \in 1 .. c, LatestAt(ds, d, c, l)
        PROVE  IF z.word = 1
               THEN cur[d].word = MsgSize(cur[d].session, cur[d].msg)
               ELSE cur[d] = [z EXCEPT !.word = @ - 1]
    <3>1. PICK p : p = ps[l] /\ IsPacket(p) /\ Follows(p, x)
      <4>1. l \in 1 .. n
        BY <1>3, <2>4 DEF Past
      <4>2. QED
        BY <2>2, <2>4, <4>1 DEF Past, InOrder
    <3>2. cur[d] = [session |-> p.session, msg |-> p.msg, word |-> Upto(p)]
      <4>1. l = c => wd[f] = Upto(p)
        BY <1>3, <1>12, <2>4, <3>1
      <4>2. QED
        BY <1>8, <2>4, <3>1, <4>1
    <3>3. CASE Continues(p, x)
      <4>1. Before(x) = Upto(p) /\ x.session = p.session /\ x.msg = p.msg /\ ~ Starts(x)
        BY <1>3, <3>1, <3>3, ContinueFacts
      <4>2. z.word # 1 /\ z = [session |-> p.session, msg |-> p.msg, word |-> wd[g]]
            /\ wd[g] - 1 = Upto(p)
        BY <1>6, <2>1, <4>1
      <4>3. [z EXCEPT !.word = @ - 1] = cur[d]
        BY <3>2, <4>2
      <4>4. QED
        BY <4>2, <4>3
    <3>4. CASE Ends(p) /\ Starts(x)
      <4>1. Upto(p) = MsgSize(p.session, p.msg)
        BY <3>1, <3>4, PacketFacts DEF Whole
      <4>2. z.word = 1
        BY <2>1, <3>4
      <4>3. QED
        BY <3>2, <4>1, <4>2
    <3>5. QED
      BY <3>1, <3>3, <3>4 DEF Follows
  <2>5. QED
    BY <1>3, <1>9, <2>3, <2>4, SomeAt
<1>13. QED
  BY <1>3, <1>11, <1>12

(* The word is marked as the last one of its message if it is that, and    *)
(* only then, unless its packet is its whole message.                      *)
LEMMA MarkForward ==
  ASSUME MuxInv, NEW ps, NEW ds, NEW pk, NEW wd, NEW n, NEW a, NEW c, NEW e, NEW f,
         Past(ps, ds, pk, wd, n, a, c, e, f), ProcRight(ps, ds, pk, wd, a, c, e, f),
         WaitStream \/ Consume
  PROVE  LET w == inQ[1] IN
           Len(Messages[w.session][w.msg]) > 1 =>
             (MarkedLast <=> w.word = MsgSize(w.session, w.msg))
<1>1. PICK g, k, x : g = f + 1 /\ k = pk[g] /\ x = ps[k]
  OBVIOUS
<1>2. inQ # <<>> /\ resp' = Answer(x, ds[k])
  BY <1>1, ForwardFacts
<1>3. /\ inQ[1] = WordAt(ps, pk, wd, g) /\ IsPacket(x) /\ wd[g] \in Nat
      /\ wd[g] <= Upto(x)
  BY <1>1, <1>2, NextWord
<1>4. PICK w : /\ w = inQ[1] /\ w.session = x.session /\ w.msg = x.msg /\ w.word = wd[g]
               /\ w.last = (wd[g] = Upto(x))
  <2>1. inQ[1] = [session |-> x.session, msg |-> x.msg, word |-> wd[g],
                  last |-> (wd[g] = Upto(x))]
    BY <1>1, <1>3 DEF WordAt, LastAt
  <2>2. QED
    BY <2>1
<1>5. resp'.isLastPkt = (~ Starts(x) /\ Ends(x))
  BY <1>2 DEF Answer
<1>6. PICK u \in Nat, v \in Nat : u = Upto(x) /\ v = Whole(x) /\ u <= v /\ (u = v <=> Ends(x))
  BY <1>3, PacketFacts
<1>7. wd[g] = v <=> wd[g] = u /\ Ends(x)
  <2>1. PICK i \in Nat : i = wd[g] /\ i <= u
    BY <1>3, <1>6
  <2>2. QED
    BY <1>6, <2>1
<1>8. Len(Messages[x.session][x.msg]) > 1 /\ Ends(x) => ~ Starts(x)
  <2>1. Len(Messages[x.session][x.msg]) \in Nat
    BY <1>3, MessageFacts DEF IsPacket
  <2>2. PICK m \in Nat : m = Len(Messages[x.session][x.msg])
    BY <2>1
  <2>3. m > 1 /\ x.pkt = m => x.pkt # 1
    OBVIOUS
  <2>4. QED
    BY <2>2, <2>3 DEF Ends, Starts
<1>9. w.word = MsgSize(w.session, w.msg) <=> wd[g] = v
  BY <1>4, <1>6 DEF Whole
<1>10. MarkedLast <=> wd[g] = u /\ ~ Starts(x) /\ Ends(x)
  BY <1>4, <1>5, <1>6 DEF MarkedLast
<1>11. QED
  BY <1>4, <1>7, <1>8, <1>9, <1>10

(* No other step forwards a word.                                          *)
LEMMA OnlyForward ==
  ASSUME [MuxNext]_vars PROVE WaitStream \/ Consume \/ cur' = cur
  BY DEF MuxNext, vars, procVars, Populate, Req, HitResp, MissResp, Update, Announce, WordArrives

LEMMA DestStep ==
  ASSUME MuxInv, Story, [MuxNext]_vars
  PROVE  \A d \in Dests : cur'[d] # cur[d] =>
           IF cur'[d].word = 1
           THEN cur[d] = Nothing \/ cur[d].word = MsgSize(cur[d].session, cur[d].msg)
           ELSE cur[d] = [cur'[d] EXCEPT !.word = @ - 1]
<1>1. CASE cur' = cur
  BY <1>1
<1>2. CASE WaitStream \/ Consume
  <2>1. PICK ps, ds, pk, wd, n, a, c, e, f :
          Past(ps, ds, pk, wd, n, a, c, e, f) /\ ProcRight(ps, ds, pk, wd, a, c, e, f)
    BY DEF Story
  <2>2. QED
    BY <1>2, <2>1, DestForward
<1>3. QED
  BY <1>1, <1>2, OnlyForward

LEMMA MarkStep ==
  ASSUME MuxInv, Story, [MuxNext]_vars
  PROVE  cur' # cur =>
           LET w == inQ[1] IN
             Len(Messages[w.session][w.msg]) > 1 =>
               (MarkedLast <=> w.word = MsgSize(w.session, w.msg))
<1>1. CASE cur' = cur
  BY <1>1
<1>2. CASE WaitStream \/ Consume
  <2>1. PICK ps, ds, pk, wd, n, a, c, e, f :
          Past(ps, ds, pk, wd, n, a, c, e, f) /\ ProcRight(ps, ds, pk, wd, a, c, e, f)
    BY DEF Story
  <2>2. QED
    BY <1>2, <2>1, MarkForward
<1>3. QED
  BY <1>1, <1>2, OnlyForward

-----------------------------------------------------------------------------
(* The packet that a session announces, and what it follows.               *)
LEMMA AnnouncedFacts ==
  ASSUME NEW ps, NEW n \in Nat, InOrder(ps, n), Announced(ps, n), NEW s \in Sessions,
         next[s].msg <= Len(Messages[s]), NEW x,
         x = [session |-> s, msg |-> next[s].msg, pkt |-> next[s].pkt]
  PROVE  /\ IsPacket(x)
         /\ \A l \in 1 .. n : LatestOf(ps, s, n, l) => PlaceOf(x) = NextOf(ps[l])
         /\ NoneOf(ps, s, n) => Starts(x)
<1>1. /\ \A l \in 1 .. n : LatestOf(ps, s, n, l) => next[s] = NextOf(ps[l])
      /\ NoneOf(ps, s, n) => next[s] = [msg |-> 1, pkt |-> 1]
  BY DEF Announced
<1>2. PICK k : k = Len(Messages[s]) /\ k \in Nat
  <2>1. Messages[s] \in Seq(Seq(Nat \ {0}) \ {<<>>})
    BY MuxAssumption
  <2>2. QED
    BY <2>1
<1>3. CASE NoneOf(ps, s, n)
  <2>1. x = [session |-> s, msg |-> 1, pkt |-> 1] /\ 1 \in 1 .. k
    BY <1>1, <1>2, <1>3
  <2>2. 1 \in 1 .. Len(Messages[s][1])
    <3>1. Len(Messages[s][1]) \in Nat \ {0}
      BY <1>2, <2>1, MessageFacts
    <3>2. QED
      BY <3>1
  <2>3. IsPacket(x) /\ Starts(x)
    BY <1>2, <2>1, <2>2 DEF IsPacket, Starts
  <2>4. \A l \in 1 .. n : ~ LatestOf(ps, s, n, l)
    BY <1>3 DEF NoneOf, LatestOf
  <2>5. QED
    BY <2>3, <2>4
<1>4. ASSUME NEW l \in 1 .. n, LatestOf(ps, s, n, l) PROVE IsPacket(x) /\ ~ NoneOf(ps, s, n)
  <2>0. ~ NoneOf(ps, s, n)
    BY <1>4 DEF NoneOf, LatestOf
  <2>1. PICK p : p = ps[l] /\ IsPacket(p) /\ p.session = s
    BY <1>4 DEF InOrder, LatestOf
  <2>2. PICK m \in Nat, i \in Nat :
          /\ m = p.msg /\ i = p.pkt /\ m \in 1 .. k /\ i \in 1 .. Len(Messages[s][m])
    BY <1>2, <2>1 DEF IsPacket
  <2>3. next[s] = NextOf(p)
    BY <1>1, <1>4, <2>1
  <2>4. CASE Ends(p)
    <3>1. PICK j \in Nat : j = m + 1 /\ j >= 1
      BY <2>2
    <3>2. next[s].msg = j /\ next[s].pkt = 1
      BY <2>2, <2>3, <2>4, <3>1 DEF NextOf
    <3>3. j \in 1 .. k
      BY <1>2, <3>1, <3>2
    <3>4. 1 \in 1 .. Len(Messages[s][j])
      <4>1. Len(Messages[s][j]) \in Nat \ {0}
        BY <1>2, <3>3, MessageFacts
      <4>2. QED
        BY <4>1
    <3>5. x = [session |-> s, msg |-> j, pkt |-> 1]
      BY <3>2
    <3>6. QED
      BY <1>2, <3>1, <3>3, <3>4, <3>5, <2>0 DEF IsPacket
  <2>5. CASE ~ Ends(p)
    <3>1. PICK t \in Nat : t = Len(Messages[s][m]) /\ i <= t /\ i # t
      <4>1. Len(Messages[s][m]) \in Nat
        BY <1>2, <2>2, MessageFacts
      <4>2. i # Len(Messages[s][m])
        BY <2>1, <2>2, <2>5 DEF Ends
      <4>3. QED
        BY <2>2, <4>1, <4>2
    <3>2. next[s].msg = m /\ next[s].pkt = i + 1
      BY <2>2, <2>3, <2>5 DEF NextOf
    <3>3. x = [session |-> s, msg |-> m, pkt |-> i + 1] /\ i + 1 \in 1 .. t /\ i + 1 \in Nat
      BY <3>1, <3>2
    <3>4. /\ x.session \in Sessions /\ x.msg = m /\ x.pkt = i + 1
          /\ x \in [session : Sessions, msg : Nat, pkt : Nat] /\ m \in 1 .. Len(Messages[s])
          /\ i + 1 \in 1 .. Len(Messages[s][m]) /\ x.session = s
      BY <1>2, <2>2, <3>1, <3>3
    <3>5. QED
      BY <2>0, <3>4 DEF IsPacket
  <2>6. QED
    BY <2>4, <2>5
<1>5. ASSUME NEW l \in 1 .. n, LatestOf(ps, s, n, l) PROVE PlaceOf(x) = NextOf(ps[l])
  <2>1. next[s] = NextOf(ps[l])
    BY <1>1, <1>5
  <2>2. PICK i, j : next[s] = [msg |-> i, pkt |-> j]
    BY <2>1 DEF NextOf
  <2>3. QED
    BY <2>1, <2>2 DEF PlaceOf
<1>6. QED
  BY <1>3, <1>4, <1>5, SomeOf

(* Its words follow those of the packets before it.                        *)
Longer(ps, pk, wd, n, e, x, qs, hk, hd, N, t, g) ==
  /\ n \in Nat /\ N = n + 1 /\ e \in Nat /\ g = e + t /\ t = PktLen(x)
  /\ \A k \in 1 .. n : qs[k] = ps[k]
  /\ IsPacket(x) /\ qs[N] = x /\ Cut(ps, n, pk, wd, e)
  /\ \A i \in 1 .. g : hk[i] = IF i <= e THEN pk[i] ELSE N
  /\ \A i \in 1 .. g : hd[i] = IF i <= e THEN wd[i] ELSE Before(x) + (i - e)

LEMMA CutMore ==
  ASSUME NEW ps, NEW pk, NEW wd, NEW n, NEW e, NEW x, NEW qs, NEW hk, NEW hd, NEW N, NEW t, NEW g,
         Longer(ps, pk, wd, n, e, x, qs, hk, hd, N, t, g)
  PROVE  /\ Cut(qs, N, hk, hd, g)
         /\ \A i \in 1 .. e : LastAt(qs, hk, hd, i) <=> LastAt(ps, pk, wd, i)
         /\ \A i \in 1 .. e : WordAt(qs, hk, hd, i) = WordAt(ps, pk, wd, i)
         /\ \A i \in 1 .. t :
              WordAt(qs, hk, hd, e + i) = [session |-> x.session, msg |-> x.msg,
                                           word |-> Before(x) + i, last |-> i = t]
<1>0. /\ n \in Nat /\ N = n + 1 /\ e \in Nat /\ g = e + t /\ t = PktLen(x)
      /\ \A k \in 1 .. n : qs[k] = ps[k]
      /\ IsPacket(x) /\ qs[N] = x /\ Cut(ps, n, pk, wd, e)
      /\ \A i \in 1 .. g : hk[i] = IF i <= e THEN pk[i] ELSE N
      /\ \A i \in 1 .. g : hd[i] = IF i <= e THEN wd[i] ELSE Before(x) + (i - e)
  BY DEF Longer
<1>1. PICK b \in Nat, u \in Nat :
        t \in Nat \ {0} /\ b = Before(x) /\ u = Upto(x) /\ u = b + t
  BY <1>0, PacketFacts
<1>2. /\ n \in Nat /\ e \in Nat /\ N \in Nat /\ g \in Nat /\ g > e /\ t \in Nat \ {0}
      /\ g = e + t /\ N = n + 1
  BY <1>0, <1>1
<1>3. /\ \A i \in 1 .. e :
           /\ pk[i] \in 1 .. n /\ wd[i] \in Nat
           /\ wd[i] > Before(ps[pk[i]]) /\ wd[i] <= Upto(ps[pk[i]])
      /\ e > 0 => pk[1] = 1 /\ wd[1] = Before(ps[1]) + 1
      /\ \A i \in 1 .. e - 1 :
           IF LastAt(ps, pk, wd, i)
           THEN pk[i + 1] = pk[i] + 1 /\ wd[i + 1] = Before(ps[pk[i] + 1]) + 1
           ELSE pk[i + 1] = pk[i] /\ wd[i + 1] = wd[i] + 1
      /\ IF n = 0 THEN e = 0 ELSE e > 0 /\ pk[e] = n /\ LastAt(ps, pk, wd, e)
  BY <1>0 DEF Cut
<1>4. ASSUME NEW i \in 1 .. e
      PROVE  /\ i \in 1 .. g /\ hk[i] = pk[i] /\ hd[i] = wd[i] /\ pk[i] \in 1 .. n
             /\ qs[hk[i]] = ps[pk[i]]
  <2>1. i \in 1 .. g /\ i <= e
    BY <1>2
  <2>2. hk[i] = pk[i] /\ hd[i] = wd[i]
    BY <1>0, <2>1
  <2>3. QED
    BY <1>0, <1>3, <2>1, <2>2
<1>5. ASSUME NEW i \in 1 .. t
      PROVE  /\ e + i \in 1 .. g /\ hk[e + i] = N /\ hd[e + i] = b + i
             /\ qs[hk[e + i]] = x
  <2>1. PICK j \in Nat : j = e + i /\ j \in 1 .. g /\ ~ (j <= e) /\ j - e = i
    BY <1>2
  <2>2. hk[j] = N /\ hd[j] = b + i
    BY <1>0, <1>1, <2>1
  <2>3. QED
    BY <1>0, <2>1, <2>2
<1>6. \A i \in 1 .. e : LastAt(qs, hk, hd, i) <=> LastAt(ps, pk, wd, i)
  BY <1>4 DEF LastAt
<1>7. ASSUME NEW i \in 1 .. t PROVE LastAt(qs, hk, hd, e + i) <=> i = t
  <2>1. LastAt(qs, hk, hd, e + i) <=> b + i = u
    BY <1>1, <1>5 DEF LastAt
  <2>2. b + i = u <=> i = t
    BY <1>1
  <2>3. QED
    BY <2>1, <2>2
<1>8. ASSUME NEW i \in 1 .. e PROVE WordAt(qs, hk, hd, i) = WordAt(ps, pk, wd, i)
  <2>1. LastAt(qs, hk, hd, i) = LastAt(ps, pk, wd, i)
    BY <1>4 DEF LastAt
  <2>2. QED
    BY <1>4, <2>1 DEF WordAt
<1>9. ASSUME NEW i \in 1 .. t
      PROVE  WordAt(qs, hk, hd, e + i) = [session |-> x.session, msg |-> x.msg,
                                          word |-> b + i, last |-> i = t]
  <2>1. LastAt(qs, hk, hd, e + i) = (i = t)
    BY <1>7 DEF LastAt
  <2>2. QED
    BY <1>5, <2>1 DEF WordAt
<1>10. Cut(qs, N, hk, hd, g)
  <2>1. ASSUME NEW i \in 1 .. g
        PROVE  /\ hk[i] \in 1 .. N /\ hd[i] \in Nat
               /\ hd[i] > Before(qs[hk[i]]) /\ hd[i] <= Upto(qs[hk[i]])
    <3>1. CASE i <= e
      <4>1. i \in 1 .. e
        BY <3>1
      <4>2. pk[i] \in 1 .. n => pk[i] \in 1 .. N
        BY <1>2
      <4>3. QED
        BY <1>3, <1>4, <4>1, <4>2
    <3>2. CASE ~ (i <= e)
      <4>1. PICK j \in 1 .. t : i = e + j
        <5>1. i - e \in 1 .. t /\ i = e + (i - e)
          BY <1>2, <3>2
        <5>2. QED
          BY <5>1
      <4>2. hk[i] = N /\ hd[i] = b + j /\ qs[hk[i]] = x
        BY <1>5, <4>1
      <4>3. N \in 1 .. N /\ b + j \in Nat /\ b + j > b /\ b + j <= u
        BY <1>1, <1>2
      <4>4. QED
        BY <1>1, <4>2, <4>3
    <3>3. QED
      BY <3>1, <3>2
  <2>2. hk[1] = 1 /\ hd[1] = Before(qs[1]) + 1
    <3>1. CASE e > 0
      <4>1. 1 \in 1 .. e /\ n # 0
        BY <1>2, <1>3, <3>1
      <4>2. 1 \in 1 .. n
        BY <1>2, <4>1
      <4>3. QED
        BY <1>0, <1>3, <1>4, <3>1, <4>1, <4>2
    <3>2. CASE ~ (e > 0)
      <4>1. e = 0 /\ 1 \in 1 .. t /\ e + 1 = 1 /\ n = 0 /\ N = 1
        BY <1>2, <1>3, <3>2
      <4>2. hk[1] = N /\ hd[1] = b + 1 /\ qs[hk[1]] = x
        BY <1>5, <4>1
      <4>3. QED
        BY <1>1, <4>1, <4>2
    <3>3. QED
      BY <3>1, <3>2
  <2>3. ASSUME NEW i \in 1 .. g - 1
        PROVE  IF LastAt(qs, hk, hd, i)
               THEN hk[i + 1] = hk[i] + 1 /\ hd[i + 1] = Before(qs[hk[i] + 1]) + 1
               ELSE hk[i + 1] = hk[i] /\ hd[i + 1] = hd[i] + 1
    <3>1. CASE i < e
      <4>1. i \in 1 .. e /\ i + 1 \in 1 .. e /\ i \in 1 .. e - 1
        BY <1>2, <3>1
      <4>2. LastAt(ps, pk, wd, i) => qs[pk[i] + 1] = ps[pk[i] + 1]
        <5>1. LastAt(ps, pk, wd, i) => pk[i] + 1 \in 1 .. n
          BY <1>3, <4>1
        <5>2. QED
          BY <1>0, <5>1
      <4>3. /\ hk[i] = pk[i] /\ hd[i] = wd[i] /\ hk[i + 1] = pk[i + 1] /\ hd[i + 1] = wd[i + 1]
            /\ LastAt(qs, hk, hd, i) <=> LastAt(ps, pk, wd, i)
        BY <1>4, <1>6, <4>1
      <4>4. IF LastAt(ps, pk, wd, i)
            THEN pk[i + 1] = pk[i] + 1 /\ wd[i + 1] = Before(ps[pk[i] + 1]) + 1
            ELSE pk[i + 1] = pk[i] /\ wd[i + 1] = wd[i] + 1
        BY <1>3, <4>1
      <4>5. QED
        BY <4>2, <4>3, <4>4
    <3>2. CASE i = e
      <4>1. e \in 1 .. e /\ e > 0 /\ n # 0 /\ 1 \in 1 .. t
        BY <1>2, <1>3, <3>2
      <4>2. LastAt(qs, hk, hd, e) /\ hk[e] = n
        BY <1>3, <1>4, <1>6, <4>1
      <4>3. hk[e + 1] = N /\ hd[e + 1] = b + 1
        BY <1>5, <4>1
      <4>4. Before(qs[n + 1]) = b
        BY <1>0, <1>1
      <4>5. QED
        BY <1>2, <3>2, <4>2, <4>3, <4>4
    <3>3. CASE i > e
      <4>1. PICK j \in Nat, m \in Nat :
              /\ i = e + j /\ m = j + 1 /\ i + 1 = e + m /\ j \in 1 .. t /\ m \in 1 .. t /\ j # t
        <5>1. i - e \in Nat /\ i - e \in 1 .. t /\ i - e + 1 \in 1 .. t /\ i - e # t
              /\ i = e + (i - e) /\ i + 1 = e + (i - e + 1)
          BY <1>2, <3>3
        <5>2. QED
          BY <5>1
      <4>2. hk[i] = N /\ hd[i] = b + j /\ hk[i + 1] = N /\ hd[i + 1] = b + m
        BY <1>5, <4>1
      <4>3. ~ LastAt(qs, hk, hd, i)
        BY <1>7, <4>1
      <4>4. b + m = b + j + 1
        BY <4>1
      <4>5. QED
        BY <4>2, <4>3, <4>4
    <3>4. i < e \/ i = e \/ i > e
      BY <1>2
    <3>5. QED
      BY <3>1, <3>2, <3>3, <3>4
  <2>4. N # 0 /\ g > 0 /\ hk[g] = N /\ LastAt(qs, hk, hd, g)
    <3>1. t \in 1 .. t /\ g = e + t
      BY <1>2
    <3>2. hk[g] = N /\ LastAt(qs, hk, hd, g)
      BY <1>5, <1>7, <3>1
    <3>3. QED
      BY <1>2, <3>2
  <2>5. QED
    BY <2>1, <2>2, <2>3, <2>4 DEF Cut
<1>11. QED
  BY <1>1, <1>2, <1>6, <1>8, <1>9, <1>10

(* A packet is announced.                                                  *)
LEMMA AnnounceStory ==
  ASSUME NEW ps, NEW ds, NEW pk, NEW wd, NEW n, NEW a, NEW c, NEW e, NEW f,
         Past(ps, ds, pk, wd, n, a, c, e, f), LookupRight(ps, ds, n, a),
         ProcRight(ps, ds, pk, wd, a, c, e, f), NEW s \in Sessions, Announce(s)
  PROVE  Story'
<1>1. PICK x : x = [session |-> s, msg |-> next[s].msg, pkt |-> next[s].pkt]
  OBVIOUS
<1>2. /\ n \in Nat /\ a \in Nat /\ c \in Nat /\ e \in Nat /\ f \in Nat
      /\ c <= a /\ a <= n /\ f <= e
      /\ InOrder(ps, n) /\ Given(ps, ds, a) /\ Cut(ps, n, pk, wd, e)
  BY DEF Past
<1>3. /\ sending = <<>> /\ next[s].msg <= Len(Messages[s])
      /\ reqQ' = Append(reqQ, Request(x))
      /\ sending' = [k \in 1 .. PktLen(x) |->
                       [session |-> x.session, msg |-> x.msg, word |-> Before(x) + k,
                        last |-> k = PktLen(x)]]
      /\ next' = [next EXCEPT ![s] = NextOf(x)]
      /\ UNCHANGED <<lookup, valid, sessionOf, total, rcvd, freeDest, req, respQ, updQ,
                     proc, resp, cur, inQ>>
  BY <1>1 DEF Announce, Request, PktLen, Before, NextOf, Ends, lookupVars, table, procVars
<1>4. /\ IsPacket(x) /\ x.session = s
      /\ \A l \in 1 .. n : LatestOf(ps, s, n, l) => PlaceOf(x) = NextOf(ps[l])
      /\ NoneOf(ps, s, n) => Starts(x)
  <2>1. Announced(ps, n)
    BY DEF LookupRight
  <2>2. QED
    BY <1>1, <1>2, <1>3, <2>1, AnnouncedFacts
<1>5. PICK t \in Nat \ {0}, N \in Nat \ {0}, g \in Nat :
        t = PktLen(x) /\ N = n + 1 /\ N - 1 = n /\ g = e + t
  <2>1. PICK t \in Nat \ {0} : t = PktLen(x)
    BY <1>4, PacketFacts
  <2>2. PICK N \in Nat \ {0} : N = n + 1 /\ N - 1 = n
    BY <1>2
  <2>3. PICK g \in Nat : g = e + t
    BY <1>2
  <2>4. QED
    BY <2>1, <2>2, <2>3
<1>6. PICK qs : qs = [k \in 1 .. N |-> IF k = N THEN x ELSE ps[k]]
  OBVIOUS
<1>7. PICK hk, hd : /\ hk = [i \in 1 .. g |-> IF i <= e THEN pk[i] ELSE n + 1]
                    /\ hd = [i \in 1 .. g |-> IF i <= e THEN wd[i] ELSE Before(x) + (i - e)]
  OBVIOUS
<1>8. /\ qs[N] = x /\ \A k \in 1 .. n : k \in 1 .. N /\ k # N /\ qs[k] = ps[k]
      /\ \A k \in 1 .. N : k = N \/ k \in 1 .. n
  BY <1>2, <1>5, <1>6
<1>9. /\ Cut(qs, N, hk, hd, g)
      /\ \A i \in 1 .. e : LastAt(qs, hk, hd, i) <=> LastAt(ps, pk, wd, i)
      /\ \A i \in 1 .. e : WordAt(qs, hk, hd, i) = WordAt(ps, pk, wd, i)
      /\ \A i \in 1 .. t :
           WordAt(qs, hk, hd, e + i) = [session |-> x.session, msg |-> x.msg,
                                        word |-> Before(x) + i, last |-> i = t]
  <2>1. n \in Nat /\ e \in Nat /\ Cut(ps, n, pk, wd, e) /\ IsPacket(x)
    BY <1>2, <1>4
  <2>2. qs[N] = x /\ N = n + 1 /\ t = PktLen(x) /\ g = e + t
    BY <1>5, <1>8
  <2>3. \A k \in 1 .. n : qs[k] = ps[k]
    BY <1>8
  <2>4. \A i \in 1 .. g : hk[i] = IF i <= e THEN pk[i] ELSE N
    BY <1>5, <1>7
  <2>5. \A i \in 1 .. g : hd[i] = IF i <= e THEN wd[i] ELSE Before(x) + (i - e)
    BY <1>7
  <2>6. Longer(ps, pk, wd, n, e, x, qs, hk, hd, N, t, g)
    BY <2>1, <2>2, <2>3, <2>4, <2>5 DEF Longer
  <2>7. QED
    BY <2>6, CutMore
<1>10. InOrder(qs, N)
  <2>1. ASSUME NEW k \in 1 .. N
        PROVE  /\ IsPacket(qs[k])
               /\ \A l \in 1 .. k - 1 :
                    LatestOf(qs, qs[k].session, k - 1, l) => PlaceOf(qs[k]) = NextOf(qs[l])
               /\ NoneOf(qs, qs[k].session, k - 1) => Starts(qs[k])
    <3>1. PICK m \in Nat : m = k - 1 /\ m <= n
      BY <1>5
    <3>2. /\ \A l : LatestOf(qs, qs[k].session, m, l) <=> LatestOf(ps, qs[k].session, m, l)
          /\ NoneOf(qs, qs[k].session, m) <=> NoneOf(ps, qs[k].session, m)
      <4>1. \A i \in 1 .. n : qs[i] = ps[i]
        BY <1>8
      <4>2. n \in Nat
        BY <1>2
      <4>3. QED
        BY <3>1, <4>1, <4>2, SameOf
    <3>3. \A l \in 1 .. m : qs[l] = ps[l]
      BY <1>2, <1>8, <3>1
    <3>4. CASE k = N
      <4>1. qs[k] = x /\ m = n
        BY <1>5, <1>8, <3>1, <3>4
      <4>2. QED
        BY <1>4, <3>1, <3>2, <3>3, <4>1
    <3>5. CASE k # N
      <4>1. k \in 1 .. n /\ qs[k] = ps[k]
        BY <1>8, <3>5
      <4>2. /\ IsPacket(ps[k])
            /\ \A l \in 1 .. m :
                 LatestOf(ps, ps[k].session, m, l) => PlaceOf(ps[k]) = NextOf(ps[l])
            /\ NoneOf(ps, ps[k].session, m) => Starts(ps[k])
        BY <1>2, <3>1, <4>1 DEF InOrder
      <4>3. QED
        BY <3>1, <3>2, <3>3, <4>1, <4>2
    <3>6. QED
      BY <3>4, <3>5
  <2>2. QED
    BY <2>1 DEF InOrder
<1>11. \A k \in 1 .. a : k \in 1 .. n /\ qs[k] = ps[k]
  BY <1>2, <1>8
<1>12. Given(qs, ds, a)
  <2>1. ASSUME NEW k \in 1 .. a
        PROVE  /\ ds[k] \in Dests
               /\ \A l \in 1 .. k - 1 : LatestAt(ds, ds[k], k - 1, l) => Follows(qs[l], qs[k])
               /\ NoneAt(ds, ds[k], k - 1) => Starts(qs[k])
    <3>1. \A l \in 1 .. k - 1 : l \in 1 .. a
      BY <1>2
    <3>2. /\ ds[k] \in Dests
          /\ \A l \in 1 .. k - 1 : LatestAt(ds, ds[k], k - 1, l) => Follows(ps[l], ps[k])
          /\ NoneAt(ds, ds[k], k - 1) => Starts(ps[k])
      BY <1>2 DEF Given
    <3>3. QED
      BY <1>11, <3>1, <3>2
  <2>2. QED
    BY <2>1 DEF Given
<1>13. Past(qs, ds, hk, hd, N, a, c, g, f)
  <2>1. a <= N /\ f <= g
    BY <1>2, <1>5
  <2>2. QED
    BY <1>2, <1>5, <1>9, <1>10, <1>12, <2>1 DEF Past
<1>14. Announced(qs, N)'
  <2>1. DOMAIN next = Sessions /\ Announced(ps, n)
    BY DEF LookupRight, Announced
  <2>2. DOMAIN next' = Sessions /\ next'[s] = NextOf(x)
        /\ \A y \in Sessions : y # s => next'[y] = next[y]
    BY <1>3, <2>1
  <2>3. /\ \A l : LatestOf(qs, s, N, l) <=> l = N
        /\ ~ NoneOf(qs, s, N)
        /\ \A y : y # s =>
             /\ \A l : LatestOf(qs, y, N, l) <=> LatestOf(qs, y, n, l)
             /\ NoneOf(qs, y, N) <=> NoneOf(qs, y, n)
    <3>1. qs[N].session = s
      BY <1>4, <1>8
    <3>2. /\ \A l : LatestOf(qs, qs[N].session, N, l) <=> l = N
          /\ ~ NoneOf(qs, qs[N].session, N)
          /\ \A y : y # qs[N].session =>
               /\ \A l : LatestOf(qs, y, N, l) <=> LatestOf(qs, y, N - 1, l)
               /\ NoneOf(qs, y, N) <=> NoneOf(qs, y, N - 1)
      BY <1>5, MoreOf
    <3>3. QED
      BY <1>5, <3>1, <3>2
  <2>4. ASSUME NEW y \in Sessions
        PROVE  /\ \A l \in 1 .. N : LatestOf(qs, y, N, l) => next'[y] = NextOf(qs[l])
               /\ NoneOf(qs, y, N) => next'[y] = [msg |-> 1, pkt |-> 1]
    <3>1. CASE y = s
      BY <1>8, <2>2, <2>3, <3>1
    <3>2. CASE y # s
      <4>1. n <= n /\ \A k \in 1 .. n : qs[k] = ps[k]
        BY <1>2, <1>8
      <4>2. /\ \A l : LatestOf(qs, y, n, l) <=> LatestOf(ps, y, n, l)
            /\ NoneOf(qs, y, n) <=> NoneOf(ps, y, n)
        BY <1>2, <4>1, SameOf
      <4>3. \A l : LatestOf(ps, y, n, l) => l \in 1 .. n
        BY DEF LatestOf
      <4>4. /\ \A l \in 1 .. n : LatestOf(ps, y, n, l) => next[y] = NextOf(ps[l])
            /\ NoneOf(ps, y, n) => next[y] = [msg |-> 1, pkt |-> 1]
        BY <2>1 DEF Announced
      <4>5. QED
        BY <2>2, <2>3, <3>2, <4>1, <4>2, <4>3, <4>4
    <3>3. QED
      BY <3>1, <3>2
  <2>5. QED
    BY <2>2, <2>4 DEF Announced
<1>15. Requested(qs, N, a)'
  <2>1. /\ IsSeq(reqQ)
        /\ LookedUp => /\ n = a + 1 + Len(reqQ) /\ req = Request(ps[a + 1])
                       /\ \A i \in 1 .. Len(reqQ) : reqQ[i] = Request(ps[a + 1 + i])
        /\ ~ LookedUp => /\ n = a + Len(reqQ)
                         /\ \A i \in 1 .. Len(reqQ) : reqQ[i] = Request(ps[a + i])
    BY DEF LookupRight, Requested
  <2>2. PICK q : /\ q = reqQ' /\ IsSeq(q) /\ Len(reqQ) \in Nat /\ Len(q) = Len(reqQ) + 1
                 /\ q[Len(q)] = Request(x) /\ \A i \in 1 .. Len(reqQ) : q[i] = reqQ[i]
    <3>1. PICK y, q : y = Request(x) /\ q = Append(reqQ, y) /\ reqQ' = q
      BY <1>3
    <3>2. /\ IsSeq(q) /\ Len(q) = Len(reqQ) + 1 /\ Len(reqQ) \in Nat
          /\ DOMAIN reqQ = 1 .. Len(reqQ)
          /\ \A i \in DOMAIN reqQ : q[i] = reqQ[i]
          /\ q[Len(reqQ) + 1] = y
      BY <2>1, <3>1, AppendFacts
    <3>3. QED
      BY <3>1, <3>2
  <2>3. req' = req /\ LookedUp' = LookedUp
    BY <1>3 DEF LookedUp
  <2>4. PICK r \in Nat : r = Len(reqQ)
    BY <2>2
  <2>5. CASE LookedUp
    <3>1. N = a + 1 + Len(q) /\ a + 1 \in 1 .. n
      BY <1>2, <1>5, <2>1, <2>2, <2>5
    <3>2. req' = Request(qs[a + 1])
      BY <1>8, <2>1, <2>3, <2>5, <3>1
    <3>3. ASSUME NEW i \in 1 .. Len(q) PROVE q[i] = Request(qs[a + 1 + i])
      <4>1. CASE i = Len(q)
        <5>1. a + 1 + i = N
          BY <3>1, <4>1
        <5>2. QED
          BY <1>8, <2>2, <4>1, <5>1
      <4>2. CASE i # Len(q)
        <5>1. i \in 1 .. Len(reqQ)
          BY <2>2, <4>2
        <5>2. a + 1 + i \in 1 .. n
          BY <1>2, <2>1, <2>2, <2>5, <5>1
        <5>3. QED
          BY <1>8, <2>1, <2>2, <2>5, <5>1, <5>2
      <4>3. QED
        BY <4>1, <4>2
    <3>4. QED
      BY <2>2, <2>3, <2>5, <3>1, <3>2, <3>3 DEF Requested
  <2>6. CASE ~ LookedUp
    <3>1. N = a + Len(q)
      BY <1>2, <1>5, <2>1, <2>2, <2>6
    <3>2. ASSUME NEW i \in 1 .. Len(q) PROVE q[i] = Request(qs[a + i])
      <4>1. CASE i = Len(q)
        <5>1. a + i = N
          BY <3>1, <4>1
        <5>2. QED
          BY <1>8, <2>2, <4>1, <5>1
      <4>2. CASE i # Len(q)
        <5>1. i \in 1 .. Len(reqQ)
          BY <2>2, <4>2
        <5>2. a + i \in 1 .. n
          BY <1>2, <2>1, <2>2, <2>6, <5>1
        <5>3. QED
          BY <1>8, <2>1, <2>2, <2>6, <5>1, <5>2
      <4>3. QED
        BY <4>1, <4>2
    <3>3. QED
      BY <2>2, <2>3, <2>6, <3>1, <3>2 DEF Requested
  <2>7. QED
    BY <2>5, <2>6
<1>16. \A y : /\ \A l : LatestOf(qs, y, a, l) <=> LatestOf(ps, y, a, l)
              /\ \A l : LatestOf(qs, y, a, l) => l \in 1 .. a
  <2>1. \A k \in 1 .. n : qs[k] = ps[k]
    BY <1>8
  <2>2. QED
    BY <1>2, <2>1, SameOf DEF LatestOf
<1>17. Used' = Used /\ Free' = Free /\ \A y : Entries(y)' = Entries(y)
  BY <1>3 DEF Used, Free, Entries
<1>18. EntryRight(qs, ds, a)'
  <2>1. EntryRight(ps, ds, a)
    BY DEF LookupRight
  <2>2. QED
    BY <1>3, <1>11, <1>16, <1>17, <2>1 DEF EntryRight
<1>19. FreeComplete(qs, ds, a)'
  <2>1. FreeComplete(ps, ds, a)
    BY DEF LookupRight
  <2>2. QED
    BY <1>11, <1>17, <2>1 DEF FreeComplete
<1>20. NoEntryComplete(qs, a)'
  <2>1. NoEntryComplete(ps, a)
    BY DEF LookupRight
  <2>2. QED
    BY <1>3, <1>11, <1>16, <1>17, <2>1 DEF NoEntryComplete
<1>21. SizeAwaited(qs, ds, a)'
  <2>1. SizeAwaited(ps, ds, a)
    BY DEF LookupRight
  <2>2. a > 0 => qs[a] = ps[a]
    BY <1>2, <1>11
  <2>3. QED
    BY <1>3, <2>1, <2>2 DEF SizeAwaited
<1>22. Answers(qs, ds, a, c)'
  <2>1. Answers(ps, ds, a, c)
    BY DEF ProcRight
  <2>2. Len(respQ) \in Int => \A i \in 1 .. Len(respQ) : a = c + Len(respQ) => c + i \in 1 .. a
    BY <1>2
  <2>3. c > 0 => c \in 1 .. a
    BY <1>2
  <2>4. QED
    BY <1>3, <1>11, <2>1, <2>2, <2>3 DEF Answers
<1>23. Arriving(qs, hk, hd, g, f)'
  <2>1. /\ IsSeq(inQ) /\ e = f + Len(inQ) + Len(sending)
        /\ \A i \in 1 .. Len(inQ) : inQ[i] = WordAt(ps, pk, wd, f + i)
    BY DEF ProcRight, Arriving
  <2>2. Len(inQ) \in Nat /\ Len(sending) = 0
    BY <1>3, <2>1, EmptyFacts
  <2>3. e = f + Len(inQ)
    BY <1>2, <2>1, <2>2
  <2>4. IsSeq(sending') /\ Len(sending') = t /\ DOMAIN sending' = 1 .. t
    <3>1. PICK T : T = {[session |-> x.session, msg |-> x.msg, word |-> Before(x) + k,
                         last |-> k = t] : k \in 1 .. t}
      OBVIOUS
    <3>2. sending' = [k \in 1 .. t |->
                        [session |-> x.session, msg |-> x.msg, word |-> Before(x) + k,
                         last |-> k = t]]
      BY <1>3, <1>5
    <3>3. sending' \in Seq(T)
      BY <3>1, <3>2
    <3>4. DOMAIN sending' = 1 .. t
      BY <3>2
    <3>5. Len(sending') = t
      BY <3>3, <3>4
    <3>6. QED
      BY <3>3, <3>4, <3>5 DEF IsSeq
  <2>5. ASSUME NEW i \in 1 .. Len(inQ) PROVE inQ[i] = WordAt(qs, hk, hd, f + i)
    <3>1. f + i \in 1 .. e
      BY <1>2, <2>2, <2>3
    <3>2. QED
      BY <1>9, <2>1, <3>1
  <2>6. ASSUME NEW i \in 1 .. t PROVE sending'[i] = WordAt(qs, hk, hd, f + Len(inQ) + i)
    <3>1. sending'[i] = [session |-> x.session, msg |-> x.msg, word |-> Before(x) + i,
                         last |-> i = t]
      BY <1>3, <1>5
    <3>2. QED
      BY <1>9, <2>3, <3>1
  <2>7. g = f + Len(inQ) + t
    BY <1>5, <2>3
  <2>8. QED
    BY <1>3, <2>1, <2>4, <2>5, <2>6, <2>7 DEF Arriving
<1>24. /\ f # 0 => f \in 1 .. e
       /\ f # 0 => hk[f] = pk[f] /\ hd[f] = wd[f]
  <2>1. f # 0 => f \in 1 .. e /\ f \in 1 .. g /\ f <= e
    BY <1>2, <1>5
  <2>2. QED
    BY <1>7, <2>1
<1>25. Forwarded(qs, hk, hd, f, c)'
  <2>1. Forwarded(ps, pk, wd, f, c)
    BY DEF ProcRight
  <2>2. f # 0 => (LastAt(qs, hk, hd, f) <=> LastAt(ps, pk, wd, f))
    BY <1>9, <1>24
  <2>3. QED
    BY <1>3, <1>24, <2>1, <2>2 DEF Forwarded
<1>26. Written(qs, ds, hk, hd, f, c)'
  <2>1. Written(ps, ds, pk, wd, f, c) /\ c = IF f = 0 THEN 0 ELSE pk[f]
    BY DEF ProcRight, Forwarded
  <2>2. \A l \in 1 .. c : qs[l] = ps[l] /\ (l = c => hd[f] = wd[f])
    BY <1>2, <1>11, <1>24, <2>1
  <2>3. QED
    BY <1>3, <2>1, <2>2 DEF Written
<1>27. LookupRight(qs, ds, N, a)' /\ ProcRight(qs, ds, hk, hd, a, c, g, f)'
  BY <1>14, <1>15, <1>18, <1>19, <1>20, <1>21, <1>22, <1>23, <1>25, <1>26
     DEF LookupRight, ProcRight
<1>28. QED
  BY <1>13, <1>27 DEF Story

(* A word arrives.                                                         *)
LEMMA WordArrivesStory ==
  ASSUME NEW ps, NEW ds, NEW pk, NEW wd, NEW n, NEW a, NEW c, NEW e, NEW f,
         Past(ps, ds, pk, wd, n, a, c, e, f), LookupRight(ps, ds, n, a),
         ProcRight(ps, ds, pk, wd, a, c, e, f), WordArrives
  PROVE  Story'
<1>1. /\ sending # <<>> /\ inQ' = Append(inQ, Head(sending)) /\ sending' = Tail(sending)
      /\ UNCHANGED <<lookupVars, reqQ, respQ, updQ, procVars, next>>
  BY DEF WordArrives
<1>2. LookupRight(ps, ds, n, a)'
  BY <1>1, LookupSame
<1>3. UNCHANGED <<respQ, proc, resp, cur>>
  BY <1>1 DEF procVars
<1>4. Answers(ps, ds, a, c)' /\ Forwarded(ps, pk, wd, f, c)' /\ Written(ps, ds, pk, wd, f, c)'
  BY <1>3 DEF ProcRight, Answers, Forwarded, Written
<1>5. Arriving(ps, pk, wd, e, f)'
  <2>1. /\ IsSeq(inQ) /\ IsSeq(sending) /\ e = f + Len(inQ) + Len(sending)
        /\ \A i \in 1 .. Len(inQ) : inQ[i] = WordAt(ps, pk, wd, f + i)
        /\ \A i \in 1 .. Len(sending) : sending[i] = WordAt(ps, pk, wd, f + Len(inQ) + i)
        /\ f \in Nat
    BY DEF ProcRight, Arriving, Past
  <2>2. PICK q, w : q = inQ' /\ w = Head(sending) /\ q = Append(inQ, w)
    BY <1>1
  <2>3. /\ IsSeq(q) /\ Len(q) = Len(inQ) + 1 /\ Len(inQ) \in Nat
        /\ \A i \in 1 .. Len(inQ) : q[i] = inQ[i]
        /\ q[Len(inQ) + 1] = w
    <3>1. /\ IsSeq(q) /\ Len(q) = Len(inQ) + 1 /\ Len(inQ) \in Nat
          /\ DOMAIN inQ = 1 .. Len(inQ)
          /\ \A i \in DOMAIN inQ : q[i] = inQ[i]
          /\ q[Len(inQ) + 1] = w
      BY <2>1, <2>2, AppendFacts
    <3>2. QED
      BY <3>1
  <2>4. PICK r : r = Tail(sending)
    OBVIOUS
  <2>5. /\ IsSeq(r) /\ Len(r) = Len(sending) - 1 /\ Len(sending) \in Nat \ {0}
        /\ w = sending[1] /\ \A i \in 1 .. Len(sending) - 1 : r[i] = sending[i + 1]
    BY <1>1, <2>1, <2>2, <2>4, TailFacts
  <2>6. PICK j \in Nat, m \in Nat : j = Len(inQ) /\ m = Len(sending) /\ m > 0
    BY <2>3, <2>5
  <2>7. e = f + Len(q) + Len(r)
    BY <2>1, <2>3, <2>5, <2>6
  <2>8. ASSUME NEW i \in 1 .. Len(q) PROVE q[i] = WordAt(ps, pk, wd, f + i)
    <3>1. CASE i = j + 1
      <4>1. w = WordAt(ps, pk, wd, f + j + 1)
        BY <2>1, <2>5, <2>6
      <4>2. f + j + 1 = f + i
        BY <2>1, <3>1
      <4>3. QED
        BY <2>3, <2>6, <3>1, <4>1, <4>2
    <3>2. CASE i # j + 1
      <4>1. i \in 1 .. Len(inQ)
        BY <2>3, <2>6, <3>2
      <4>2. QED
        BY <2>1, <2>3, <4>1
    <3>3. QED
      BY <3>1, <3>2
  <2>9. ASSUME NEW i \in 1 .. Len(r) PROVE r[i] = WordAt(ps, pk, wd, f + Len(q) + i)
    <3>1. i \in 1 .. Len(sending) - 1 /\ i + 1 \in 1 .. Len(sending)
          /\ f + Len(inQ) + (i + 1) = f + Len(q) + i
      BY <2>1, <2>3, <2>5
    <3>2. QED
      BY <2>1, <2>5, <3>1
  <2>10. QED
    BY <1>1, <2>2, <2>3, <2>4, <2>5, <2>7, <2>8, <2>9 DEF Arriving
<1>6. ProcRight(ps, ds, pk, wd, a, c, e, f)'
  BY <1>4, <1>5 DEF ProcRight
<1>7. QED
  BY <1>2, <1>6 DEF Story

LEMMA StoryStep == MuxInv /\ Story /\ [MuxNext]_vars => Story'
<1> SUFFICES ASSUME MuxInv, Story, [MuxNext]_vars PROVE Story'
  OBVIOUS
<1>1. PICK ps, ds, pk, wd, n, a, c, e, f :
        /\ Past(ps, ds, pk, wd, n, a, c, e, f)
        /\ LookupRight(ps, ds, n, a) /\ ProcRight(ps, ds, pk, wd, a, c, e, f)
  BY DEF Story
<1>2. n \in Nat /\ a \in Nat
  BY <1>1 DEF Past
<1>3. ASSUME LookupRight(ps, ds, n, a)', UNCHANGED <<respQ, procVars, inQ, sending>>
      PROVE  Story'
  <2>1. ProcRight(ps, ds, pk, wd, a, c, e, f)'
    BY <1>1, <1>3, ProcSame
  <2>2. QED
    BY <1>1, <1>3, <2>1 DEF Story
<1>4. CASE Populate
  <2>1. LookupRight(ps, ds, n, a)'
    BY <1>1, <1>2, <1>4, PopulateStory
  <2>2. QED
    BY <1>3, <1>4, <2>1 DEF Populate, netVars
<1>5. CASE Req
  <2>1. LookupRight(ps, ds, n, a)'
    BY <1>1, <1>2, <1>5, ReqStory
  <2>2. QED
    BY <1>3, <1>5, <2>1 DEF Req, netVars
<1>6. CASE HitResp
  BY <1>1, <1>6, HitStory
<1>7. CASE MissResp
  BY <1>1, <1>7, MissStory
<1>8. CASE Update
  <2>1. LookupRight(ps, ds, n, a)'
    BY <1>1, <1>8, UpdateStory
  <2>2. QED
    BY <1>3, <1>8, <2>1 DEF Update, netVars
<1>9. CASE WaitStream
  BY <1>1, <1>9, WaitStreamStory
<1>10. CASE Consume
  BY <1>1, <1>10, ConsumeStory
<1>11. CASE \E s \in Sessions : Announce(s)
  <2>1. PICK s \in Sessions : Announce(s)
    BY <1>11
  <2>2. QED
    BY <1>1, <2>1, AnnounceStory
<1>12. CASE WordArrives
  BY <1>1, <1>12, WordArrivesStory
<1>13. CASE UNCHANGED vars
  <2>1. UNCHANGED <<lookupVars, reqQ, updQ, next, respQ, procVars, inQ, sending>>
    BY <1>13 DEF vars, netVars
  <2>2. LookupRight(ps, ds, n, a)'
    BY <1>1, <2>1, LookupSame
  <2>3. QED
    BY <1>3, <2>1, <2>2
<1>14. QED
  BY <1>4, <1>5, <1>6, <1>7, <1>8, <1>9, <1>10, <1>11, <1>12, <1>13 DEF MuxNext

-----------------------------------------------------------------------------

(* A destination carries one message at a time, word by word, although     *)
(* packets of other sessions come in between and the lookup runs ahead of  *)
(* the words: OneMessagePerDest of pktMultiplexor's procStream.            *)
THEOREM WholeMessagesPerDest == MuxSpec => OneMessagePerDest
<1>1. MuxInv /\ Story /\ [MuxNext]_vars
        => [\A d \in Dests : cur'[d] # cur[d] =>
              IF cur'[d].word = 1
              THEN cur[d] = Nothing \/ cur[d].word = MsgSize(cur[d].session, cur[d].msg)
              ELSE cur[d] = [cur'[d] EXCEPT !.word = @ - 1]]_vars
  BY DestStep
<1>2. QED
  BY <1>1, InitInv, StepInv, StoryStart, StoryStep, PTL DEF MuxSpec, OneMessagePerDest

(* The word that procStream marks as the last one is that of its message,  *)
(* and every message of several packets has its last word marked.          *)
THEOREM LastWordMarked == MuxSpec => LastMarked
<1>1. MuxInv /\ Story /\ [MuxNext]_vars
        => [cur' # cur =>
              LET w == inQ[1] IN
                Len(Messages[w.session][w.msg]) > 1 =>
                  (MarkedLast <=> w.word = MsgSize(w.session, w.msg))]_vars
  BY MarkStep
<1>2. QED
  BY <1>1, InitInv, StepInv, StoryStart, StoryStep, PTL DEF MuxSpec, LastMarked

=============================================================================
