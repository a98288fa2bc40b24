--------------------------- MODULE HostCallsProofs ---------------------------
(***************************************************************************)
(* Proofs about HostCalls, for any number of words of a command, any depth *)
(* of the FIFOs, any communicator and any number of calls and errors: each *)
(* call is given its own answer; opening connections leaves nothing behind *)
(* it; a successful openCon leaves each rank its session.                  *)
(***************************************************************************)
EXTENDS HostCalls, ProofFacts, FiniteSetTheorems, TLAPS

Busy == {"run", "finalize", "port_ask", "port_wait", "con_ask", "con_resp"}

Current == Len(asked)

(* The words written and not carried out are those of the last call.       *)
Words ==
  /\ pc \in {"poll", "read"} /\ sts = <<>>
  /\ hword = Len(cmd) + IF pc = "poll" THEN 0 ELSE Len(frame)
  /\ \A i \in DOMAIN cmd : cmd[i].call = Current
  /\ pc = "read" => \A i \in DOMAIN frame : frame[i].call = Current

Running == pc \in Busy /\ cmd = <<>> /\ sts = <<>> /\ op.call = Current

Answered ==
  /\ pc = "poll" /\ cmd = <<>>
  /\ \E x : sts = <<x>> /\ [call |-> Current, ret |-> x] \in given

(* Where the last call is, between the host and main.                      *)
Idle == pc = "poll" /\ cmd = <<>> /\ sts = <<>> /\ Len(answer) = Current
Writing == Words /\ hword < NWords /\ Len(answer) = Current - 1
Waiting ==
  /\ (Words /\ hword = NWords) \/ Running \/ Answered
  /\ Len(answer) = Current - 1

InStep ==
  /\ hpc = "idle" => Idle
  /\ hpc = "writing" => Writing
  /\ hpc = "waiting" => Waiting

Shape ==
  /\ hpc \in {"idle", "writing", "waiting"} /\ hword \in Nat /\ stray \in BOOLEAN
  /\ IsSeq(asked) /\ IsSeq(answer) /\ IsSeq(cmd) /\ IsSeq(frame)

HostInv == Shape /\ OwnAnswer /\ (~ stray => InStep)

-----------------------------------------------------------------------------

LEMMA NWordsType == NWords \in Nat \ {0}
  BY HostAssumption

LEMMA InitInv == HostInit => HostInv
<1> SUFFICES ASSUME HostInit PROVE HostInv
  OBVIOUS
<1>1. /\ hpc = "idle" /\ hword = 0 /\ stray = FALSE /\ pc = "poll"
      /\ asked = <<>> /\ answer = <<>> /\ cmd = <<>> /\ frame = <<>> /\ sts = <<>>
  BY DEF HostInit
<1>2. Shape
  BY <1>1, EmptyFacts DEF Shape
<1>3. OwnAnswer /\ InStep
  BY <1>1 DEF OwnAnswer, InStep, Idle, Current
<1>4. QED
  BY <1>2, <1>3 DEF HostInv

(* The host makes a call.                                                  *)
LEMMA HostCallInv == \A k \in Kinds : HostInv /\ HostCall(k) => HostInv'
<1> SUFFICES ASSUME NEW k \in Kinds, HostInv, HostCall(k) PROVE HostInv'
  OBVIOUS
<1>1. /\ hpc = "idle" /\ asked' = Append(asked, k) /\ hpc' = "writing" /\ hword' = 0
      /\ UNCHANGED <<answer, cmd, sts, pc, frame, op, given, stray>>
  BY DEF HostCall, callVars, histVars
<1>2. IsSeq(asked') /\ Len(asked') = Len(asked) + 1 /\ Len(asked) \in Nat
  BY <1>1, AppendFacts DEF HostInv, Shape
<1>3. Shape'
  BY <1>1, <1>2 DEF HostInv, Shape
<1>4. OwnAnswer'
  BY <1>1 DEF HostInv, OwnAnswer
<1>5. ASSUME ~ stray' PROVE Writing'
  <2>1. Idle
    BY <1>1, <1>5 DEF HostInv, InStep
  <2>2. QED
    BY <1>1, <1>2, <2>1, HostAssumption DEF Idle, Writing, Words, Current
<1>6. QED
  BY <1>1, <1>3, <1>4, <1>5 DEF HostInv, InStep

LEMMA WriteWordInv == HostInv /\ WriteWord => HostInv'
<1> SUFFICES ASSUME HostInv, WriteWord PROVE HostInv'
  OBVIOUS
<1> DEFINE w == [call |-> Len(asked), word |-> hword + 1]
<1>1. /\ hpc = "writing" /\ cmd' = Append(cmd, w) /\ hword' = hword + 1
      /\ hpc' = IF hword + 1 = NWords THEN "waiting" ELSE "writing"
      /\ UNCHANGED <<asked, answer, sts, pc, frame, op, given, stray>>
  BY DEF WriteWord, callVars, histVars
<1>2. w.call = Current
  BY DEF Current
<1> HIDE DEF w
<1>3. /\ IsSeq(cmd') /\ Len(cmd') = Len(cmd) + 1 /\ Len(cmd) \in Nat
      /\ DOMAIN cmd' = 1 .. Len(cmd) + 1 /\ DOMAIN cmd = 1 .. Len(cmd)
      /\ \A i \in DOMAIN cmd : cmd'[i] = cmd[i]
      /\ cmd'[Len(cmd) + 1] = w
  BY <1>1, AppendFacts DEF HostInv, Shape
<1>4. Shape'
  BY <1>1, <1>3 DEF HostInv, Shape
<1>5. OwnAnswer'
  BY <1>1 DEF HostInv, OwnAnswer
<1>6. ASSUME ~ stray' PROVE Words' /\ hword' <= NWords /\ Len(answer)' = Current' - 1
  <2>1. Writing
    BY <1>1, <1>6 DEF HostInv, InStep
  <2>2. Len(frame) \in Nat
    BY EmptyFacts DEF HostInv, Shape
  <2>3. \A i \in DOMAIN cmd' : cmd'[i].call = Current
    <3>1. \A i \in DOMAIN cmd : cmd[i].call = Current
      BY <2>1 DEF Writing, Words
    <3>2. \A i \in DOMAIN cmd' : i \in DOMAIN cmd \/ i = Len(cmd) + 1
      BY <1>3
    <3>3. QED
      BY <1>2, <1>3, <3>1, <3>2
  <2>4. Words'
    <3>1. /\ pc' \in {"poll", "read"} /\ sts' = <<>>
          /\ pc' = "read" => \A i \in DOMAIN frame' : frame'[i].call = Current'
      BY <1>1, <2>1 DEF Writing, Words, Current
    <3>2. hword = Len(cmd) + IF pc = "poll" THEN 0 ELSE Len(frame)
      BY <2>1 DEF Writing, Words
    <3>3. hword' = Len(cmd') + IF pc' = "poll" THEN 0 ELSE Len(frame')
      <4>1. CASE pc = "poll"
        <5>1. hword = Len(cmd)
          BY <1>3, <3>2, <4>1
        <5>2. QED
          BY <1>1, <1>3, <4>1, <5>1
      <4>2. CASE pc # "poll"
        <5>1. hword = Len(cmd) + Len(frame)
          BY <3>2, <4>2
        <5>2. QED
          BY <1>1, <1>3, <2>2, <4>2, <5>1
      <4>3. QED
        BY <4>1, <4>2
    <3>4. Current' = Current
      BY <1>1 DEF Current
    <3>5. QED
      BY <2>3, <3>1, <3>3, <3>4 DEF Words
  <2>5. QED
    <3>1. hword \in Nat /\ hword < NWords /\ Len(answer) = Current - 1
      BY <2>1 DEF Writing, HostInv, Shape
    <3>2. hword' = hword + 1 /\ Len(answer)' = Len(answer) /\ Current' = Current
      BY <1>1 DEF Current
    <3>3. QED
      BY <2>4, <3>1, <3>2, NWordsType
<1>7. hword \in Nat /\ hword' = hword + 1
  BY <1>1 DEF HostInv, Shape
<1>8. CASE hword + 1 = NWords
  <2>1. hpc' = "waiting" /\ hword' = NWords
    BY <1>1, <1>7, <1>8
  <2>2. QED
    BY <1>4, <1>5, <1>6, <2>1 DEF HostInv, InStep, Waiting
<1>9. CASE hword + 1 # NWords
  <2>1. hpc' = "writing" /\ hword' # NWords
    BY <1>1, <1>7, <1>9
  <2>2. (hword' <= NWords) => hword' < NWords
    BY <1>7, <2>1, NWordsType
  <2>3. QED
    BY <1>4, <1>5, <1>6, <2>1, <2>2 DEF HostInv, InStep, Writing
<1>10. QED
  BY <1>8, <1>9

(* The host takes the status for its last call's: it is.                   *)
LEMMA ReadStatusInv == HostInv /\ ReadStatus => HostInv'
<1> SUFFICES ASSUME HostInv, ReadStatus PROVE HostInv'
  OBVIOUS
<1>1. /\ hpc = "waiting" /\ sts # <<>> /\ answer' = Append(answer, Head(sts))
      /\ sts' = Tail(sts) /\ hpc' = "idle"
      /\ UNCHANGED <<asked, hword, cmd, pc, frame, op, given, stray>>
  BY DEF ReadStatus, callVars, histVars
<1>2. /\ IsSeq(answer') /\ Len(answer') = Len(answer) + 1 /\ Len(answer) \in Nat
      /\ DOMAIN answer' = 1 .. Len(answer) + 1 /\ DOMAIN answer = 1 .. Len(answer)
      /\ \A i \in DOMAIN answer : answer'[i] = answer[i]
      /\ answer'[Len(answer) + 1] = Head(sts)
  BY <1>1, AppendFacts DEF HostInv, Shape
<1>3. Shape'
  BY <1>1, <1>2 DEF HostInv, Shape
<1>4. ASSUME ~ stray' PROVE Idle' /\ OwnAnswer'
  <2>1. Waiting
    BY <1>1, <1>4 DEF HostInv, InStep
  <2>2. Answered
    BY <1>1, <2>1 DEF Waiting, Words, Running
  <2>3. PICK x : sts = <<x>> /\ [call |-> Current, ret |-> x] \in given
    BY <2>2 DEF Answered
  <2>4. Head(sts) = x /\ sts' = <<>>
    BY <1>1, <2>3
  <2>5. Len(answer) + 1 = Current /\ Current \in Nat
    BY <1>2, <2>1, EmptyFacts DEF Waiting, Current, HostInv, Shape
  <2>6. Idle'
    BY <1>1, <1>2, <2>2, <2>4, <2>5 DEF Idle, Answered, Current
  <2>7. \A n \in DOMAIN answer : [call |-> n, ret |-> answer[n]] \in given
    BY <1>1, <1>4 DEF HostInv, OwnAnswer
  <2>8. \A n \in DOMAIN answer' : [call |-> n, ret |-> answer'[n]] \in given
    BY <1>2, <2>3, <2>4, <2>5, <2>7
  <2>9. QED
    BY <1>1, <2>6, <2>8 DEF OwnAnswer
<1>5. OwnAnswer'
  BY <1>4 DEF OwnAnswer
<1>6. QED
  BY <1>1, <1>3, <1>4, <1>5 DEF HostInv, InStep

(* main begins to read a call.                                             *)
LEMMA WaitForCallInv == HostInv /\ WaitForCall => HostInv'
<1> SUFFICES ASSUME HostInv, WaitForCall PROVE HostInv'
  OBVIOUS
<1>1. /\ pc = "poll" /\ cmd # <<>> /\ pc' = "read" /\ frame' = <<>>
      /\ UNCHANGED <<asked, hpc, hword, answer, cmd, sts, op, given, stray>>
  BY DEF WaitForCall, hostVars, histVars
<1>2. Shape' /\ OwnAnswer'
  BY <1>1, EmptyFacts DEF HostInv, Shape, OwnAnswer
<1>3. ASSUME Words PROVE Words'
  <2>1. Len(frame') = 0 /\ DOMAIN frame' = {} /\ Len(cmd) \in Nat
    BY <1>1, EmptyFacts DEF HostInv, Shape
  <2>2. QED
    BY <1>1, <1>3, <2>1 DEF Words, Current
<1>4. ASSUME ~ stray' PROVE InStep'
  <2>1. InStep
    BY <1>1, <1>4 DEF HostInv
  <2>2. CASE hpc = "idle"
    BY <1>1, <2>1, <2>2 DEF InStep, Idle
  <2>3. CASE hpc = "writing"
    BY <1>1, <1>3, <2>1, <2>3 DEF InStep, Writing, Current
  <2>4. CASE hpc = "waiting"
    <3>1. Words /\ hword = NWords
      BY <1>1, <2>1, <2>4 DEF InStep, Waiting, Running, Busy, Answered
    <3>2. QED
      BY <1>1, <1>3, <2>1, <2>4, <3>1 DEF InStep, Waiting, Current
  <2>5. QED
    BY <2>2, <2>3, <2>4 DEF HostInv, Shape
<1>5. QED
  BY <1>2, <1>4 DEF HostInv

(* A word moves from the stream to main.                                   *)
LEMMA ReadWordInv == HostInv /\ ReadWord => HostInv'
<1> SUFFICES ASSUME HostInv, ReadWord PROVE HostInv'
  OBVIOUS
<1>1. /\ pc = "read" /\ cmd # <<>> /\ frame' = Append(frame, Head(cmd))
      /\ cmd' = Tail(cmd)
      /\ UNCHANGED <<asked, hpc, hword, answer, sts, pc, op, given, stray>>
  BY DEF ReadWord, hostVars, histVars
<1>2. /\ IsSeq(frame') /\ Len(frame') = Len(frame) + 1 /\ Len(frame) \in Nat
      /\ DOMAIN frame' = 1 .. Len(frame) + 1 /\ DOMAIN frame = 1 .. Len(frame)
      /\ \A i \in DOMAIN frame : frame'[i] = frame[i]
      /\ frame'[Len(frame) + 1] = Head(cmd)
  BY <1>1, AppendFacts DEF HostInv, Shape
<1>3. /\ IsSeq(cmd') /\ Len(cmd') = Len(cmd) - 1 /\ Len(cmd) \in Nat \ {0}
      /\ DOMAIN cmd' = 1 .. Len(cmd) - 1 /\ DOMAIN cmd = 1 .. Len(cmd)
      /\ \A i \in DOMAIN cmd' : cmd'[i] = cmd[i + 1]
      /\ Head(cmd) = cmd[1]
  BY <1>1, TailFacts DEF HostInv, Shape
<1>4. Shape' /\ OwnAnswer'
  BY <1>1, <1>2, <1>3 DEF HostInv, Shape, OwnAnswer
<1>5. ASSUME Words PROVE Words'
  <2>1. /\ \A i \in DOMAIN cmd : cmd[i].call = Current
        /\ \A i \in DOMAIN frame : frame[i].call = Current
        /\ hword = Len(cmd) + Len(frame) /\ sts = <<>>
    BY <1>1, <1>5 DEF Words
  <2>2. \A i \in DOMAIN cmd' : i + 1 \in DOMAIN cmd
    BY <1>3
  <2>3. \A i \in DOMAIN cmd' : cmd'[i].call = Current
    BY <1>3, <2>1, <2>2
  <2>4. Head(cmd).call = Current
    BY <1>3, <2>1
  <2>5. \A i \in DOMAIN frame' : i \in DOMAIN frame \/ i = Len(frame) + 1
    BY <1>2
  <2>6. \A i \in DOMAIN frame' : frame'[i].call = Current
    BY <1>2, <2>1, <2>4, <2>5
  <2>7. hword' = Len(cmd') + Len(frame') /\ Current' = Current
    BY <1>1, <1>2, <1>3, <2>1 DEF Current
  <2>8. QED
    BY <1>1, <2>1, <2>3, <2>6, <2>7 DEF Words
<1>6. ASSUME ~ stray' PROVE InStep'
  <2>1. InStep
    BY <1>1, <1>6 DEF HostInv
  <2>2. CASE hpc = "idle"
    BY <1>1, <2>1, <2>2 DEF InStep, Idle
  <2>3. CASE hpc = "writing"
    BY <1>1, <1>5, <2>1, <2>3 DEF InStep, Writing, Current
  <2>4. CASE hpc = "waiting"
    <3>1. Words /\ hword = NWords
      BY <1>1, <2>1, <2>4 DEF InStep, Waiting, Running, Busy, Answered
    <3>2. QED
      BY <1>1, <1>5, <2>1, <2>4, <3>1 DEF InStep, Waiting, Current
  <2>5. QED
    BY <2>2, <2>3, <2>4 DEF HostInv, Shape
<1>7. QED
  BY <1>4, <1>6 DEF HostInv

(* All words are read: they are one call's, and no others are under way.   *)
LEMMA DispatchInv == \A k \in Kinds : HostInv /\ Dispatch(k) => HostInv'
<1> SUFFICES ASSUME NEW k \in Kinds, HostInv, Dispatch(k) PROVE HostInv'
  OBVIOUS
<1>1. /\ pc = "read" /\ Len(frame) = NWords /\ op'.call = frame[1].call
      /\ UNCHANGED <<asked, hpc, hword, answer, cmd, sts, frame, given, stray>>
  BY DEF Dispatch, AllRead, hostVars, histVars
<1>2. pc' \in Busy
  <2>1. k \in {"work", "irq_on", "irq_off", "reset", "open_port", "open_con",
               "init_connection"}
    BY HostAssumption
  <2>2. QED
    BY <2>1 DEF Dispatch, Busy
<1>3. Shape' /\ OwnAnswer'
  BY <1>1 DEF HostInv, Shape, OwnAnswer
<1>4. ASSUME ~ stray' PROVE InStep'
  <2>1. InStep
    BY <1>1, <1>4 DEF HostInv
  <2>2. Len(cmd) \in Nat /\ (Len(cmd) = 0 => cmd = <<>>) /\ hword \in Nat
    BY EmptyFacts DEF HostInv, Shape
  <2>3. hpc = "waiting" /\ Words /\ hword = NWords /\ Len(answer) = Current - 1
    <3>1. hpc # "idle"
      BY <1>1, <2>1 DEF InStep, Idle
    <3>2. ASSUME hpc = "writing" PROVE FALSE
      <4>1. hword = Len(cmd) + NWords /\ hword < NWords
        BY <1>1, <2>1, <3>2 DEF InStep, Writing, Words
      <4>2. QED
        BY <2>2, <4>1, NWordsType
    <3>3. hpc = "waiting"
      BY <3>1, <3>2 DEF HostInv, Shape
    <3>4. QED
      BY <1>1, <2>1, <3>3 DEF InStep, Waiting, Running, Busy, Answered
  <2>4. cmd = <<>> /\ sts = <<>>
    <3>1. hword = Len(cmd) + NWords /\ sts = <<>>
      BY <1>1, <2>3 DEF Words
    <3>2. QED
      BY <2>2, <2>3, <3>1, NWordsType
  <2>5. frame[1].call = Current
    <3>1. PICK T : frame \in Seq(T)
      BY DEF HostInv, Shape, IsSeq
    <3>2. 1 \in DOMAIN frame
      BY <1>1, <3>1, NWordsType
    <3>3. QED
      BY <1>1, <2>3, <3>2 DEF Words
  <2>6. Running'
    BY <1>1, <1>2, <2>4, <2>5 DEF Running, Current
  <2>7. QED
    BY <1>1, <2>3, <2>6 DEF InStep, Waiting, Current
<1>5. QED
  BY <1>3, <1>4 DEF HostInv

(* What goes on while a call is carried out.                               *)
Carrying ==
  \/ \E r \in {Success, HandlerError} : Work(r)
  \/ SetIrq \/ SoftReset \/ Opening

LEMMA CarryingInv == HostInv /\ Carrying => HostInv'
<1> SUFFICES ASSUME HostInv, Carrying PROVE HostInv'
  OBVIOUS
<1>1. /\ pc \in Busy /\ pc' \in Busy
      /\ UNCHANGED <<asked, hpc, hword, answer, cmd, sts, frame, op, given, stray>>
  <2>1. CASE (\E r \in {Success, HandlerError} : Work(r)) \/ SetIrq \/ SoftReset
    BY <2>1 DEF Work, SetIrq, SoftReset, Busy, hostVars, histVars
  <2>2. CASE AskPort \/ PortOpened
    BY <2>2 DEF AskPort, PortOpened, Busy, hostVars, histVars
  <2>3. CASE (\E r \in Ranks : AskConnection(r)) \/ AwaitAnswers \/ ReadAnswer
    BY <2>3 DEF AskConnection, AwaitAnswers, ReadAnswer, Busy, hostVars, callVars, histVars
  <2>4. CASE TakeAnswer \/ ConnectionsOpened
    BY <2>4 DEF TakeAnswer, ConnectionsOpened, Busy, hostVars, histVars
  <2>5. QED
    BY <2>1, <2>2, <2>3, <2>4 DEF Carrying, Opening
<1>2. Shape' /\ OwnAnswer'
  BY <1>1 DEF HostInv, Shape, OwnAnswer
<1>3. pc \notin {"poll", "read"}
  BY <1>1 DEF Busy
<1>4. ASSUME ~ stray' PROVE InStep'
  BY <1>1, <1>3, <1>4 DEF HostInv, InStep, Idle, Writing, Waiting, Words, Running,
                          Answered, Current
<1>5. QED
  BY <1>2, <1>4 DEF HostInv

(* The status put is the call's, and it is the only one.                   *)
LEMMA FinalizeInv == HostInv /\ Finalize => HostInv'
<1> SUFFICES ASSUME HostInv, Finalize PROVE HostInv'
  OBVIOUS
<1>1. /\ pc = "finalize" /\ pc' = "poll" /\ frame' = <<>> /\ sts' = Append(sts, ret)
      /\ given' = IF op = NoOp THEN given ELSE given \cup {[call |-> op.call, ret |-> ret]}
      /\ UNCHANGED <<asked, hpc, hword, answer, cmd, stray>>
  BY DEF Finalize, hostVars, histVars
<1>2. Shape'
  BY <1>1, EmptyFacts DEF HostInv, Shape
<1>3. OwnAnswer'
  <2>1. given \subseteq given'
    BY <1>1
  <2>2. QED
    BY <1>1, <2>1 DEF HostInv, OwnAnswer
<1>4. ASSUME ~ stray' PROVE InStep'
  <2>1. InStep
    BY <1>1, <1>4 DEF HostInv
  <2>2. hpc = "waiting"
    BY <1>1, <2>1 DEF InStep, Idle, Writing, Words, HostInv, Shape
  <2>3. Running /\ Len(answer) = Current - 1
    BY <1>1, <2>1, <2>2 DEF InStep, Waiting, Words, Answered
  <2>4. sts' = <<ret>>
    BY <1>1, <2>3 DEF Running
  <2>5. op # NoOp
    <3>1. Len(answer) \in Nat /\ Current \in Nat
      BY EmptyFacts DEF HostInv, Shape, Current
    <3>2. op.call # 0
      BY <2>3, <3>1 DEF Running
    <3>3. QED
      BY <3>2 DEF NoOp
  <2>6. [call |-> Current, ret |-> ret] \in given'
    BY <1>1, <2>3, <2>5 DEF Running
  <2>7. Answered'
    BY <1>1, <2>3, <2>4, <2>6 DEF Answered, Running, Current
  <2>8. QED
    BY <1>1, <2>2, <2>3, <2>7 DEF InStep, Waiting, Current
<1>5. QED
  BY <1>2, <1>3, <1>4 DEF HostInv

(* An error of the handler ends a call in the middle, with its status.     *)
LEMMA HandlerRaisesInv == HostInv /\ HandlerRaises => HostInv'
<1> SUFFICES ASSUME HostInv, HandlerRaises PROVE HostInv'
  OBVIOUS
<1>1. /\ pc' = "finalize"
      /\ UNCHANGED <<asked, hpc, hword, answer, cmd, sts, frame, op, given>>
  BY DEF HandlerRaises, hostVars
<1>2. stray \in BOOLEAN /\ stray' = (stray \/ pc \in {"poll", "read"})
  BY DEF HandlerRaises, HostInv, Shape
<1>3. stray' \in BOOLEAN /\ (~ stray' => ~ stray /\ pc \notin {"poll", "read"})
  BY <1>2
<1>4. Shape' /\ OwnAnswer'
  BY <1>1, <1>3 DEF HostInv, Shape, OwnAnswer
<1>5. ASSUME ~ stray' PROVE InStep'
  <2>1. InStep /\ pc \notin {"poll", "read"}
    BY <1>3, <1>5 DEF HostInv
  <2>2. QED
    BY <1>1, <2>1 DEF InStep, Idle, Writing, Waiting, Words, Running, Busy, Answered, Current
<1>6. QED
  BY <1>4, <1>5 DEF HostInv

(* What concerns neither the streams nor the call.                         *)
LEMMA ElsewhereInv ==
  HostInv /\ UNCHANGED <<hostVars, cmd, sts, callVars, stray>> => HostInv'
<1> SUFFICES ASSUME HostInv, UNCHANGED <<hostVars, cmd, sts, callVars, stray>> PROVE HostInv'
  OBVIOUS
<1>1. UNCHANGED <<asked, hpc, hword, answer, cmd, sts, pc, frame, op, given, stray>>
  BY DEF hostVars, callVars
<1>2. Shape' /\ OwnAnswer'
  BY <1>1 DEF HostInv, Shape, OwnAnswer
<1>3. ASSUME ~ stray' PROVE InStep'
  <2>1. Current' = Current
    BY <1>1 DEF Current
  <2>2. (Words => Words') /\ (Running => Running') /\ (Answered => Answered')
    BY <1>1, <2>1 DEF Words, Running, Answered
  <2>3. InStep
    BY <1>1, <1>3 DEF HostInv
  <2>4. QED
    BY <1>1, <2>1, <2>2, <2>3 DEF InStep, Idle, Writing, Waiting
<1>4. QED
  BY <1>2, <1>3 DEF HostInv

LEMMA StepInv == HostInv /\ [HostNext]_vars => HostInv'
<1> SUFFICES ASSUME HostInv, [HostNext]_vars PROVE HostInv'
  OBVIOUS
<1>1. CASE \E k \in Kinds : HostCall(k)
  BY <1>1, HostCallInv
<1>2. CASE Hostctrl
  BY <1>2, WriteWordInv, ReadStatusInv DEF Hostctrl
<1>3. CASE MainLoop
  BY <1>3, WaitForCallInv, ReadWordInv, DispatchInv, CarryingInv, FinalizeInv
  DEF MainLoop, Carrying
<1>4. CASE HandlerRaises
  BY <1>4, HandlerRaisesInv
<1>5. CASE Configure
  BY <1>5, ElsewhereInv DEF Configure, histVars
<1>6. CASE RequestConnection \/ Answering
  BY <1>6, ElsewhereInv
  DEF RequestConnection, Answering, StackAnswers, WriteAnswer, histVars
<1>7. CASE PortKernel
  BY <1>7, ElsewhereInv DEF PortKernel, RequestPort, PortStatus, WritePortStatus, histVars
<1>8. CASE UNCHANGED vars
  BY <1>8, ElsewhereInv DEF vars, histVars
<1>9. QED
  BY <1>1, <1>2, <1>3, <1>4, <1>5, <1>6, <1>7, <1>8 DEF HostNext

-----------------------------------------------------------------------------

(* Nothing on the streams between hostctrl and main names a call, yet each *)
(* call is given the result of its own execution, unless an error of the   *)
(* handler was reported while no call was carried out.                     *)
THEOREM AnswersOwned == HostSpec => []OwnAnswer
<1>1. HostInv => OwnAnswer
  BY DEF HostInv
<1>2. QED
  BY <1>1, InitInv, StepInv, PTL DEF HostSpec

-----------------------------------------------------------------------------
(* The connection and port requests under way.                             *)

(* The words of answers between the stack and openCon, oldest first.       *)
Inbound == resp \o (conSts \o answering)

(* Four times the requests under way: a request is two words of conQ, then *)
(* one of asking, then an answer of four words.                            *)
Left == 2 * Len(conQ) + 4 * Cardinality(asking) + Len(Inbound)

PortQuiet == portQ = <<>> /\ portSts = <<>> /\ listen = "open_port"

(* openPort's request, or its answer, is in one place.                     *)
PortAsked ==
  \/ Len(portQ) = 1 /\ portSts = <<>> /\ listen = "open_port"
  \/ portQ = <<>> /\ portSts = <<>> /\ listen \in {"wait", "opened", "refused"}
  \/ portQ = <<>> /\ Len(portSts) = 1 /\ listen = "open_port"

NetShape ==
  /\ IsSeq(conQ) /\ IsSeq(resp) /\ IsSeq(conSts) /\ IsSeq(answering)
  /\ IsSeq(portQ) /\ IsSeq(portSts)
  /\ IsFiniteSet(asking) /\ nsession \in Nat /\ cutOff \in BOOLEAN
  /\ \A q \in asking : q.nth \in Nat /\ q.nth < nsession
  /\ toAsk \subseteq Others

(* Only openPort has a port request under way, and openCon as many as it   *)
(* has made and not taken the answers of.                                  *)
Requests ==
  /\ IF pc = "port_wait" THEN PortAsked ELSE PortQuiet
  /\ pc \in {"port_ask", "port_wait"} => toAsk = Others
  /\ pc \notin {"con_ask", "con_resp"} => Left = 0
  /\ pc = "con_ask" => resp = <<>> /\ Left = 4 * (Cardinality(Others) - Cardinality(toAsk))
  /\ pc = "con_resp" => toAsk = {} /\ toCome \in Nat /\ Left = 4 * toCome

ReqInv == NetShape /\ (~ cutOff => Requests)

LEMMA OthersFacts ==
  /\ IsFiniteSet(Others) /\ Cardinality(Others) = Cardinality(Ranks) - 1
  /\ Cardinality(Others) \in Nat
  /\ \A S : S \subseteq Others => IsFiniteSet(S) /\ Cardinality(S) \in Nat
<1>1. IsFiniteSet(Ranks) /\ Local \in Ranks
  BY HostAssumption
<1>2. IsFiniteSet(Others) /\ Cardinality(Others) = Cardinality(Ranks) - 1
  BY <1>1, FS_RemoveElement DEF Others
<1>3. QED
  BY <1>2, FS_Subset, FS_CardinalityType

(* The numbers that Left is made of.                                       *)
LEMMA LeftParts ==
  ASSUME NetShape
  PROVE  /\ IsSeq(Inbound) /\ IsSeq(conSts \o answering)
         /\ Len(Inbound) = Len(resp) + Len(conSts) + Len(answering)
         /\ Len(conQ) \in Nat /\ Len(resp) \in Nat /\ Len(conSts) \in Nat
         /\ Len(answering) \in Nat /\ Cardinality(asking) \in Nat /\ Left \in Nat
<1>1. IsSeq(conQ) /\ IsSeq(resp) /\ IsSeq(conSts) /\ IsSeq(answering) /\ IsFiniteSet(asking)
  BY DEF NetShape
<1>2. /\ IsSeq(conSts \o answering)
      /\ Len(conSts \o answering) = Len(conSts) + Len(answering)
      /\ Len(conSts) \in Nat /\ Len(answering) \in Nat
  BY <1>1, ConcatFacts
<1>3. PICK w : w = conSts \o answering
  OBVIOUS
<1>4. IsSeq(resp \o w) /\ Len(resp \o w) = Len(resp) + Len(w) /\ Len(resp) \in Nat
  BY <1>1, <1>2, <1>3, ConcatFacts
<1>5. Len(conQ) \in Nat /\ Cardinality(asking) \in Nat
  BY <1>1, EmptyFacts, FS_CardinalityType
<1>6. IsSeq(Inbound) /\ Len(Inbound) = Len(resp) + Len(conSts) + Len(answering)
  BY <1>2, <1>3, <1>4 DEF Inbound
<1>7. Left \in Nat
  BY <1>2, <1>4, <1>5, <1>6 DEF Left
<1>8. QED
  BY <1>2, <1>4, <1>5, <1>6, <1>7

LEMMA NoneLeft ==
  ASSUME NetShape, Left = 0
  PROVE  /\ conQ = <<>> /\ asking = {} /\ answering = <<>> /\ conSts = <<>> /\ resp = <<>>
<1>1. /\ Len(conQ) = 0 /\ Cardinality(asking) = 0 /\ Len(answering) = 0
      /\ Len(conSts) = 0 /\ Len(resp) = 0
  BY LeftParts DEF Left
<1>2. QED
  BY <1>1, EmptyFacts, FS_EmptySet DEF NetShape

LEMMA ReqInvInit == HostInit => ReqInv
<1> SUFFICES ASSUME HostInit PROVE ReqInv
  OBVIOUS
<1>1. NetShape
  BY EmptyFacts, FS_EmptySet DEF HostInit, NetShape
<1>2. Left = 0
  <2>1. Len(<<>>) = 0 /\ Cardinality({}) = 0
    BY FS_EmptySet
  <2>2. Len(Inbound) = 0
    BY <1>1, <2>1, LeftParts DEF HostInit
  <2>3. QED
    BY <2>1, <2>2 DEF HostInit, Left
<1>3. QED
  BY <1>1, <1>2 DEF HostInit, ReqInv, Requests, PortQuiet

(* tcp_openConReq makes two words a request to the stack.                  *)
LEMMA RequestConnectionFacts ==
  ASSUME NetShape, RequestConnection
  PROVE  /\ NetShape' /\ Left' = Left /\ Inbound' = Inbound
         /\ Len(conQ') = Len(conQ) - 2
         /\ \A i \in 1 .. Len(conQ) - 2 : conQ'[i] = conQ[i + 2]
<1>1. /\ Len(conQ) >= 2 /\ conQ' = SubSeq(conQ, 3, Len(conQ)) /\ nsession' = nsession + 1
      /\ asking' = asking \cup {[ip |-> conQ[1], port |-> conQ[2], nth |-> nsession]}
      /\ UNCHANGED <<resp, conSts, answering, portQ, portSts, cutOff, toAsk>>
  BY DEF RequestConnection, conVars, histVars
<1>2. /\ IsSeq(conQ') /\ Len(conQ') = Len(conQ) - 2 /\ Len(conQ) \in Nat
      /\ \A i \in 1 .. Len(conQ) - 2 : conQ'[i] = conQ[i + 2]
  <2>1. IsSeq(conQ) /\ 2 \in Nat /\ 2 <= Len(conQ) /\ 2 + 1 = 3
    BY <1>1, EmptyFacts DEF NetShape
  <2>2. /\ IsSeq(SubSeq(conQ, 2 + 1, Len(conQ))) /\ Len(conQ) \in Nat
        /\ Len(SubSeq(conQ, 2 + 1, Len(conQ))) = Len(conQ) - 2
        /\ \A i \in 1 .. Len(conQ) - 2 : SubSeq(conQ, 2 + 1, Len(conQ))[i] = conQ[i + 2]
    BY <2>1, DropFacts
  <2>3. conQ' = SubSeq(conQ, 2 + 1, Len(conQ))
    BY <1>1, <2>1
  <2>4. QED
    BY <2>2, <2>3
<1> DEFINE e == [ip |-> conQ[1], port |-> conQ[2], nth |-> nsession]
<1>3. nsession \in Nat /\ IsFiniteSet(asking) /\ e \notin asking
  BY DEF NetShape
<1>4. IsFiniteSet(asking') /\ Cardinality(asking') = Cardinality(asking) + 1
  BY <1>1, <1>3, FS_AddElement
<1>5. \A q \in asking' : q.nth \in Nat /\ q.nth < nsession'
  BY <1>1, <1>3 DEF NetShape
<1>6. NetShape'
  BY <1>1, <1>2, <1>3, <1>4, <1>5 DEF NetShape, Others
<1>7. Inbound' = Inbound
  BY <1>1 DEF Inbound
<1>8. Left' = Left
  <2>1. Cardinality(asking) \in Nat /\ Len(Inbound) \in Nat
    BY LeftParts
  <2>2. QED
    BY <1>2, <1>4, <1>7, <2>1 DEF Left
<1>9. QED
  BY <1>2, <1>6, <1>7, <1>8

(* The stack's answer is four words behind those that wait.                *)
LEMMA StackAnswersFacts ==
  ASSUME NetShape, NEW q \in asking, NEW success \in BOOLEAN, StackAnswers(q, success)
  PROVE  /\ NetShape' /\ Left' = Left /\ UNCHANGED <<conQ, toAsk>>
         /\ Len(Inbound) \in Nat /\ Len(Inbound') = Len(Inbound) + 4
         /\ \A i \in 1 .. Len(Inbound) : Inbound'[i] = Inbound[i]
         /\ Inbound'[Len(Inbound) + 1] = q.nth + 1 /\ q.nth \in Nat
         /\ Inbound'[Len(Inbound) + 2] = q.ip /\ Inbound'[Len(Inbound) + 3] = q.port
         /\ Inbound'[Len(Inbound) + 4] = IF success THEN 1 ELSE 0
<1>a. PICK a : a = <<q.nth + 1, q.ip, q.port, IF success THEN 1 ELSE 0>>
  OBVIOUS
<1>1. /\ answering = <<>> /\ answering' = a /\ asking' = asking \ {q}
      /\ UNCHANGED <<conQ, resp, conSts, nsession, portQ, portSts, cutOff, toAsk>>
  BY <1>a DEF StackAnswers, conVars, histVars
<1>2. /\ IsSeq(a) /\ Len(a) = 4 /\ a[1] = q.nth + 1 /\ a[2] = q.ip /\ a[3] = q.port
      /\ a[4] = IF success THEN 1 ELSE 0
  <2>1. PICK s : s = IF success THEN 1 ELSE 0
    OBVIOUS
  <2>2. a = <<q.nth + 1, q.ip, q.port, s>>
    BY <1>a, <2>1
  <2>3. a \in Seq({q.nth + 1, q.ip, q.port, s})
    BY <2>2
  <2>4. QED
    BY <2>1, <2>2, <2>3 DEF IsSeq
<1>3. IsFiniteSet(asking') /\ Cardinality(asking') = Cardinality(asking) - 1
  BY <1>1, FS_RemoveElement DEF NetShape
<1>4. NetShape'
  BY <1>1, <1>2, <1>3 DEF NetShape, Others
<1>5. Inbound = resp \o conSts
  <2>1. conSts \o <<>> = conSts
    <3>1. PICK T : conSts \in Seq(T)
      BY DEF NetShape, IsSeq
    <3>2. QED
      BY <3>1
  <2>2. QED
    BY <1>1, <2>1 DEF Inbound
<1>6. Inbound' = Inbound \o a
  <2>1. Inbound' = resp \o (conSts \o a)
    BY <1>1 DEF Inbound
  <2>2. PICK S, T, U : resp \in Seq(S) /\ conSts \in Seq(T) /\ a \in Seq(U)
    BY <1>2 DEF NetShape, IsSeq
  <2>3. resp \in Seq(S \cup T \cup U) /\ conSts \in Seq(S \cup T \cup U)
        /\ a \in Seq(S \cup T \cup U)
    BY <2>2
  <2>4. resp \o (conSts \o a) = (resp \o conSts) \o a
    BY <2>3
  <2>5. QED
    BY <1>5, <2>1, <2>4
<1>7. IsSeq(Inbound) /\ Cardinality(asking) \in Nat /\ Len(conQ) \in Nat
  BY LeftParts
<1>8. /\ Len(Inbound') = Len(Inbound) + 4 /\ Len(Inbound) \in Nat
      /\ \A i \in 1 .. Len(Inbound) : Inbound'[i] = Inbound[i]
      /\ \A i \in 1 .. 4 : Inbound'[Len(Inbound) + i] = a[i]
  <2>1. PICK x, y : x = Inbound /\ y = Inbound'
    OBVIOUS
  <2>2. IsSeq(x) /\ IsSeq(a) /\ y = x \o a
    BY <1>2, <1>6, <1>7, <2>1
  <2>3. /\ Len(y) = Len(x) + Len(a) /\ Len(x) \in Nat
        /\ \A i \in 1 .. Len(x) : y[i] = x[i]
        /\ \A i \in 1 .. Len(a) : y[Len(x) + i] = a[i]
    BY <2>2, ConcatFacts
  <2>4. QED
    BY <1>2, <2>1, <2>3
<1>9. Left' = Left
  <2>1. /\ Len(Inbound') = Len(Inbound) + 4 /\ Len(Inbound) \in Nat
        /\ Cardinality(asking') = Cardinality(asking) - 1 /\ conQ' = conQ
    BY <1>1, <1>3, <1>8
  <2>2. QED
    BY <1>7, <2>1, SMT DEF Left
<1>10. q.nth \in Nat
  BY DEF NetShape
<1>11. QED
  BY <1>1, <1>2, <1>4, <1>8, <1>9, <1>10

(* A word on its way to openCon.                                           *)
LEMMA WordMoves ==
  ASSUME NetShape, WriteAnswer \/ ReadAnswer
  PROVE  NetShape' /\ Left' = Left /\ Inbound' = Inbound
<1>1. UNCHANGED <<conQ, asking, nsession, portQ, portSts, cutOff, toAsk>>
  BY DEF WriteAnswer, ReadAnswer, conVars, histVars
<1>2. CASE WriteAnswer
  <2>1. /\ answering # <<>> /\ conSts' = Append(conSts, Head(answering))
        /\ answering' = Tail(answering) /\ resp' = resp
    BY <1>2 DEF WriteAnswer, conVars
  <2>2. conSts' \o answering' = conSts \o answering
    BY <2>1, MoveFacts DEF NetShape
  <2>3. IsSeq(conSts') /\ IsSeq(answering')
    BY <2>1, AppendFacts, TailFacts DEF NetShape
  <2>4. NetShape'
    BY <1>1, <2>1, <2>3 DEF NetShape, Others
  <2>5. Inbound' = Inbound
    BY <2>1, <2>2 DEF Inbound
  <2>6. QED
    BY <1>1, <2>4, <2>5 DEF Left
<1>3. CASE ReadAnswer
  <2>1. /\ conSts # <<>> /\ resp' = Append(resp, Head(conSts))
        /\ conSts' = Tail(conSts) /\ answering' = answering
    BY <1>3 DEF ReadAnswer
  <2>2. IsSeq(conSts') /\ IsSeq(resp')
    BY <2>1, AppendFacts, TailFacts DEF NetShape
  <2>3. NetShape'
    BY <1>1, <2>1, <2>2 DEF NetShape, Others
  <2>4. Inbound' = Inbound
    BY <2>1, MoveBeforeFacts DEF Inbound, NetShape
  <2>5. QED
    BY <1>1, <2>3, <2>4 DEF Left
<1>4. QED
  BY <1>2, <1>3

(* The four words of an answer are consumed together.                      *)
LEMMA TakeAnswerFacts ==
  ASSUME NetShape, TakeAnswer
  PROVE  /\ NetShape' /\ Left' = Left - 4 /\ UNCHANGED <<conQ, asking, toAsk>>
         /\ Len(Inbound) \in Nat /\ Len(Inbound) >= 4 /\ Len(Inbound') = Len(Inbound) - 4
         /\ \A i \in 1 .. Len(Inbound) - 4 : Inbound'[i] = Inbound[i + 4]
         /\ \A i \in 1 .. 4 : Inbound[i] = resp[i]
<1>1. /\ Len(resp) = 4 /\ resp' = <<>>
      /\ UNCHANGED <<conQ, asking, conSts, answering, nsession, portQ, portSts, cutOff, toAsk>>
  BY DEF TakeAnswer, netVars, histVars
<1>2. NetShape'
  BY <1>1, EmptyFacts DEF NetShape, Others
<1>3. PICK w : w = conSts \o answering
  OBVIOUS
<1>4. /\ IsSeq(w) /\ Len(w) = Len(conSts) + Len(answering) /\ IsSeq(resp) /\ Len(w) \in Nat
      /\ Cardinality(asking) \in Nat /\ Len(conQ) \in Nat
  <2>1. IsSeq(w) /\ IsSeq(resp)
    BY <1>3, LeftParts DEF NetShape
  <2>2. Len(w) = Len(conSts) + Len(answering) /\ Len(w) \in Nat
    BY <1>3, ConcatFacts, EmptyFacts DEF NetShape
  <2>3. QED
    BY <2>1, <2>2, LeftParts
<1>5. Inbound' = w
  <2>1. PICK T : w \in Seq(T)
    BY <1>4 DEF IsSeq
  <2>2. <<>> \o w = w
    BY <2>1
  <2>3. QED
    BY <1>1, <1>3, <2>2 DEF Inbound
<1>6. /\ Inbound = resp \o w /\ Len(resp \o w) = 4 + Len(w)
      /\ \A i \in 1 .. 4 : (resp \o w)[i] = resp[i]
      /\ \A i \in 1 .. Len(w) : (resp \o w)[4 + i] = w[i]
  <2>1. PICK x, y : x = resp /\ y = Inbound
    OBVIOUS
  <2>2. IsSeq(x) /\ IsSeq(w) /\ y = x \o w
    BY <1>3, <1>4, <2>1 DEF Inbound
  <2>3. /\ Len(y) = Len(x) + Len(w)
        /\ \A i \in 1 .. Len(x) : y[i] = x[i]
        /\ \A i \in 1 .. Len(w) : y[Len(x) + i] = w[i]
    BY <2>2, ConcatFacts
  <2>4. QED
    BY <1>1, <2>1, <2>2, <2>3
<1>7. \A i \in 1 .. Len(w) : Inbound'[i] = Inbound[i + 4]
  BY <1>4, <1>5, <1>6
<1>8. Len(w) = Len(Inbound) - 4 /\ Len(Inbound) \in Nat /\ Len(Inbound) >= 4
  BY <1>4, <1>6
<1>9. Left' = Left - 4
  <2>1. /\ Len(Inbound') = Len(Inbound) - 4 /\ Len(Inbound) \in Nat
        /\ asking' = asking /\ conQ' = conQ
    BY <1>1, <1>5, <1>8
  <2>2. QED
    BY <1>4, <2>1, SMT DEF Left
<1>10. QED
  BY <1>1, <1>2, <1>5, <1>6, <1>7, <1>8, <1>9

(* openCon asks for one more rank.                                         *)
LEMMA AskConnectionFacts ==
  ASSUME NetShape, NEW r \in Ranks, AskConnection(r)
  PROVE  /\ NetShape' /\ Left' = Left + 4 /\ Inbound' = Inbound
         /\ r \in toAsk /\ r \in Others /\ Cardinality(toAsk') = Cardinality(toAsk) - 1
         /\ Len(conQ) \in Nat /\ Len(conQ') = Len(conQ) + 2
         /\ \A i \in 1 .. Len(conQ) : conQ'[i] = conQ[i]
         /\ conQ'[Len(conQ) + 1] = Addr[r].ip /\ conQ'[Len(conQ) + 2] = Addr[r].port
<1>a. PICK a : a = <<Addr[r].ip, Addr[r].port>>
  OBVIOUS
<1>1. /\ r \in toAsk /\ toAsk' = toAsk \ {r} /\ conQ' = conQ \o a
      /\ UNCHANGED <<resp, asking, conSts, answering, nsession, portQ, portSts, cutOff>>
  BY <1>a DEF AskConnection, histVars
<1>2. IsSeq(a) /\ Len(a) = 2 /\ a[1] = Addr[r].ip /\ a[2] = Addr[r].port
  <2>1. a \in Seq({Addr[r].ip, Addr[r].port})
    BY <1>a
  <2>2. QED
    BY <1>a, <2>1 DEF IsSeq
<1>3. /\ IsSeq(conQ') /\ Len(conQ) \in Nat /\ Len(conQ') = Len(conQ) + 2
      /\ \A i \in 1 .. Len(conQ) : conQ'[i] = conQ[i]
      /\ \A i \in 1 .. 2 : conQ'[Len(conQ) + i] = a[i]
  <2>1. PICK x, y : x = conQ /\ y = conQ'
    OBVIOUS
  <2>2. IsSeq(x) /\ IsSeq(a) /\ y = x \o a
    BY <1>1, <1>2, <2>1 DEF NetShape
  <2>3. /\ IsSeq(y) /\ Len(y) = Len(x) + Len(a) /\ Len(x) \in Nat
        /\ \A i \in 1 .. Len(x) : y[i] = x[i]
        /\ \A i \in 1 .. Len(a) : y[Len(x) + i] = a[i]
    BY <2>2, ConcatFacts
  <2>4. QED
    BY <1>2, <2>1, <2>3
<1>4. NetShape'
  BY <1>1, <1>3 DEF NetShape, Others
<1>5. Inbound' = Inbound
  BY <1>1 DEF Inbound
<1>6. Left' = Left + 4
  <2>1. Cardinality(asking) \in Nat /\ Len(Inbound) \in Nat
    BY LeftParts
  <2>2. QED
    BY <1>1, <1>3, <1>5, <2>1 DEF Left
<1>7. Cardinality(toAsk') = Cardinality(toAsk) - 1
  BY <1>1, OthersFacts, FS_RemoveElement DEF NetShape
<1>8. r \in Others
  BY <1>1 DEF NetShape
<1>9. QED
  BY <1>1, <1>2, <1>3, <1>4, <1>5, <1>6, <1>7, <1>8

-----------------------------------------------------------------------------
(* Each step keeps the count.                                              *)

Opens == {"port_ask", "port_wait", "con_ask", "con_resp"}

(* What concerns no request, while main opens nothing or does not move.    *)
LEMMA ElsewhereReq ==
  ASSUME ReqInv, UNCHANGED <<netVars, resp, toAsk, toCome, cutOff>>,
         pc' = pc \/ (pc \notin Opens /\ pc' \notin Opens)
  PROVE  ReqInv'
<1>1. UNCHANGED <<conQ, asking, answering, conSts, portQ, portSts, listen, nsession,
                  resp, toAsk, toCome, cutOff>>
  BY DEF netVars
<1>2. NetShape' /\ Left' = Left
  BY <1>1 DEF ReqInv, NetShape, Left, Inbound, Others
<1>3. (PortAsked => PortAsked') /\ (PortQuiet => PortQuiet') /\ Others' = Others
  BY <1>1 DEF PortAsked, PortQuiet, Others
<1>4. ASSUME ~ cutOff PROVE Requests'
  <2>1. Requests
    BY <1>4 DEF ReqInv
  <2>2. CASE pc' = pc
    BY <1>1, <1>2, <1>3, <2>1, <2>2 DEF Requests
  <2>3. CASE pc \notin Opens /\ pc' \notin Opens
    BY <1>1, <1>2, <1>3, <2>1, <2>3 DEF Requests, Opens
  <2>4. QED
    BY <2>2, <2>3
<1>5. QED
  BY <1>1, <1>2, <1>4 DEF ReqInv

(* A kernel or the stack moves a request on.                               *)
LEMMA MovedReq ==
  ASSUME ReqInv, NetShape', Left' = Left,
         UNCHANGED <<pc, toAsk, toCome, cutOff, portQ, portSts, listen>>,
         pc = "con_ask" => resp' = resp
  PROVE  ReqInv'
<1>1. (PortAsked => PortAsked') /\ (PortQuiet => PortQuiet') /\ Others' = Others
  BY DEF PortAsked, PortQuiet, Others
<1>2. ASSUME ~ cutOff PROVE Requests'
  <2>1. Requests
    BY <1>2 DEF ReqInv
  <2>2. QED
    BY <1>1, <2>1 DEF Requests
<1>3. QED
  BY <1>2 DEF ReqInv

LEMMA DispatchReq == \A k \in Kinds : ReqInv /\ Dispatch(k) => ReqInv'
<1> SUFFICES ASSUME NEW k \in Kinds, ReqInv, Dispatch(k) PROVE ReqInv'
  OBVIOUS
<1>1. /\ pc = "read" /\ toAsk' = Others
      /\ UNCHANGED <<conQ, asking, answering, conSts, portQ, portSts, listen, nsession,
                     resp, cutOff>>
  BY DEF Dispatch, netVars, histVars
<1>2. pc' \in {"run", "port_ask", "con_ask"}
  <2>1. k \in {"work", "irq_on", "irq_off", "reset", "open_port", "open_con",
               "init_connection"}
    BY HostAssumption
  <2>2. QED
    BY <2>1 DEF Dispatch
<1>3. NetShape' /\ Left' = Left /\ Others' = Others /\ (PortQuiet => PortQuiet')
  BY <1>1 DEF ReqInv, NetShape, Left, Inbound, Others, PortQuiet
<1>4. ASSUME ~ cutOff PROVE Requests'
  <2>1. PortQuiet /\ Left = 0
    BY <1>1, <1>4 DEF ReqInv, Requests
  <2>2. resp = <<>>
    BY <2>1, NoneLeft DEF ReqInv
  <2>3. Left' = 4 * (Cardinality(Others) - Cardinality(toAsk'))
    <3>1. Cardinality(toAsk') = Cardinality(Others) /\ Cardinality(Others) \in Nat
      BY <1>1, OthersFacts
    <3>2. QED
      BY <1>3, <2>1, <3>1
  <2>4. QED
    BY <1>1, <1>2, <1>3, <2>1, <2>2, <2>3 DEF Requests
<1>5. QED
  BY <1>1, <1>3, <1>4 DEF ReqInv

(* The peripherals are reset while no request is under way.                *)
LEMMA SoftResetReq == ReqInv /\ SoftReset => ReqInv'
<1> SUFFICES ASSUME ReqInv, SoftReset PROVE ReqInv'
  OBVIOUS
<1>1. /\ pc = "run" /\ pc' = "finalize" /\ conQ' = <<>> /\ conSts' = <<>>
      /\ portQ' = <<>> /\ portSts' = <<>> /\ listen' = "open_port"
      /\ UNCHANGED <<asking, answering, nsession, resp, toAsk, cutOff>>
  BY DEF SoftReset, histVars
<1>2. NetShape' /\ PortQuiet'
  BY <1>1, EmptyFacts DEF ReqInv, NetShape, Others, PortQuiet
<1>3. ASSUME ~ cutOff PROVE Requests'
  <2>1. Left = 0
    BY <1>1, <1>3 DEF ReqInv, Requests
  <2>2. conQ = <<>> /\ conSts = <<>>
    BY <2>1, NoneLeft DEF ReqInv
  <2>3. Left' = Left
    BY <1>1, <2>2 DEF Left, Inbound
  <2>4. QED
    BY <1>1, <1>2, <2>1, <2>3 DEF Requests
<1>4. QED
  BY <1>1, <1>2, <1>3 DEF ReqInv

LEMMA HandlerRaisesReq == ReqInv /\ HandlerRaises => ReqInv'
<1> SUFFICES ASSUME ReqInv, HandlerRaises PROVE ReqInv'
  OBVIOUS
<1>1. /\ pc' = "finalize" /\ cutOff' = (cutOff \/ pc \in {"port_wait", "con_ask", "con_resp"})
      /\ UNCHANGED <<conQ, asking, answering, conSts, portQ, portSts, listen, nsession,
                     resp, toAsk, toCome>>
  BY DEF HandlerRaises, conVars, netVars
<1>2. /\ NetShape' /\ Left' = Left /\ (PortQuiet => PortQuiet')
  <2>1. cutOff' \in BOOLEAN
    BY <1>1 DEF ReqInv, NetShape
  <2>2. QED
    BY <1>1, <2>1 DEF ReqInv, NetShape, Left, Inbound, Others, PortQuiet
<1>3. ASSUME ~ cutOff' PROVE Requests'
  <2>1. ~ cutOff /\ pc \notin {"port_wait", "con_ask", "con_resp"}
    BY <1>1, <1>3
  <2>2. PortQuiet /\ Left = 0
    BY <2>1 DEF ReqInv, Requests
  <2>3. QED
    BY <1>1, <1>2, <2>2 DEF Requests
<1>4. QED
  BY <1>2, <1>3 DEF ReqInv

(* openPort asks, and takes the answer.                                    *)
LEMMA AskPortReq == ReqInv /\ AskPort => ReqInv'
<1> SUFFICES ASSUME ReqInv, AskPort PROVE ReqInv'
  OBVIOUS
<1>1. /\ pc = "port_ask" /\ pc' = "port_wait" /\ portQ' = Append(portQ, Addr[Local].port)
      /\ UNCHANGED <<conQ, asking, answering, conSts, portSts, listen, nsession, resp,
                     toAsk, toCome, cutOff>>
  BY DEF AskPort, conVars, histVars
<1>2. IsSeq(portQ') /\ Len(portQ') = Len(portQ) + 1
  BY <1>1, AppendFacts DEF ReqInv, NetShape
<1>3. NetShape' /\ Left' = Left /\ Others' = Others
  BY <1>1, <1>2 DEF ReqInv, NetShape, Left, Inbound, Others
<1>4. ASSUME ~ cutOff PROVE Requests'
  <2>1. PortQuiet /\ Left = 0 /\ toAsk = Others
    BY <1>1, <1>4 DEF ReqInv, Requests
  <2>2. Len(portQ') = 1
    BY <1>2, <2>1 DEF PortQuiet
  <2>3. PortAsked'
    BY <1>1, <2>1, <2>2 DEF PortQuiet, PortAsked
  <2>4. QED
    BY <1>1, <1>3, <2>1, <2>3 DEF Requests
<1>5. QED
  BY <1>1, <1>3, <1>4 DEF ReqInv

LEMMA PortOpenedReq == ReqInv /\ PortOpened => ReqInv'
<1> SUFFICES ASSUME ReqInv, PortOpened PROVE ReqInv'
  OBVIOUS
<1>1. /\ pc = "port_wait" /\ portSts # <<>> /\ pc' \in {"con_ask", "finalize"}
      /\ portSts' = Tail(portSts)
      /\ UNCHANGED <<conQ, asking, answering, conSts, portQ, listen, nsession, resp,
                     toAsk, toCome, cutOff>>
  BY DEF PortOpened, histVars
<1>2. IsSeq(portSts') /\ Len(portSts') = Len(portSts) - 1
  BY <1>1, TailFacts DEF ReqInv, NetShape
<1>3. NetShape' /\ Left' = Left /\ Others' = Others
  BY <1>1, <1>2 DEF ReqInv, NetShape, Left, Inbound, Others
<1>4. ASSUME ~ cutOff PROVE Requests'
  <2>1. PortAsked /\ Left = 0 /\ toAsk = Others
    BY <1>1, <1>4 DEF ReqInv, Requests
  <2>2. portQ = <<>> /\ Len(portSts) = 1 /\ listen = "open_port"
    BY <1>1, <2>1 DEF PortAsked
  <2>3. portSts' = <<>>
    BY <1>2, <2>2, EmptyFacts
  <2>4. resp = <<>>
    BY <2>1, NoneLeft DEF ReqInv
  <2>5. Left' = 4 * (Cardinality(Others) - Cardinality(toAsk'))
    <3>1. Cardinality(toAsk') = Cardinality(Others) /\ Cardinality(Others) \in Nat
      BY <1>1, <2>1, OthersFacts
    <3>2. QED
      BY <1>3, <2>1, <3>1
  <2>6. PortQuiet'
    BY <1>1, <2>2, <2>3 DEF PortQuiet
  <2>7. QED
    BY <1>1, <1>3, <2>1, <2>4, <2>5, <2>6 DEF Requests
<1>5. QED
  BY <1>1, <1>3, <1>4 DEF ReqInv

(* tcp_openPort moves the request, or its answer, on.                      *)
LEMMA PortKernelReq == ReqInv /\ PortKernel => ReqInv'
<1> SUFFICES ASSUME ReqInv, PortKernel PROVE ReqInv'
  OBVIOUS
<1>1. UNCHANGED <<pc, conQ, asking, answering, conSts, nsession, resp, toAsk, toCome, cutOff>>
  BY DEF PortKernel, RequestPort, PortStatus, WritePortStatus, callVars, conVars, histVars
<1>2. \/ /\ listen = "open_port" /\ portQ # <<>> /\ portQ' = Tail(portQ)
         /\ listen' = "wait" /\ portSts' = portSts
      \/ /\ listen = "wait" /\ listen' \in {"opened", "refused"}
         /\ UNCHANGED <<portQ, portSts>>
      \/ /\ listen \in {"opened", "refused"} /\ listen' = "open_port" /\ portQ' = portQ
         /\ \E x : portSts' = Append(portSts, x)
  <2>1. CASE RequestPort
    BY <2>1 DEF RequestPort
  <2>2. CASE \E s \in BOOLEAN : PortStatus(s)
    BY <2>2 DEF PortStatus
  <2>3. CASE WritePortStatus
    BY <2>3 DEF WritePortStatus
  <2>4. QED
    BY <2>1, <2>2, <2>3 DEF PortKernel
<1>3. /\ portQ # <<>> => IsSeq(Tail(portQ)) /\ Len(Tail(portQ)) = Len(portQ) - 1
      /\ \A x : IsSeq(Append(portSts, x)) /\ Len(Append(portSts, x)) = Len(portSts) + 1
  BY TailFacts, AppendFacts DEF ReqInv, NetShape
<1>4. IsSeq(portQ') /\ IsSeq(portSts')
  BY <1>2, <1>3 DEF ReqInv, NetShape
<1>5. NetShape' /\ Left' = Left /\ Others' = Others
  BY <1>1, <1>4 DEF ReqInv, NetShape, Left, Inbound, Others
<1>6. ASSUME ~ cutOff PROVE Requests'
  <2>1. Requests
    BY <1>6 DEF ReqInv
  <2>2. pc = "port_wait" /\ PortAsked
    BY <1>2, <2>1 DEF Requests, PortQuiet
  <2>3. PortAsked'
    <3>1. CASE listen = "open_port" /\ portQ # <<>> /\ portQ' = Tail(portQ)
               /\ listen' = "wait" /\ portSts' = portSts
      <4>1. Len(portQ) = 1 /\ portSts = <<>>
        BY <2>2, <3>1 DEF PortAsked
      <4>2. IsSeq(Tail(portQ)) /\ Len(Tail(portQ)) = 0
        BY <1>3, <3>1, <4>1
      <4>3. portQ' = <<>>
        BY <3>1, <4>2, EmptyFacts
      <4>4. QED
        BY <3>1, <4>1, <4>3 DEF PortAsked
    <3>2. CASE listen = "wait" /\ listen' \in {"opened", "refused"}
               /\ UNCHANGED <<portQ, portSts>>
      BY <2>2, <3>2 DEF PortAsked
    <3>3. CASE listen \in {"opened", "refused"} /\ listen' = "open_port" /\ portQ' = portQ
               /\ \E x : portSts' = Append(portSts, x)
      <4>1. portQ = <<>> /\ portSts = <<>>
        BY <2>2, <3>3 DEF PortAsked
      <4>2. Len(portSts') = 1
        BY <1>3, <3>3, <4>1
      <4>3. QED
        BY <3>3, <4>1, <4>2 DEF PortAsked
    <3>4. QED
      BY <1>2, <3>1, <3>2, <3>3
  <2>4. QED
    BY <1>1, <1>5, <2>1, <2>2, <2>3 DEF Requests
<1>7. QED
  BY <1>1, <1>5, <1>6 DEF ReqInv

(* openCon asks for a rank.                                                *)
LEMMA AskConnectionReq == \A r \in Ranks : ReqInv /\ AskConnection(r) => ReqInv'
<1> SUFFICES ASSUME NEW r \in Ranks, ReqInv, AskConnection(r) PROVE ReqInv'
  OBVIOUS
<1>1. /\ pc = "con_ask" /\ pc' = "con_ask" /\ portQ' = portQ /\ portSts' = portSts
      /\ listen' = listen /\ cutOff' = cutOff /\ resp' = resp
  BY DEF AskConnection, callVars, histVars
<1>2. NetShape' /\ Left' = Left + 4 /\ Cardinality(toAsk') = Cardinality(toAsk) - 1
  BY AskConnectionFacts DEF ReqInv
<1>3. ASSUME ~ cutOff PROVE Requests'
  <2>1. PortQuiet /\ resp = <<>> /\ Left = 4 * (Cardinality(Others) - Cardinality(toAsk))
    BY <1>1, <1>3 DEF ReqInv, Requests
  <2>2. Cardinality(Others) \in Nat /\ Cardinality(toAsk) \in Nat
    BY OthersFacts DEF ReqInv, NetShape
  <2>3. Left' = 4 * (Cardinality(Others) - Cardinality(toAsk'))
    BY <1>2, <2>1, <2>2
  <2>4. PortQuiet' /\ Others' = Others
    BY <1>1, <2>1 DEF PortQuiet, Others
  <2>5. QED
    BY <1>1, <2>1, <2>3, <2>4 DEF Requests
<1>4. QED
  BY <1>1, <1>2, <1>3 DEF ReqInv

(* All ranks are asked for: as many answers are to come.                   *)
LEMMA AwaitAnswersReq == ReqInv /\ AwaitAnswers => ReqInv'
<1> SUFFICES ASSUME ReqInv, AwaitAnswers PROVE ReqInv'
  OBVIOUS
<1>1. /\ pc = "con_ask" /\ toAsk = {} /\ pc' = "con_resp" /\ resp' = <<>>
      /\ toCome' = Cardinality(Ranks) - 1
      /\ UNCHANGED <<conQ, asking, answering, conSts, portQ, portSts, listen, nsession,
                     toAsk, cutOff>>
  BY DEF AwaitAnswers, netVars, histVars
<1>2. NetShape'
  BY <1>1, EmptyFacts DEF ReqInv, NetShape, Others
<1>3. ASSUME ~ cutOff PROVE Requests'
  <2>1. PortQuiet /\ resp = <<>> /\ Left = 4 * (Cardinality(Others) - Cardinality(toAsk))
    BY <1>1, <1>3 DEF ReqInv, Requests
  <2>2. /\ Cardinality(Others) = Cardinality(Ranks) - 1 /\ Cardinality(Others) \in Nat
        /\ Cardinality(toAsk) = 0
    BY <1>1, OthersFacts, FS_EmptySet
  <2>3. Left' = Left
    BY <1>1, <2>1 DEF Left, Inbound
  <2>4. toCome' \in Nat /\ Left' = 4 * toCome'
    BY <1>1, <2>1, <2>2, <2>3
  <2>5. PortQuiet'
    BY <1>1, <2>1 DEF PortQuiet
  <2>6. QED
    BY <1>1, <2>4, <2>5 DEF Requests
<1>4. QED
  BY <1>1, <1>2, <1>3 DEF ReqInv

(* An answer is taken, a refusal like an acceptance.                       *)
LEMMA TakeAnswerReq == ReqInv /\ TakeAnswer => ReqInv'
<1> SUFFICES ASSUME ReqInv, TakeAnswer PROVE ReqInv'
  OBVIOUS
<1>1. /\ pc = "con_resp" /\ toCome' = toCome - 1
      /\ UNCHANGED <<pc, portQ, portSts, listen, cutOff, toAsk>>
  BY DEF TakeAnswer, netVars, histVars
<1>2. NetShape' /\ Left' = Left - 4 /\ Left >= 4 /\ Left \in Nat
  <2>1. NetShape' /\ Left' = Left - 4 /\ Len(Inbound) >= 4
    BY TakeAnswerFacts DEF ReqInv
  <2>2. /\ Len(conQ) \in Nat /\ Cardinality(asking) \in Nat /\ Left \in Nat
        /\ Len(Inbound) \in Nat
    BY LeftParts, TakeAnswerFacts DEF ReqInv
  <2>3. Left >= 4
    BY <2>1, <2>2 DEF Left
  <2>4. QED
    BY <2>1, <2>2, <2>3
<1>3. ASSUME ~ cutOff PROVE Requests'
  <2>1. PortQuiet /\ toAsk = {} /\ toCome \in Nat /\ Left = 4 * toCome
    BY <1>1, <1>3 DEF ReqInv, Requests
  <2>2. toCome' \in Nat /\ Left' = 4 * toCome'
    BY <1>1, <1>2, <2>1
  <2>3. PortQuiet'
    BY <1>1, <2>1 DEF PortQuiet
  <2>4. QED
    BY <1>1, <2>1, <2>2, <2>3 DEF Requests
<1>4. QED
  BY <1>1, <1>2, <1>3 DEF ReqInv

LEMMA ConnectionsOpenedReq == ReqInv /\ ConnectionsOpened => ReqInv'
<1> SUFFICES ASSUME ReqInv, ConnectionsOpened PROVE ReqInv'
  OBVIOUS
<1>1. /\ pc = "con_resp" /\ toCome = 0 /\ pc' = "finalize"
      /\ UNCHANGED <<conQ, asking, answering, conSts, portQ, portSts, listen, nsession,
                     resp, toAsk, cutOff>>
  BY DEF ConnectionsOpened, conVars, netVars, histVars
<1>2. NetShape' /\ Left' = Left /\ (PortQuiet => PortQuiet')
  BY <1>1 DEF ReqInv, NetShape, Left, Inbound, Others, PortQuiet
<1>3. ASSUME ~ cutOff PROVE Requests'
  <2>1. PortQuiet /\ Left = 4 * toCome
    BY <1>1, <1>3 DEF ReqInv, Requests
  <2>2. Left' = 0
    BY <1>1, <1>2, <2>1
  <2>3. QED
    BY <1>1, <1>2, <2>1, <2>2 DEF Requests
<1>4. QED
  BY <1>1, <1>2, <1>3 DEF ReqInv

LEMMA StepReq == ReqInv /\ [HostNext]_vars => ReqInv'
<1> SUFFICES ASSUME ReqInv, [HostNext]_vars PROVE ReqInv'
  OBVIOUS
<1>1. CASE Configure \/ (\E k \in Kinds : HostCall(k)) \/ Hostctrl \/ UNCHANGED vars
  <2>1. UNCHANGED <<netVars, resp, toAsk, toCome, cutOff, pc>>
    BY <1>1 DEF Configure, HostCall, Hostctrl, WriteWord, ReadStatus, vars, callVars,
                conVars, histVars
  <2>2. QED
    BY <2>1, ElsewhereReq
<1>2. CASE WaitForCall \/ ReadWord \/ (\E r \in {Success, HandlerError} : Work(r))
           \/ SetIrq \/ Finalize
  <2>1. /\ UNCHANGED <<netVars, resp, toAsk, toCome, cutOff>>
        /\ pc \notin Opens /\ pc' \notin Opens
    BY <1>2 DEF WaitForCall, ReadWord, Work, SetIrq, Finalize, conVars, histVars, Opens
  <2>2. QED
    BY <2>1, ElsewhereReq
<1>3. CASE \E k \in Kinds : Dispatch(k)
  BY <1>3, DispatchReq
<1>4. CASE SoftReset
  BY <1>4, SoftResetReq
<1>5. CASE AskPort \/ PortOpened
  BY <1>5, AskPortReq, PortOpenedReq
<1>6. CASE \E r \in Ranks : AskConnection(r)
  BY <1>6, AskConnectionReq
<1>7. CASE AwaitAnswers
  BY <1>7, AwaitAnswersReq
<1>8. CASE ReadAnswer
  <2>1. /\ pc = "con_resp"
        /\ UNCHANGED <<pc, toAsk, toCome, cutOff, portQ, portSts, listen>>
    BY <1>8 DEF ReadAnswer, callVars, histVars
  <2>2. NetShape' /\ Left' = Left
    BY <1>8, WordMoves DEF ReqInv
  <2>3. QED
    BY <2>1, <2>2, MovedReq
<1>9. CASE TakeAnswer \/ ConnectionsOpened
  BY <1>9, TakeAnswerReq, ConnectionsOpenedReq
<1>10. CASE HandlerRaises
  BY <1>10, HandlerRaisesReq
<1>11. CASE RequestConnection
  <2>1. UNCHANGED <<pc, toAsk, toCome, cutOff, portQ, portSts, listen, resp>>
    BY <1>11 DEF RequestConnection, callVars, conVars, histVars
  <2>2. NetShape' /\ Left' = Left
    BY <1>11, RequestConnectionFacts DEF ReqInv
  <2>3. QED
    BY <2>1, <2>2, MovedReq
<1>12. CASE Answering
  <2>1. UNCHANGED <<pc, toAsk, toCome, cutOff, portQ, portSts, listen, resp>>
    BY <1>12 DEF Answering, StackAnswers, WriteAnswer, callVars, conVars, histVars
  <2>2. NetShape' /\ Left' = Left
    BY <1>12, StackAnswersFacts, WordMoves DEF ReqInv, Answering
  <2>3. QED
    BY <2>1, <2>2, MovedReq
<1>13. CASE PortKernel
  BY <1>13, PortKernelReq
<1>14. QED
  BY <1>1, <1>2, <1>3, <1>4, <1>5, <1>6, <1>7, <1>8, <1>9, <1>10, <1>11, <1>12, <1>13
  DEF HostNext, MainLoop, Opening

(* No request, no word of an answer and no port status is under way when   *)
(* no call opens anything, whatever was refused and in whatever order the  *)
(* stack answered, unless the handler cut openPort or openCon off.         *)
THEOREM RequestsSettled == HostSpec => []ConnectionsSettled
<1>1. ReqInv => ConnectionsSettled
  BY NoneLeft DEF ReqInv, Requests, PortQuiet, ConnectionsSettled
<1>2. QED
  BY <1>1, ReqInvInit, StepReq, PTL DEF HostSpec

-----------------------------------------------------------------------------
(* Where the request for a rank, or its answer, is.                        *)

Req(i, r) == 2 * i + 2 <= Len(conQ) /\ IsOf(conQ[2 * i + 1], conQ[2 * i + 2], r)
Ans(i, r) ==
  4 * i + 4 <= Len(Inbound) /\ IsOf(Inbound[4 * i + 2], Inbound[4 * i + 3], r)

Requested(r) == \E i \in Nat : Req(i, r)
Asked(r) == \E q \in asking : IsOf(q.ip, q.port, r)
Replied(r) == \E i \in Nat : Ans(i, r)
Pending(r) == r \in toAsk \/ Requested(r) \/ Asked(r) \/ Replied(r)

(* Requests and answers are whole.                                         *)
Aligned ==
  /\ \E m \in Nat : Len(conQ) = 2 * m
  /\ \E m \in Nat : Len(Inbound) = 4 * m

(* A rank is asked for once, and what is found of it is in one place.      *)
Once(r) ==
  /\ \A i, j \in Nat : Req(i, r) /\ Req(j, r) => i = j
  /\ \A p, q \in asking : IsOf(p.ip, p.port, r) /\ IsOf(q.ip, q.port, r) => p = q
  /\ r \in toAsk => ~ Requested(r) /\ ~ Asked(r) /\ ~ Replied(r)
  /\ Requested(r) => ~ Asked(r) /\ ~ Replied(r)
  /\ Asked(r) => ~ Replied(r)

(* An answer on its way carries the session last opened to its rank.       *)
Fresh(r) ==
  \A i \in Nat : Ans(i, r) /\ Inbound[4 * i + 4] # 0 =>
    Inbound[4 * i + 1] = opened[r] /\ opened[r] # 0

Good(r) == session[r] # 0 /\ session[r] = opened[r]

(* Once its answer is taken a rank has its session, if all went well.      *)
Held(r) == ret = Success /\ ~ Pending(r) => Good(r)

RankInv(r) == Once(r) /\ Fresh(r) /\ Held(r)

ConInv == Aligned /\ \A r \in Others : RankInv(r)

Sessions ==
  /\ pc \in {"con_ask", "con_resp"} => ConInv
  /\ pc \in {"port_ask", "port_wait", "run"} => op.kind # "open_con"
  /\ pc = "finalize" /\ op.kind = "open_con" /\ ret = Success =>
       \A r \in Others : Good(r)

SessInv == ~ cutOff /\ ~ stray => Sessions

AllInv == HostInv /\ ReqInv /\ SessInv

LEMMA IsOfFacts ==
  /\ \A a, r \in Ranks : IsOf(Addr[a].ip, Addr[a].port, r) <=> a = r
  /\ \A r \in Ranks : \A ip, port :
       IsOf(ip, port, r) <=> Addr[r] = [ip |-> ip, port |-> port]
  /\ \A r, q \in Ranks : \A ip, port :
       IsOf(ip, port, r) /\ IsOf(ip, port, q) => r = q
  /\ Others \subseteq Ranks
<1>1. \A r \in Ranks : Addr[r] = [ip |-> Addr[r].ip, port |-> Addr[r].port]
  BY HostAssumption
<1>2. \A r, q \in Ranks : Addr[r] = Addr[q] => r = q
  BY HostAssumption
<1>3. \A r \in Ranks : \A ip, port :
        IsOf(ip, port, r) <=> Addr[r] = [ip |-> ip, port |-> port]
  BY <1>1 DEF IsOf
<1>4. \A r, q \in Ranks : \A ip, port :
        IsOf(ip, port, r) /\ IsOf(ip, port, q) => r = q
  <2>1. ASSUME NEW r \in Ranks, NEW q \in Ranks, NEW ip, NEW port,
               IsOf(ip, port, r), IsOf(ip, port, q)
        PROVE  r = q
    <3>1. Addr[r] = [ip |-> ip, port |-> port] /\ Addr[q] = [ip |-> ip, port |-> port]
      BY <1>3, <2>1
    <3>2. QED
      BY <1>2, <3>1
  <2>2. QED
    BY <2>1
<1>5. \A a, r \in Ranks : IsOf(Addr[a].ip, Addr[a].port, r) <=> a = r
  <2>1. \A a \in Ranks : IsOf(Addr[a].ip, Addr[a].port, a)
    BY DEF IsOf
  <2>2. ASSUME NEW a \in Ranks, NEW r \in Ranks
        PROVE  IsOf(Addr[a].ip, Addr[a].port, r) <=> a = r
    BY <1>4, <2>1
  <2>3. QED
    BY <2>2
<1>6. QED
  BY <1>3, <1>4, <1>5 DEF Others

(* openCon begins with nothing under way.                                  *)
LEMMA ConBegins ==
  ASSUME NetShape', Left' = 0, toAsk' = Others
  PROVE  ConInv'
<1>1. Len(conQ') = 0 /\ asking' = {} /\ Len(Inbound') = 0
  <2>1. /\ Len(conQ') \in Nat /\ Cardinality(asking') \in Nat /\ Len(Inbound') \in Nat
        /\ IsFiniteSet(asking')
    <3>1. IsSeq(conQ') /\ IsFiniteSet(asking')
      BY DEF NetShape
    <3>2. IsSeq(Inbound')
      <4>1. IsSeq(resp') /\ IsSeq(conSts') /\ IsSeq(answering')
        BY DEF NetShape
      <4>2. PICK w : w = conSts' \o answering'
        OBVIOUS
      <4>3. IsSeq(w)
        BY <4>1, <4>2, ConcatFacts
      <4>4. IsSeq(resp' \o w)
        BY <4>1, <4>3, ConcatFacts
      <4>5. QED
        BY <4>2, <4>4 DEF Inbound
    <3>3. QED
      BY <3>1, <3>2, EmptyFacts, FS_CardinalityType
  <2>2. Len(conQ') = 0 /\ Cardinality(asking') = 0 /\ Len(Inbound') = 0
    BY <2>1 DEF Left
  <2>3. QED
    BY <2>1, <2>2, FS_EmptySet
<1>2. Aligned'
  <2>1. 0 \in Nat /\ 2 * 0 = 0 /\ 4 * 0 = 0
    OBVIOUS
  <2>2. QED
    BY <1>1, <2>1 DEF Aligned
<1>3. ASSUME NEW r \in Others PROVE RankInv(r)'
  <2>1. \A i \in Nat : ~ Req(i, r)' /\ ~ Ans(i, r)'
    BY <1>1 DEF Req, Ans
  <2>2. ~ Requested(r)' /\ ~ Asked(r)' /\ ~ Replied(r)'
    BY <1>1, <2>1 DEF Requested, Asked, Replied
  <2>3. Pending(r)'
    BY <1>3 DEF Pending
  <2>4. Once(r)'
    BY <1>1, <2>1, <2>2 DEF Once
  <2>5. QED
    BY <2>1, <2>3, <2>4 DEF RankInv, Fresh, Held
<1>4. QED
  BY <1>2, <1>3 DEF ConInv, Others

(* Nothing of it changes.                                                  *)
LEMMA ConSame ==
  ASSUME ConInv, Inbound' = Inbound,
         UNCHANGED <<conQ, asking, toAsk, ret, opened, session>>
  PROVE  ConInv'
<1>1. Aligned'
  BY DEF ConInv, Aligned
<1>2. ASSUME NEW r \in Others PROVE RankInv(r)'
  <2>1. /\ Requested(r)' = Requested(r) /\ Asked(r)' = Asked(r) /\ Replied(r)' = Replied(r)
        /\ Pending(r)' = Pending(r)
    BY DEF Requested, Req, Asked, Replied, Ans, Pending
  <2>2. RankInv(r)
    BY <1>2 DEF ConInv
  <2>3. Once(r)'
    BY <2>1, <2>2 DEF RankInv, Once, Req
  <2>4. Fresh(r)'
    BY <2>2 DEF RankInv, Fresh, Ans
  <2>5. Held(r)'
    BY <2>1, <2>2 DEF RankInv, Held, Good
  <2>6. QED
    BY <2>3, <2>4, <2>5 DEF RankInv
<1>3. QED
  BY <1>1, <1>2 DEF ConInv, Others

(* openCon asks for one more rank: nothing is under way for it.            *)
LEMMA AskConnectionCon ==
  ASSUME NetShape, ConInv, NEW a \in Ranks, AskConnection(a)
  PROVE  ConInv'
<1>1. /\ Inbound' = Inbound /\ a \in toAsk /\ a \in Others
      /\ Len(conQ) \in Nat /\ Len(conQ') = Len(conQ) + 2
      /\ \A i \in 1 .. Len(conQ) : conQ'[i] = conQ[i]
      /\ conQ'[Len(conQ) + 1] = Addr[a].ip /\ conQ'[Len(conQ) + 2] = Addr[a].port
  BY AskConnectionFacts
<1>2. toAsk' = toAsk \ {a} /\ UNCHANGED <<asking, ret, opened, session>>
  BY DEF AskConnection, callVars
<1>3. PICK m \in Nat : Len(conQ) = 2 * m
  BY DEF ConInv, Aligned
<1>4. Aligned'
  <2>1. m + 1 \in Nat /\ Len(conQ') = 2 * (m + 1)
    BY <1>1, <1>3
  <2>2. QED
    BY <1>1, <2>1 DEF ConInv, Aligned
<1>5. ASSUME NEW r \in Others PROVE RankInv(r)'
  <2>1. RankInv(r) /\ r \in Ranks
    BY <1>5, IsOfFacts DEF ConInv
  <2>2. /\ Asked(r)' = Asked(r) /\ Replied(r)' = Replied(r)
    BY <1>1, <1>2 DEF Asked, Replied, Ans
  <2>3. ASSUME NEW i \in Nat PROVE Req(i, r)' <=> Req(i, r) \/ (r = a /\ i = m)
    <3>1. CASE i < m
      <4>1. /\ 2 * i + 2 <= Len(conQ) /\ 2 * i + 2 <= Len(conQ')
            /\ 2 * i + 1 \in 1 .. Len(conQ) /\ 2 * i + 2 \in 1 .. Len(conQ)
        BY <1>1, <1>3, <3>1
      <4>2. conQ'[2 * i + 1] = conQ[2 * i + 1] /\ conQ'[2 * i + 2] = conQ[2 * i + 2]
        BY <1>1, <4>1
      <4>3. QED
        BY <3>1, <4>1, <4>2 DEF Req, IsOf
    <3>2. CASE i = m
      <4>1. /\ 2 * i + 1 = Len(conQ) + 1 /\ 2 * i + 2 = Len(conQ) + 2
            /\ 2 * i + 2 <= Len(conQ') /\ ~ (2 * i + 2 <= Len(conQ))
        BY <1>1, <1>3, <3>2
      <4>2. Req(i, r)' <=> IsOf(Addr[a].ip, Addr[a].port, r)
        BY <1>1, <4>1 DEF Req, IsOf
      <4>3. QED
        BY <2>1, <3>2, <4>1, <4>2, IsOfFacts DEF Req
    <3>3. CASE i > m
      <4>1. ~ (2 * i + 2 <= Len(conQ)) /\ ~ (2 * i + 2 <= Len(conQ')) /\ i # m
        BY <1>1, <1>3, <3>3
      <4>2. QED
        BY <4>1 DEF Req
    <3>4. i < m \/ i = m \/ i > m
      BY <1>3
    <3>5. QED
      BY <3>1, <3>2, <3>3, <3>4
  <2>4. CASE r = a
    <3>1. ~ Requested(r) /\ ~ Asked(r) /\ ~ Replied(r)
      BY <1>1, <2>1, <2>4 DEF RankInv, Once
    <3>2. \A i \in Nat : Req(i, r)' => i = m
      BY <2>3, <3>1 DEF Requested
    <3>3. r \notin toAsk' /\ Requested(r)'
      BY <1>2, <1>3, <2>3, <2>4 DEF Requested
    <3>4. Once(r)'
      BY <1>2, <2>1, <2>2, <3>1, <3>2, <3>3 DEF RankInv, Once
    <3>5. QED
      BY <1>1, <1>2, <2>1, <3>3, <3>4 DEF RankInv, Fresh, Ans, Held, Pending
  <2>5. CASE r # a
    <3>1. \A i \in Nat : Req(i, r)' <=> Req(i, r)
      BY <2>3, <2>5
    <3>2. (Requested(r)' <=> Requested(r)) /\ (r \in toAsk' <=> r \in toAsk)
      BY <1>2, <2>5, <3>1 DEF Requested
    <3>3. Once(r)'
      BY <1>2, <2>1, <2>2, <3>1, <3>2 DEF RankInv, Once
    <3>4. Pending(r)' <=> Pending(r)
      BY <2>2, <3>2 DEF Pending
    <3>5. QED
      BY <1>1, <1>2, <2>1, <3>3, <3>4 DEF RankInv, Fresh, Ans, Held, Good
  <2>6. QED
    BY <2>4, <2>5
<1>6. QED
  BY <1>4, <1>5 DEF ConInv, Others

(* The first request of the FIFO passes to the stack.                      *)
LEMMA RequestConnectionCon ==
  ASSUME NetShape, ConInv, RequestConnection
  PROVE  ConInv'
<1>1. /\ Inbound' = Inbound /\ Len(conQ') = Len(conQ) - 2
      /\ \A i \in 1 .. Len(conQ) - 2 : conQ'[i] = conQ[i + 2]
  BY RequestConnectionFacts
<1>2. /\ Len(conQ) >= 2 /\ UNCHANGED <<toAsk, ret, opened, session>>
      /\ asking' = asking \cup {[ip |-> conQ[1], port |-> conQ[2], nth |-> nsession]}
  BY DEF RequestConnection, conVars, callVars
<1>3. PICK e : e = [ip |-> conQ[1], port |-> conQ[2], nth |-> nsession]
  OBVIOUS
<1>4. asking' = asking \cup {e} /\ e.ip = conQ[1] /\ e.port = conQ[2]
  BY <1>2, <1>3
<1>5. PICK m \in Nat : Len(conQ) = 2 * m
  BY DEF ConInv, Aligned
<1>6. Aligned'
  <2>1. m - 1 \in Nat /\ Len(conQ') = 2 * (m - 1)
    BY <1>1, <1>2, <1>5
  <2>2. QED
    BY <1>1, <2>1 DEF ConInv, Aligned
<1>7. ASSUME NEW r \in Others PROVE RankInv(r)'
  <2>1. RankInv(r)
    BY <1>7 DEF ConInv
  <2>2. ASSUME NEW i \in Nat PROVE i + 1 \in Nat /\ (Req(i, r)' <=> Req(i + 1, r))
    <3>1. /\ i + 1 \in Nat /\ 2 * (i + 1) + 2 = (2 * i + 2) + 2
          /\ 2 * (i + 1) + 1 = (2 * i + 1) + 2
          /\ (2 * i + 2 <= Len(conQ') <=> 2 * (i + 1) + 2 <= Len(conQ))
      BY <1>1, <1>5
    <3>2. CASE 2 * i + 2 <= Len(conQ')
      <4>1. 2 * i + 1 \in 1 .. Len(conQ) - 2 /\ 2 * i + 2 \in 1 .. Len(conQ) - 2
        BY <1>1, <1>5, <3>2
      <4>2. /\ conQ'[2 * i + 1] = conQ[2 * (i + 1) + 1]
            /\ conQ'[2 * i + 2] = conQ[2 * (i + 1) + 2]
        <5>1. /\ conQ'[2 * i + 1] = conQ[(2 * i + 1) + 2]
              /\ conQ'[2 * i + 2] = conQ[(2 * i + 2) + 2]
          BY <1>1, <4>1
        <5>2. QED
          BY <3>1, <5>1
      <4>3. QED
        BY <3>1, <4>2 DEF Req, IsOf
    <3>3. CASE ~ (2 * i + 2 <= Len(conQ'))
      BY <3>1, <3>3 DEF Req
    <3>4. QED
      BY <3>2, <3>3
  <2>3. Req(0, r) <=> IsOf(e.ip, e.port, r)
    <3>1. 2 * 0 + 2 <= Len(conQ) /\ 2 * 0 + 1 = 1 /\ 2 * 0 + 2 = 2
      BY <1>2
    <3>2. QED
      BY <1>4, <3>1 DEF Req
  <2>4. Requested(r)' => Requested(r)
    BY <2>2 DEF Requested
  <2>5. Requested(r) => Requested(r)' \/ Req(0, r)
    <3>1. ASSUME NEW i \in Nat, Req(i, r), i # 0 PROVE Requested(r)'
      <4>1. i - 1 \in Nat /\ i = (i - 1) + 1
        BY <3>1
      <4>2. Req(i - 1, r)'
        BY <2>2, <3>1, <4>1
      <4>3. QED
        BY <4>1, <4>2 DEF Requested
    <3>2. QED
      BY <3>1 DEF Requested
  <2>6. /\ Asked(r)' <=> Asked(r) \/ Req(0, r)
        /\ Replied(r)' <=> Replied(r)
    BY <1>1, <1>4, <2>3 DEF Asked, Replied, Ans
  <2>7. Req(0, r) => Requested(r) /\ ~ Requested(r)'
    <3>1. ASSUME NEW i \in Nat, Req(0, r), Req(i, r)' PROVE FALSE
      <4>1. Req(i + 1, r) /\ i + 1 \in Nat /\ 0 \in Nat /\ i + 1 # 0
        BY <2>2, <3>1
      <4>2. QED
        BY <2>1, <3>1, <4>1 DEF RankInv, Once
    <3>2. QED
      BY <3>1 DEF Requested
  <2>8. \A i, j \in Nat : Req(i, r)' /\ Req(j, r)' => i = j
    <3>1. ASSUME NEW i \in Nat, NEW j \in Nat, Req(i, r)', Req(j, r)' PROVE i = j
      <4>1. i + 1 \in Nat /\ j + 1 \in Nat /\ Req(i + 1, r) /\ Req(j + 1, r)
        BY <2>2, <3>1
      <4>2. i + 1 = j + 1
        BY <2>1, <4>1 DEF RankInv, Once
      <4>3. QED
        BY <4>2
    <3>2. QED
      BY <3>1
  <2>9. \A p, q \in asking' : IsOf(p.ip, p.port, r) /\ IsOf(q.ip, q.port, r) => p = q
    <3>1. Req(0, r) => \A p \in asking : ~ IsOf(p.ip, p.port, r)
      BY <2>1, <2>7 DEF RankInv, Once, Asked
    <3>2. \A p, q \in asking : IsOf(p.ip, p.port, r) /\ IsOf(q.ip, q.port, r) => p = q
      BY <2>1 DEF RankInv, Once
    <3>3. QED
      BY <1>4, <2>3, <3>1, <3>2
  <2>10. Once(r)'
    <3>1. (\A p, q \in asking : IsOf(p.ip, p.port, r) /\ IsOf(q.ip, q.port, r) => p = q)'
      BY <2>9 DEF IsOf
    <3>2. /\ r \in toAsk => ~ Requested(r) /\ ~ Asked(r) /\ ~ Replied(r)
          /\ Requested(r) => ~ Asked(r) /\ ~ Replied(r)
          /\ Asked(r) => ~ Replied(r)
      BY <2>1 DEF RankInv, Once
    <3>3. /\ r \in toAsk' => ~ Requested(r)' /\ ~ Asked(r)' /\ ~ Replied(r)'
          /\ Requested(r)' => ~ Asked(r)' /\ ~ Replied(r)'
          /\ Asked(r)' => ~ Replied(r)'
      BY <1>2, <2>4, <2>5, <2>6, <2>7, <3>2
    <3>4. QED
      BY <2>8, <3>1, <3>3 DEF Once
  <2>11. Pending(r)' <=> Pending(r)
    BY <1>2, <2>4, <2>5, <2>6, <2>7 DEF Pending
  <2>12. QED
    BY <1>1, <1>2, <2>1, <2>10, <2>11 DEF RankInv, Fresh, Ans, Held, Good
<1>8. QED
  BY <1>6, <1>7 DEF ConInv, Others

(* The stack answers one of the requests, and opens a session or not.      *)
LEMMA StackAnswersCon ==
  ASSUME NetShape, ConInv, NEW q \in asking, NEW success \in BOOLEAN,
         StackAnswers(q, success)
  PROVE  ConInv'
<1>1. /\ UNCHANGED <<conQ, toAsk>>
      /\ Len(Inbound) \in Nat /\ Len(Inbound') = Len(Inbound) + 4
      /\ \A i \in 1 .. Len(Inbound) : Inbound'[i] = Inbound[i]
      /\ Inbound'[Len(Inbound) + 1] = q.nth + 1 /\ q.nth \in Nat
      /\ Inbound'[Len(Inbound) + 2] = q.ip /\ Inbound'[Len(Inbound) + 3] = q.port
      /\ Inbound'[Len(Inbound) + 4] = IF success THEN 1 ELSE 0
  BY StackAnswersFacts
<1>2. /\ asking' = asking \ {q} /\ UNCHANGED <<ret, session>>
      /\ opened' = [r \in Ranks |-> IF success /\ Addr[r] = [ip |-> q.ip, port |-> q.port]
                                    THEN q.nth + 1 ELSE opened[r]]
  BY DEF StackAnswers, callVars, conVars
<1>3. PICK m \in Nat : Len(Inbound) = 4 * m
  BY DEF ConInv, Aligned
<1>4. Aligned'
  <2>1. m + 1 \in Nat /\ Len(Inbound') = 4 * (m + 1)
    BY <1>1, <1>3
  <2>2. QED
    BY <1>1, <2>1 DEF ConInv, Aligned
<1>5. ASSUME NEW r \in Others PROVE RankInv(r)'
  <2>1. RankInv(r) /\ r \in Ranks
    BY <1>5, IsOfFacts DEF ConInv
  <2>2. opened'[r] = IF success /\ IsOf(q.ip, q.port, r) THEN q.nth + 1 ELSE opened[r]
    BY <1>2, <2>1, IsOfFacts
  <2>3. ASSUME NEW i \in Nat, i < m
        PROVE  /\ Ans(i, r)' <=> Ans(i, r)
               /\ Inbound'[4 * i + 1] = Inbound[4 * i + 1]
               /\ Inbound'[4 * i + 4] = Inbound[4 * i + 4]
    <3>1. /\ 4 * i + 4 <= Len(Inbound) /\ 4 * i + 4 <= Len(Inbound')
          /\ 4 * i + 1 \in 1 .. Len(Inbound) /\ 4 * i + 2 \in 1 .. Len(Inbound)
          /\ 4 * i + 3 \in 1 .. Len(Inbound) /\ 4 * i + 4 \in 1 .. Len(Inbound)
      BY <1>1, <1>3, <2>3
    <3>2. /\ Inbound'[4 * i + 1] = Inbound[4 * i + 1]
          /\ Inbound'[4 * i + 2] = Inbound[4 * i + 2]
          /\ Inbound'[4 * i + 3] = Inbound[4 * i + 3]
          /\ Inbound'[4 * i + 4] = Inbound[4 * i + 4]
      BY <1>1, <3>1
    <3>3. QED
      BY <3>1, <3>2 DEF Ans, IsOf
  <2>4. /\ Ans(m, r)' <=> IsOf(q.ip, q.port, r)
        /\ Inbound'[4 * m + 1] = q.nth + 1
        /\ Inbound'[4 * m + 4] = IF success THEN 1 ELSE 0
    <3>1. /\ 4 * m + 4 <= Len(Inbound') /\ 4 * m + 1 = Len(Inbound) + 1
          /\ 4 * m + 2 = Len(Inbound) + 2 /\ 4 * m + 3 = Len(Inbound) + 3
          /\ 4 * m + 4 = Len(Inbound) + 4
      BY <1>1, <1>3
    <3>2. QED
      BY <1>1, <3>1 DEF Ans, IsOf
  <2>5. \A i \in Nat : Ans(i, r) => i < m
    BY <1>3 DEF Ans
  <2>6. \A i \in Nat : Ans(i, r)' => i < m \/ i = m
    <3>1. \A i \in Nat : 4 * i + 4 <= Len(Inbound') => i < m \/ i = m
      BY <1>1, <1>3
    <3>2. QED
      BY <3>1 DEF Ans
  <2>7. Replied(r)' <=> Replied(r) \/ IsOf(q.ip, q.port, r)
    BY <1>3, <2>3, <2>4, <2>5, <2>6 DEF Replied
  <2>8. IsOf(q.ip, q.port, r) => Asked(r) /\ ~ Asked(r)'
    <3>1. IsOf(q.ip, q.port, r) => \A p \in asking : IsOf(p.ip, p.port, r) => p = q
      BY <2>1 DEF RankInv, Once
    <3>2. QED
      BY <1>2, <3>1 DEF Asked, IsOf
  <2>9. ~ IsOf(q.ip, q.port, r) => (Asked(r)' <=> Asked(r))
    BY <1>2 DEF Asked, IsOf
  <2>10. /\ r \in toAsk => ~ Requested(r) /\ ~ Asked(r) /\ ~ Replied(r)
         /\ Requested(r) => ~ Asked(r) /\ ~ Replied(r)
         /\ Asked(r) => ~ Replied(r)
    BY <2>1 DEF RankInv, Once
  <2>11. Requested(r)' <=> Requested(r)
    BY <1>1 DEF Requested, Req
  <2>12. Once(r)'
    <3>1. (\A i, j \in Nat : Req(i, r) /\ Req(j, r) => i = j)'
      BY <1>1, <2>1 DEF RankInv, Once, Req
    <3>2. (\A p, s \in asking : IsOf(p.ip, p.port, r) /\ IsOf(s.ip, s.port, r) => p = s)'
      BY <1>2, <2>1 DEF RankInv, Once, IsOf
    <3>3. /\ r \in toAsk' => ~ Requested(r)' /\ ~ Asked(r)' /\ ~ Replied(r)'
          /\ Requested(r)' => ~ Asked(r)' /\ ~ Replied(r)'
          /\ Asked(r)' => ~ Replied(r)'
      BY <1>1, <2>7, <2>8, <2>9, <2>10, <2>11
    <3>4. QED
      BY <3>1, <3>2, <3>3 DEF Once
  <2>13. Fresh(r)'
    <3>1. ASSUME NEW i \in Nat, Ans(i, r)', Inbound'[4 * i + 4] # 0
          PROVE  Inbound'[4 * i + 1] = opened'[r] /\ opened'[r] # 0
      <4>1. CASE i < m
        <5>1. Ans(i, r) /\ Inbound[4 * i + 4] # 0 /\ Inbound'[4 * i + 1] = Inbound[4 * i + 1]
          BY <2>3, <3>1, <4>1
        <5>2. Inbound[4 * i + 1] = opened[r] /\ opened[r] # 0
          BY <2>1, <5>1 DEF RankInv, Fresh
        <5>3. Replied(r)
          BY <5>1 DEF Replied
        <5>4. opened'[r] = opened[r]
          BY <2>2, <2>8, <2>10, <5>3
        <5>5. QED
          BY <5>1, <5>2, <5>4
      <4>2. CASE i = m
        <5>1. success /\ IsOf(q.ip, q.port, r)
          BY <2>4, <3>1, <4>2
        <5>2. opened'[r] = q.nth + 1 /\ q.nth + 1 # 0
          BY <1>1, <2>2, <5>1
        <5>3. QED
          BY <2>4, <4>2, <5>2
      <4>3. QED
        BY <2>6, <3>1, <4>1, <4>2
    <3>2. QED
      BY <3>1 DEF Fresh
  <2>14. Held(r)'
    <3>1. Pending(r)' <=> Pending(r)
      BY <1>1, <2>7, <2>8, <2>9, <2>11 DEF Pending
    <3>2. ~ Pending(r) => opened'[r] = opened[r]
      BY <2>2, <2>8 DEF Pending
    <3>3. QED
      BY <1>2, <2>1, <3>1, <3>2 DEF RankInv, Held, Good
  <2>15. QED
    BY <2>12, <2>13, <2>14 DEF RankInv
<1>6. QED
  BY <1>4, <1>5 DEF ConInv, Others

(* The answer in front is taken: its rank is given the session.            *)
LEMMA TakeAnswerCon ==
  ASSUME NetShape, ConInv, TakeAnswer
  PROVE  ConInv'
<1>1. /\ UNCHANGED <<conQ, asking, toAsk>>
      /\ Len(Inbound) \in Nat /\ Len(Inbound) >= 4 /\ Len(Inbound') = Len(Inbound) - 4
      /\ \A i \in 1 .. Len(Inbound) - 4 : Inbound'[i] = Inbound[i + 4]
      /\ \A i \in 1 .. 4 : Inbound[i] = resp[i]
  BY TakeAnswerFacts
<1>2. opened' = opened
  BY DEF TakeAnswer, netVars
<1>3. \/ resp[4] # 0 /\ session' = Stored(resp[1], resp[2], resp[3]) /\ ret' = ret
      \/ ret' = OPEN_COM_NOT_SUCCEEDED
  BY DEF TakeAnswer
<1>4. PICK m \in Nat : Len(Inbound) = 4 * m
  BY DEF ConInv, Aligned
<1>5. Aligned'
  <2>1. m - 1 \in Nat /\ Len(Inbound') = 4 * (m - 1)
    BY <1>1, <1>4
  <2>2. QED
    BY <1>1, <2>1 DEF ConInv, Aligned
<1>6. ASSUME NEW r \in Others PROVE RankInv(r)'
  <2>1. RankInv(r) /\ r \in Ranks
    BY <1>6, IsOfFacts DEF ConInv
  <2>2. ASSUME NEW i \in Nat
        PROVE  /\ i + 1 \in Nat /\ (Ans(i, r)' <=> Ans(i + 1, r))
               /\ Ans(i, r)' => /\ Inbound'[4 * i + 1] = Inbound[4 * (i + 1) + 1]
                                /\ Inbound'[4 * i + 4] = Inbound[4 * (i + 1) + 4]
    <3>1. /\ i + 1 \in Nat /\ 4 * (i + 1) + 1 = (4 * i + 1) + 4
          /\ 4 * (i + 1) + 2 = (4 * i + 2) + 4 /\ 4 * (i + 1) + 3 = (4 * i + 3) + 4
          /\ 4 * (i + 1) + 4 = (4 * i + 4) + 4
          /\ (4 * i + 4 <= Len(Inbound') <=> 4 * (i + 1) + 4 <= Len(Inbound))
      BY <1>1
    <3>2. CASE 4 * i + 4 <= Len(Inbound')
      <4>1. /\ 4 * i + 1 \in 1 .. Len(Inbound) - 4 /\ 4 * i + 2 \in 1 .. Len(Inbound) - 4
            /\ 4 * i + 3 \in 1 .. Len(Inbound) - 4 /\ 4 * i + 4 \in 1 .. Len(Inbound) - 4
        BY <1>1, <3>2
      <4>2. /\ Inbound'[4 * i + 1] = Inbound[4 * (i + 1) + 1]
            /\ Inbound'[4 * i + 2] = Inbound[4 * (i + 1) + 2]
            /\ Inbound'[4 * i + 3] = Inbound[4 * (i + 1) + 3]
            /\ Inbound'[4 * i + 4] = Inbound[4 * (i + 1) + 4]
        <5>1. /\ Inbound'[4 * i + 1] = Inbound[(4 * i + 1) + 4]
              /\ Inbound'[4 * i + 2] = Inbound[(4 * i + 2) + 4]
              /\ Inbound'[4 * i + 3] = Inbound[(4 * i + 3) + 4]
              /\ Inbound'[4 * i + 4] = Inbound[(4 * i + 4) + 4]
          BY <1>1, <4>1
        <5>2. QED
          BY <3>1, <5>1
      <4>3. QED
        BY <3>1, <4>2 DEF Ans, IsOf
    <3>3. CASE ~ (4 * i + 4 <= Len(Inbound'))
      BY <3>1, <3>3 DEF Ans
    <3>4. QED
      BY <3>2, <3>3
  <2>3. /\ Ans(0, r) <=> IsOf(resp[2], resp[3], r)
        /\ Inbound[4 * 0 + 1] = resp[1] /\ Inbound[4 * 0 + 4] = resp[4]
    <3>1. 4 * 0 + 4 <= Len(Inbound) /\ 4 * 0 + 1 = 1 /\ 4 * 0 + 2 = 2
          /\ 4 * 0 + 3 = 3 /\ 4 * 0 + 4 = 4
      BY <1>1
    <3>2. Inbound[1] = resp[1] /\ Inbound[2] = resp[2] /\ Inbound[3] = resp[3]
          /\ Inbound[4] = resp[4]
      BY <1>1
    <3>3. QED
      BY <3>1, <3>2 DEF Ans
  <2>4. Replied(r)' => Replied(r)
    BY <2>2 DEF Replied
  <2>5. Replied(r) => Replied(r)' \/ Ans(0, r)
    <3>1. ASSUME NEW i \in Nat, Ans(i, r), i # 0 PROVE Replied(r)'
      <4>1. i - 1 \in Nat /\ i = (i - 1) + 1
        BY <3>1
      <4>2. Ans(i - 1, r)'
        BY <2>2, <3>1, <4>1
      <4>3. QED
        BY <4>1, <4>2 DEF Replied
    <3>2. QED
      BY <3>1 DEF Replied
  <2>6. (Requested(r)' <=> Requested(r)) /\ (Asked(r)' <=> Asked(r))
    BY <1>1 DEF Requested, Req, Asked, IsOf
  <2>7. Once(r)'
    <3>1. (\A i, j \in Nat : Req(i, r) /\ Req(j, r) => i = j)'
      BY <1>1, <2>1 DEF RankInv, Once, Req
    <3>2. (\A p, s \in asking : IsOf(p.ip, p.port, r) /\ IsOf(s.ip, s.port, r) => p = s)'
      BY <1>1, <2>1 DEF RankInv, Once, IsOf
    <3>3. /\ r \in toAsk => ~ Requested(r) /\ ~ Asked(r) /\ ~ Replied(r)
          /\ Requested(r) => ~ Asked(r) /\ ~ Replied(r)
          /\ Asked(r) => ~ Replied(r)
      BY <2>1 DEF RankInv, Once
    <3>4. QED
      BY <1>1, <2>4, <2>6, <3>1, <3>2, <3>3 DEF Once
  <2>8. Fresh(r)'
    <3>1. ASSUME NEW i \in Nat, Ans(i, r)', Inbound'[4 * i + 4] # 0
          PROVE  Inbound'[4 * i + 1] = opened'[r] /\ opened'[r] # 0
      <4>1. /\ i + 1 \in Nat /\ Ans(i + 1, r) /\ Inbound[4 * (i + 1) + 4] # 0
            /\ Inbound'[4 * i + 1] = Inbound[4 * (i + 1) + 1]
        BY <2>2, <3>1
      <4>2. QED
        BY <1>2, <2>1, <4>1 DEF RankInv, Fresh
    <3>2. QED
      BY <3>1 DEF Fresh
  <2>9. Held(r)'
    <3>1. SUFFICES ASSUME ret' = Success, ~ Pending(r)' PROVE Good(r)'
      BY DEF Held
    <3>2. /\ resp[4] # 0 /\ session' = Stored(resp[1], resp[2], resp[3]) /\ ret = Success
      BY <1>3, <3>1 DEF Success, OPEN_COM_NOT_SUCCEEDED
    <3>3. CASE Ans(0, r)
      <4>1. resp[1] = opened[r] /\ opened[r] # 0
        <5>1. 0 \in Nat /\ Inbound[4 * 0 + 4] # 0
          BY <2>3, <3>2
        <5>2. Inbound[4 * 0 + 1] = opened[r] /\ opened[r] # 0
          BY <2>1, <3>3, <5>1 DEF RankInv, Fresh
        <5>3. QED
          BY <2>3, <5>2
      <4>2. IsOf(resp[2], resp[3], r) /\ r \in Nat
        <5>1. Ranks \subseteq Nat
          BY HostAssumption
        <5>2. QED
          BY <2>1, <2>3, <3>3, <5>1
      <4>3. \A s \in Ranks : IsOf(resp[2], resp[3], s) => r <= s
        <5>1. \A s \in Ranks : IsOf(resp[2], resp[3], s) => s = r
          BY <2>1, <4>2, IsOfFacts
        <5>2. r <= r
          BY <4>2
        <5>3. QED
          BY <5>1, <5>2
      <4>4. session'[r] = resp[1]
        BY <2>1, <3>2, <4>2, <4>3 DEF Stored
      <4>5. QED
        BY <1>2, <4>1, <4>4 DEF Good
    <3>4. CASE ~ Ans(0, r)
      <4>1. session'[r] = session[r]
        BY <2>1, <2>3, <3>2, <3>4 DEF Stored
      <4>2. ~ Pending(r)
        BY <1>1, <2>5, <2>6, <3>1, <3>4 DEF Pending
      <4>3. QED
        BY <1>2, <2>1, <3>2, <4>1, <4>2 DEF RankInv, Held, Good
    <3>5. QED
      BY <3>3, <3>4
  <2>10. QED
    BY <2>7, <2>8, <2>9 DEF RankInv
<1>7. QED
  BY <1>5, <1>6 DEF ConInv, Others

(* The steps keep the sessions.                                            *)
LEMMA SessInit == HostInit => SessInv
  BY DEF HostInit, SessInv, Sessions, NoOp

(* What opens no connection, while main does not move or runs another call.*)
LEMMA ElsewhereSess ==
  ASSUME SessInv, UNCHANGED <<netVars, resp, toAsk, session, ret, op, cutOff, stray, pc>>
  PROVE  SessInv'
<1>1. UNCHANGED <<conQ, asking, answering, conSts, opened>>
  BY DEF netVars
<1>2. Inbound' = Inbound
  BY <1>1 DEF Inbound
<1>3. ConInv => ConInv'
  BY <1>1, <1>2, ConSame
<1>4. (\A r \in Others : Good(r)) => (\A r \in Others : Good(r))'
  BY <1>1 DEF Good, Others
<1>5. QED
  BY <1>3, <1>4 DEF SessInv, Sessions

(* A call begins: openCon with every other rank to ask.                    *)
LEMMA DispatchSess == \A k \in Kinds : AllInv /\ Dispatch(k) => SessInv'
<1> SUFFICES ASSUME NEW k \in Kinds, AllInv, Dispatch(k) PROVE SessInv'
  OBVIOUS
<1>1. /\ pc = "read" /\ toAsk' = Others /\ op'.kind = k
      /\ pc' \in {"run", "port_ask", "con_ask"} /\ (pc' # "con_ask" => k # "open_con")
      /\ UNCHANGED <<conQ, asking, answering, conSts, resp, cutOff, stray>>
  <2>1. k \in {"work", "irq_on", "irq_off", "reset", "open_port", "open_con",
               "init_connection"}
    BY HostAssumption
  <2>2. QED
    BY <2>1 DEF Dispatch, netVars, histVars
<1>2. NetShape' /\ Left' = Left
  <2>1. NetShape'
    BY DispatchReq DEF AllInv, ReqInv
  <2>2. QED
    BY <1>1, <2>1 DEF Left, Inbound
<1>3. ASSUME ~ cutOff' PROVE ConInv'
  <2>1. Left = 0
    BY <1>1, <1>3 DEF AllInv, ReqInv, Requests
  <2>2. QED
    BY <1>1, <1>2, <2>1, ConBegins
<1>4. QED
  BY <1>1, <1>3 DEF SessInv, Sessions

(* init_connection goes on with openCon; open_port alone ends.             *)
LEMMA PortOpenedSess == AllInv /\ PortOpened => SessInv'
<1> SUFFICES ASSUME AllInv, PortOpened PROVE SessInv'
  OBVIOUS
<1>1. /\ pc = "port_wait" /\ pc' \in {"con_ask", "finalize"}
      /\ UNCHANGED <<conQ, asking, answering, conSts, resp, toAsk, op, cutOff, stray>>
  BY DEF PortOpened, histVars
<1>2. NetShape' /\ Left' = Left
  <2>1. NetShape'
    BY PortOpenedReq DEF AllInv, ReqInv
  <2>2. QED
    BY <1>1, <2>1 DEF Left, Inbound
<1>3. ASSUME ~ cutOff' PROVE ConInv'
  <2>1. Left = 0 /\ toAsk = Others
    BY <1>1, <1>3 DEF AllInv, ReqInv, Requests
  <2>2. QED
    BY <1>1, <1>2, <2>1, ConBegins DEF Others
<1>4. ASSUME ~ cutOff', ~ stray' PROVE op'.kind # "open_con"
  BY <1>1, <1>4 DEF AllInv, SessInv, Sessions
<1>5. QED
  BY <1>1, <1>3, <1>4 DEF SessInv, Sessions

(* All answers are taken.                                                  *)
LEMMA ConnectionsOpenedSess == AllInv /\ ConnectionsOpened => SessInv'
<1> SUFFICES ASSUME AllInv, ConnectionsOpened PROVE SessInv'
  OBVIOUS
<1>1. /\ pc = "con_resp" /\ toCome = 0 /\ pc' = "finalize"
      /\ ret' = IF op.kind = "init_connection" THEN Or(portRet, ret) ELSE ret
      /\ UNCHANGED <<op, cutOff, stray, session, opened>>
  BY DEF ConnectionsOpened, conVars, netVars, histVars
<1>2. SUFFICES ASSUME ~ cutOff', ~ stray', op'.kind = "open_con", ret' = Success,
                      NEW r \in Others
               PROVE  Good(r)'
  BY <1>1 DEF SessInv, Sessions, Others
<1>3. ConInv /\ ret = Success
  BY <1>1, <1>2 DEF AllInv, SessInv, Sessions
<1>4. toAsk = {} /\ Left = 4 * toCome
  BY <1>1, <1>2 DEF AllInv, ReqInv, Requests
<1>5. Left = 0
  BY <1>1, <1>4
<1>6. conQ = <<>> /\ asking = {} /\ Len(Inbound) = 0
  <2>1. /\ conQ = <<>> /\ asking = {} /\ resp = <<>> /\ conSts = <<>> /\ answering = <<>>
    BY <1>5, NoneLeft DEF AllInv, ReqInv
  <2>2. QED
    BY <2>1, LeftParts DEF AllInv, ReqInv
<1>7. ~ Pending(r)
  <2>1. \A i \in Nat : ~ Req(i, r) /\ ~ Ans(i, r)
    BY <1>6 DEF Req, Ans
  <2>2. QED
    BY <1>4, <1>6, <2>1 DEF Pending, Requested, Asked, Replied
<1>8. Good(r)
  BY <1>2, <1>3, <1>7 DEF ConInv, RankInv, Held
<1>9. QED
  BY <1>1, <1>8 DEF Good

(* Another call than openCon carries on or ends, or the handler ends it.   *)
LEMMA OtherCallSess ==
  ASSUME SessInv,
         \/ pc \in {"port_ask", "port_wait", "run"} /\ op' = op /\ UNCHANGED <<cutOff, stray>>
         \/ ret' = HandlerError /\ (cutOff => cutOff') /\ (stray => stray'),
         pc' \in {"port_wait", "finalize"},
         pc' = "port_wait" => pc = "port_ask" /\ op' = op /\ UNCHANGED <<cutOff, stray>>
  PROVE  SessInv'
<1>1. SUFFICES ASSUME ~ cutOff', ~ stray' PROVE Sessions'
  BY DEF SessInv
<1>2. ~ cutOff /\ ~ stray
  BY <1>1
<1>3. Sessions
  BY <1>2 DEF SessInv
<1>4. QED
  BY <1>3 DEF Sessions, Success, HandlerError

LEMMA StepSess == AllInv /\ [HostNext]_vars => SessInv'
<1> SUFFICES ASSUME AllInv, [HostNext]_vars PROVE SessInv'
  OBVIOUS
<1>a. SessInv /\ NetShape /\ Shape /\ cutOff \in BOOLEAN /\ stray \in BOOLEAN
  BY DEF AllInv, ReqInv, NetShape, HostInv, Shape
<1>1. CASE (\E k \in Kinds : HostCall(k)) \/ Hostctrl \/ UNCHANGED vars
  <2>1. UNCHANGED <<netVars, resp, toAsk, session, ret, op, cutOff, stray, pc>>
    BY <1>1 DEF HostCall, Hostctrl, WriteWord, ReadStatus, vars, callVars, conVars, histVars
  <2>2. QED
    BY <1>a, <2>1, ElsewhereSess
<1>2. CASE Configure
  <2>1. hpc = "idle" /\ UNCHANGED <<pc, stray>>
    BY <1>2 DEF Configure, callVars, histVars
  <2>2. ~ stray' => pc' = "poll"
    BY <2>1 DEF AllInv, HostInv, InStep, Idle
  <2>3. QED
    BY <2>2 DEF SessInv, Sessions
<1>3. CASE WaitForCall \/ ReadWord \/ Finalize
  <2>1. pc' \in {"poll", "read"}
    BY <1>3 DEF WaitForCall, ReadWord, Finalize
  <2>2. QED
    BY <2>1 DEF SessInv, Sessions
<1>4. CASE \E k \in Kinds : Dispatch(k)
  BY <1>4, DispatchSess
<1>5. CASE (\E r \in {Success, HandlerError} : Work(r)) \/ SetIrq \/ SoftReset \/ AskPort
  <2>1. /\ pc \in {"port_ask", "port_wait", "run"} /\ op' = op /\ UNCHANGED <<cutOff, stray>>
        /\ pc' \in {"port_wait", "finalize"} /\ (pc' = "port_wait" => pc = "port_ask")
    BY <1>5 DEF Work, SetIrq, SoftReset, AskPort, histVars
  <2>2. QED
    BY <1>a, <2>1, OtherCallSess
<1>6. CASE HandlerRaises
  <2>1. /\ ret' = HandlerError /\ pc' = "finalize"
        /\ cutOff' = (cutOff \/ pc \in {"port_wait", "con_ask", "con_resp"})
        /\ stray' = (stray \/ pc \in {"poll", "read"})
    BY <1>6 DEF HandlerRaises
  <2>2. (cutOff => cutOff') /\ (stray => stray')
    BY <2>1
  <2>3. QED
    BY <1>a, <2>1, <2>2, OtherCallSess
<1>7. CASE PortOpened
  BY <1>7, PortOpenedSess
<1>8. CASE \E r \in Ranks : AskConnection(r)
  <2>1. PICK r \in Ranks : AskConnection(r)
    BY <1>8
  <2>2. ConInv => ConInv'
    BY <1>a, <2>1, AskConnectionCon
  <2>3. pc = "con_ask" /\ UNCHANGED <<pc, cutOff, stray>>
    BY <2>1 DEF AskConnection, callVars, histVars
  <2>4. QED
    BY <1>a, <2>2, <2>3 DEF SessInv, Sessions
<1>9. CASE AwaitAnswers
  <2>1. /\ pc = "con_ask" /\ pc' = "con_resp" /\ resp' = <<>>
        /\ UNCHANGED <<cutOff, stray, conQ, asking, toAsk, ret, opened, session,
                       conSts, answering>>
    BY <1>9 DEF AwaitAnswers, netVars, histVars
  <2>2. ASSUME ~ cutOff', ~ stray' PROVE ConInv'
    <3>1. resp = <<>>
      BY <2>1, <2>2 DEF AllInv, ReqInv, Requests
    <3>2. Inbound' = Inbound
      BY <2>1, <3>1 DEF Inbound
    <3>3. ConInv
      BY <1>a, <2>1, <2>2 DEF SessInv, Sessions
    <3>4. QED
      BY <2>1, <3>2, <3>3, ConSame
  <2>3. QED
    BY <2>1, <2>2 DEF SessInv, Sessions
<1>10. CASE TakeAnswer
  <2>1. ConInv => ConInv'
    BY <1>a, <1>10, TakeAnswerCon
  <2>2. pc = "con_resp" /\ UNCHANGED <<pc, cutOff, stray>>
    BY <1>10 DEF TakeAnswer, histVars
  <2>3. QED
    BY <1>a, <2>1, <2>2 DEF SessInv, Sessions
<1>11. CASE ConnectionsOpened
  BY <1>11, ConnectionsOpenedSess
<1>12. CASE ReadAnswer \/ WriteAnswer
  <2>1. Inbound' = Inbound
    BY <1>a, <1>12, WordMoves
  <2>2. UNCHANGED <<conQ, asking, toAsk, ret, opened, session, pc, op, cutOff, stray>>
    BY <1>12 DEF ReadAnswer, WriteAnswer, callVars, conVars, histVars
  <2>3. ConInv => ConInv'
    BY <2>1, <2>2, ConSame
  <2>4. (\A r \in Others : Good(r)) => (\A r \in Others : Good(r))'
    BY <2>2 DEF Good, Others
  <2>5. QED
    BY <1>a, <2>2, <2>3, <2>4 DEF SessInv, Sessions
<1>13. CASE RequestConnection \/ \E q \in asking, success \in BOOLEAN : StackAnswers(q, success)
  <2>1. ConInv => ConInv'
    BY <1>a, <1>13, RequestConnectionCon, StackAnswersCon
  <2>2. UNCHANGED <<pc, op, ret, cutOff, stray>>
    BY <1>13 DEF RequestConnection, StackAnswers, callVars, histVars
  <2>3. conQ # <<>> \/ asking # {}
    BY <1>13 DEF RequestConnection
  <2>4. ~ cutOff => pc \in {"con_ask", "con_resp"}
    BY <2>3, NoneLeft DEF AllInv, ReqInv, Requests
  <2>5. QED
    BY <1>a, <2>1, <2>2, <2>4 DEF SessInv, Sessions
<1>14. CASE PortKernel
  <2>1. UNCHANGED <<conQ, asking, answering, conSts, resp, toAsk, ret, opened, session,
                    pc, op, cutOff, stray>>
    BY <1>14 DEF PortKernel, RequestPort, PortStatus, WritePortStatus, callVars, conVars,
                 histVars
  <2>2. Inbound' = Inbound
    BY <2>1 DEF Inbound
  <2>3. ConInv => ConInv'
    BY <2>1, <2>2, ConSame
  <2>4. (\A r \in Others : Good(r)) => (\A r \in Others : Good(r))'
    BY <2>1 DEF Good, Others
  <2>5. QED
    BY <1>a, <2>1, <2>3, <2>4 DEF SessInv, Sessions
<1>15. QED
  BY <1>1, <1>2, <1>3, <1>4, <1>5, <1>6, <1>7, <1>8, <1>9, <1>10, <1>11, <1>12, <1>13, <1>14
  DEF HostNext, MainLoop, Opening, Answering

(* A successful openCon leaves every other rank the session last opened to *)
(* its address, in whatever order the stack answered and however its words *)
(* were spread over the FIFOs, unless an error of the handler cut openCon  *)
(* off or was reported while no call was carried out.                      *)
THEOREM SessionsMatched == HostSpec => []SessionsRight
<1>1. AllInv => SessionsRight
  BY DEF AllInv, SessInv, Sessions, SessionsRight, Good
<1>2. HostInit => AllInv
  BY InitInv, ReqInvInit, SessInit DEF AllInv
<1>3. AllInv /\ [HostNext]_vars => AllInv'
  BY StepInv, StepReq, StepSess DEF AllInv
<1>4. QED
  BY <1>1, <1>2, <1>3, PTL DEF HostSpec

=============================================================================
