------------------------- MODULE TcpTxHandlerProofs -------------------------
(***************************************************************************)
(* Proofs about TcpTxHandler, for any messages, sizes of words and packets *)
(* and depth of the FIFO, whatever the stack answers: packets are cut      *)
(* where the stack was told, and end where their message does.             *)
(***************************************************************************)
EXTENDS TcpTxHandler, ProofFacts, TLAPS

(* Bytes of packet k of the message in hand, counted from 0.               *)
PktLen(k) == NextLen(k * MaxBytes)

Asked(k)      == [session |-> Session, len |-> PktLen(k)]
Answered(k,e) == [session |-> Session, len |-> PktLen(k), error |-> e]
Granted(k)    == [session |-> Session, words |-> Words(PktLen(k))]

(* No request is under way; g is what the stack has agreed to.             *)
NothingAsked(g) == metaQ = <<>> /\ statusQ = <<>> /\ granted = g

(* Packet k was asked for, and maybe answered, or the connection was torn  *)
(* down; g is what the stack has agreed to before.                         *)
Requested(k, g) ==
  \/ metaQ = <<Asked(k)>> /\ statusQ = <<>> /\ granted = g
  \/ /\ metaQ = <<>>
     /\ \/ statusQ = <<Answered(k, 0)>> /\ granted = Append(g, Granted(k))
        \/ statusQ = <<Answered(k, 2)>> /\ granted = g
        \/ statusQ = <<Answered(k, 1)>> /\ granted = g /\ gone
        \/ statusQ = <<>> /\ granted = g /\ gone

(* What the stack still expects of the packet that is written.             *)
Writing == <<[session |-> Session, words |-> pkgWords - wordCnt]>>

InHand == cmd \in DOMAIN Messages

(* The handler is at packet k of its message.                              *)
AtPacket(k) ==
  /\ state \in {"WAIT_CMD", "WAIT_FIRST_DATA", "CHECK_REQ", "WRITE_PKG"}
  /\ cmd \in Nat
  /\ state # "WAIT_CMD" => InHand
  /\ state \in {"WAIT_CMD", "WAIT_FIRST_DATA"} =>
       k = 0 /\ sentBytes = 0 /\ wordCnt = 0 /\ NothingAsked(<<>>)
  /\ state = "CHECK_REQ" =>
       /\ sentBytes = k * MaxBytes /\ sentBytes < Expected /\ wordCnt = 0
       /\ Requested(k, <<>>)
  /\ state = "WRITE_PKG" =>
       /\ k * MaxBytes < Expected /\ sentBytes = k * MaxBytes + PktLen(k)
       /\ pkgWords = Words(PktLen(k)) /\ wordCnt \in 0 .. pkgWords - 1
       /\ IF sentBytes < Expected THEN Requested(k + 1, Writing) ELSE NothingAsked(Writing)

(* The word that the handler reads next.                                   *)
NextRead(k) ==
  IF state = "WAIT_CMD" THEN [msg |-> cmd + 1, word |-> 1]
  ELSE [msg |-> cmd, word |-> k * MaxPkgWord + wordCnt + 1]

(* The word after another.                                                 *)
After(w) ==
  IF w.word = Words(Messages[w.msg].len) THEN [msg |-> w.msg + 1, word |-> 1]
  ELSE [msg |-> w.msg, word |-> w.word + 1]

(* A word of a message.                                                    *)
IsWord(w) ==
  w \in [msg : DOMAIN Messages, word : Nat] /\ w.word \in 1 .. Words(Messages[w.msg].len)

(* Where the packetizer goes on, if the handler does at r.                 *)
End(r) == IF dataQ = <<>> THEN r ELSE After(dataQ[Len(dataQ)])

(* The packetizer has written what comes before w. The command of w's own  *)
(* message it has written for sure if w is not the first word.             *)
WrittenTo(w) ==
  /\ IsWord(w) \/ w = [msg |-> Len(Messages) + 1, word |-> 1]
  /\ DOMAIN fed = DOMAIN Messages
  /\ \A m \in DOMAIN Messages :
       /\ m < w.msg => fed[m] = Words(Messages[m].len) + 1
       /\ m = w.msg => fed[m] = w.word \/ (fed[m] = 0 /\ w.word = 1)
       /\ m > w.msg => fed[m] = 0
  /\ Len(cmdQ) + cmd = IF IsWord(w) /\ fed[w.msg] # 0 THEN w.msg ELSE w.msg - 1

(* Commands and words are queued in the packetizer's order, from r on.     *)
InOrder(r) ==
  /\ IsSeq(cmdQ) /\ \A i \in 1 .. Len(cmdQ) : cmdQ[i] = cmd + i
  /\ IsSeq(dataQ) /\ \A i \in 1 .. Len(dataQ) : IsWord(dataQ[i])
  /\ dataQ # <<>> => dataQ[1] = r
  /\ \A i \in 1 .. Len(dataQ) - 1 : dataQ[i + 1] = After(dataQ[i])
  /\ WrittenTo(End(r))

TxInv == \E k \in Nat : \E r \in {NextRead(k)} : AtPacket(k) /\ InOrder(r)

-----------------------------------------------------------------------------
(* Lengths                                                                 *)

LEMMA MessageFacts ==
  ASSUME NEW m \in DOMAIN Messages
  PROVE  /\ m \in Nat /\ m >= 1 /\ m <= Len(Messages) /\ Len(Messages) \in Nat
         /\ Messages[m].len \in Nat /\ Messages[m].len > 0
         /\ Words(Messages[m].len) \in Nat /\ Words(Messages[m].len) > 0
<1>1. PICK l \in Nat : l = Messages[m].len /\ l > 0
  BY TxAssumption
<1>2. WordBytes \in Nat /\ WordBytes > 0
  BY TxAssumption
<1>3. PICK c \in Nat : c = Words(l) /\ l <= c * WordBytes
  BY <1>1, <1>2, Quotient DEF Words
<1>4. c # 0
  BY <1>1, <1>2, <1>3
<1>5. QED
  BY <1>1, <1>3, <1>4, TxAssumption

(* Packet k of a message of l bytes, which has w words: a full one, if     *)
(* more are to follow, or the rest.                                        *)
LEMMA PacketFacts ==
  ASSUME InHand, NEW k \in Nat, k * MaxBytes < Expected
  PROVE  /\ PktLen(k) \in Nat /\ k * MaxBytes \in Nat /\ k * MaxPkgWord \in Nat
         /\ Words(PktLen(k)) \in Nat /\ Words(PktLen(k)) > 0
         /\ Words(PktLen(k)) <= MaxPkgWord
         /\ IF k * MaxBytes + PktLen(k) < Expected
            THEN /\ k * MaxBytes + PktLen(k) = (k + 1) * MaxBytes
                 /\ Words(PktLen(k)) = MaxPkgWord
                 /\ (k + 1) * MaxPkgWord = k * MaxPkgWord + MaxPkgWord
                 /\ k * MaxPkgWord + MaxPkgWord < Words(Expected)
            ELSE k * MaxPkgWord + Words(PktLen(k)) = Words(Expected)
<1>1. PICK b \in Nat, p \in Nat : b = WordBytes /\ p = MaxPkgWord /\ b > 0 /\ p > 0
  BY TxAssumption
<1>2. PICK l \in Nat : l = Expected /\ l > 0
  BY MessageFacts DEF Expected, InHand
<1>3. PICK w \in Nat : w = Words(l) /\ w * b < l + b /\ l <= w * b
  BY <1>1, Quotient DEF Words
<1>4. PICK f \in Nat : f = p * b /\ f > 0
  BY <1>1
<1>5. MaxBytes = f
  BY <1>1, <1>4 DEF MaxBytes
<1>6. PICK a \in Nat, u \in Nat : a = k * p /\ u = k * f
  BY <1>4
<1>7. u = a * b
  BY <1>1, <1>4, <1>6
<1>8. (k + 1) * f = u + f /\ (k + 1) * p = a + p /\ (a + p) * b = u + f
  <2>1. (k + 1) * f = u + f /\ (k + 1) * p = a + p
    BY <1>4, <1>6
  <2>2. (a + p) * b = a * b + p * b
    BY <1>1, <1>6
  <2>3. QED
    BY <1>4, <1>7, <2>1, <2>2
<1>9. PktLen(k) = IF u + f < l THEN f ELSE l - u
  BY <1>2, <1>5, <1>6 DEF PktLen, NextLen
<1>10. u < l
  BY <1>2, <1>5, <1>6
<1>11. CASE u + f < l
  <2>1. PktLen(k) = f
    BY <1>9, <1>11
  <2>2. Words(f) = p
    <3>1. p * b < f + b /\ f <= p * b
      BY <1>1, <1>4
    <3>2. QED
      BY <1>1, <1>4, <3>1, QuotientUnique DEF Words
  <2>3. a + p < w
    <3>1. ASSUME NEW j \in Nat, a + p = w + j PROVE FALSE
      <4>1. (w + j) * b = w * b + j * b /\ j * b \in Nat /\ w * b \in Nat
        BY <1>1
      <4>2. QED
        BY <1>3, <1>4, <1>8, <1>11, <3>1, <4>1
    <3>2. ~ (a + p - w \in Nat)
      BY <3>1
    <3>3. QED
      BY <3>2
  <2>4. QED
    BY <1>1, <1>2, <1>3, <1>4, <1>5, <1>6, <1>8, <1>11, <2>1, <2>2, <2>3
<1>12. CASE ~ (u + f < l)
  <2>1. PICK n \in Nat : n = l - u /\ n > 0 /\ n <= f /\ PktLen(k) = n
    BY <1>9, <1>10, <1>12
  <2>2. PICK c \in Nat : c = Words(n) /\ c * b < n + b /\ n <= c * b
    BY <1>1, <2>1, Quotient DEF Words
  <2>3. PICK cb \in Nat : cb = c * b
    BY <1>1, <2>2
  <2>4. (a + c) * b = u + cb
    BY <1>1, <1>7, <2>3
  <2>5. w = a + c
    <3>1. (a + c) * b < l + b /\ l <= (a + c) * b
      BY <1>1, <2>1, <2>2, <2>3, <2>4
    <3>2. QED
      BY <1>1, <1>2, <1>3, <3>1, QuotientUnique DEF Words
  <2>6. c <= p
    <3>1. ASSUME NEW j \in Nat, c = p + 1 + j PROVE FALSE
      <4>1. (p + 1 + j) * b = p * b + b + j * b /\ j * b \in Nat
        BY <1>1
      <4>2. QED
        BY <1>1, <1>4, <2>1, <2>2, <2>3, <3>1, <4>1
    <3>2. ~ (c - p - 1 \in Nat)
      BY <3>1
    <3>3. QED
      BY <3>2
  <2>7. c # 0
    BY <1>1, <2>1, <2>2
  <2>8. QED
    BY <1>1, <1>2, <1>3, <1>5, <1>6, <2>1, <2>2, <2>5, <2>6, <2>7
<1>13. QED
  BY <1>11, <1>12

(* The words of packet k: its last one is the last of a full packet or of  *)
(* the message, and no other is.                                           *)
LEMMA LastWord ==
  ASSUME InHand, NEW k \in Nat, k * MaxBytes < Expected,
         NEW n \in Nat, n < Words(PktLen(k))
  PROVE  n + 1 = Words(PktLen(k)) <=>
           \/ (k * MaxPkgWord + n + 1) % MaxPkgWord = 0
           \/ k * MaxPkgWord + n + 1 = Words(Expected)
<1>1. PICK w \in Nat : w = Words(Expected)
  BY MessageFacts DEF Expected, InHand
<1>2. /\ k * MaxPkgWord \in Nat
      /\ Words(PktLen(k)) \in Nat /\ Words(PktLen(k)) > 0
      /\ Words(PktLen(k)) <= MaxPkgWord
      /\ IF k * MaxBytes + PktLen(k) < Expected
         THEN /\ Words(PktLen(k)) = MaxPkgWord
              /\ k * MaxPkgWord + MaxPkgWord < Words(Expected)
         ELSE k * MaxPkgWord + Words(PktLen(k)) = Words(Expected)
  BY PacketFacts
<1>3. MaxPkgWord \in Nat /\ MaxPkgWord > 0
  BY TxAssumption
<1>4. PICK p \in Nat, a \in Nat, c \in Nat :
        p = MaxPkgWord /\ a = k * MaxPkgWord /\ c = Words(PktLen(k))
  BY <1>2, <1>3
<1>5. /\ p = MaxPkgWord /\ p > 0 /\ a = k * p /\ c = Words(PktLen(k))
      /\ c > 0 /\ c <= p
  BY <1>2, <1>3, <1>4
<1>6. IF k * MaxBytes + PktLen(k) < Expected THEN c = p /\ a + p < w ELSE a + c = w
  BY <1>1, <1>2, <1>4
<1>7. n + 1 < p => (a + (n + 1)) % p = n + 1
  BY <1>5, Remainder
<1>8. (a + p) % p = 0
  <2>1. (k + 1) * p + 0 = a + p /\ k + 1 \in Nat /\ 0 \in Nat /\ 0 < p
    BY <1>5
  <2>2. ((k + 1) * p + 0) % p = 0
    BY <1>5, <2>1, Remainder
  <2>3. QED
    BY <2>1, <2>2
<1>9. a + n + 1 = a + (n + 1)
  BY <1>5
<1>10. CASE k * MaxBytes + PktLen(k) < Expected
  BY <1>1, <1>5, <1>6, <1>7, <1>8, <1>9, <1>10
<1>11. CASE ~ (k * MaxBytes + PktLen(k) < Expected)
  BY <1>1, <1>5, <1>6, <1>7, <1>8, <1>9, <1>11
<1>12. QED
  BY <1>10, <1>11

-----------------------------------------------------------------------------
(* The order of commands and words                                         *)

LEMMA AfterFacts ==
  ASSUME NEW w, IsWord(w)
  PROVE  /\ w.msg \in Nat /\ w.word \in Nat /\ w.msg \in DOMAIN Messages
         /\ w = [msg |-> w.msg, word |-> w.word]
         /\ IsWord(After(w)) \/ After(w) = [msg |-> Len(Messages) + 1, word |-> 1]
         /\ w.word = Words(Messages[w.msg].len) => After(w) = [msg |-> w.msg + 1, word |-> 1]
         /\ w.word # Words(Messages[w.msg].len) =>
              After(w) = [msg |-> w.msg, word |-> w.word + 1]
<1>1. PICK m \in DOMAIN Messages, n \in Nat :
        w = [msg |-> m, word |-> n] /\ n \in 1 .. Words(Messages[m].len)
  BY DEF IsWord
<1>2. m \in Nat /\ m <= Len(Messages) /\ Len(Messages) \in Nat
      /\ Words(Messages[m].len) \in Nat
  BY MessageFacts
<1>3. CASE n = Words(Messages[m].len)
  <2>1. After(w) = [msg |-> m + 1, word |-> 1]
    BY <1>1, <1>3 DEF After
  <2>2. CASE m + 1 <= Len(Messages)
    <3>1. m + 1 \in DOMAIN Messages
      BY <1>2, <2>2, TxAssumption
    <3>2. Words(Messages[m + 1].len) \in Nat /\ Words(Messages[m + 1].len) > 0
      BY <3>1, MessageFacts
    <3>3. IsWord([msg |-> m + 1, word |-> 1])
      BY <3>1, <3>2 DEF IsWord
    <3>4. QED
      BY <1>1, <1>2, <1>3, <2>1, <3>3
  <2>3. CASE m = Len(Messages)
    BY <1>1, <1>2, <1>3, <2>1, <2>3
  <2>4. QED
    BY <1>2, <2>2, <2>3
<1>4. CASE n # Words(Messages[m].len)
  <2>1. After(w) = [msg |-> m, word |-> n + 1]
    BY <1>1, <1>4 DEF After
  <2>2. IsWord([msg |-> m, word |-> n + 1])
    BY <1>1, <1>2, <1>4 DEF IsWord
  <2>3. QED
    BY <1>1, <1>2, <1>4, <2>1, <2>2
<1>5. QED
  BY <1>3, <1>4

LEMMA OrderKept ==
  ASSUME NEW r, InOrder(r), UNCHANGED <<cmd, cmdQ, dataQ, fed>>
  PROVE  InOrder(r)'
  BY DEF InOrder, End, WrittenTo

(* The handler reads a word.                                               *)
LEMMA OrderRead ==
  ASSUME NEW r, InOrder(r), dataQ # <<>>, dataQ' = Tail(dataQ), UNCHANGED <<cmd, cmdQ, fed>>
  PROVE  InOrder(After(r))'
<1>1. PICK n \in Nat : n = Len(dataQ) /\ n > 0 /\ DOMAIN dataQ = 1 .. n
  BY TailFacts DEF InOrder
<1>2. /\ IsSeq(dataQ') /\ Len(dataQ') = n - 1 /\ dataQ[1] = r
      /\ \A i \in 1 .. n - 1 : dataQ'[i] = dataQ[i + 1]
      /\ dataQ' = <<>> <=> n = 1
  <2>1. /\ IsSeq(dataQ') /\ Len(dataQ') = n - 1 /\ dataQ[1] = r
        /\ \A i \in 1 .. n - 1 : dataQ'[i] = dataQ[i + 1]
    BY <1>1, TailFacts DEF InOrder
  <2>2. QED
    BY <1>1, <2>1, EmptyFacts
<1>3. End(After(r))' = End(r)
  <2>1. End(r) = After(dataQ[n])
    BY <1>1 DEF End
  <2>2. CASE n = 1
    BY <1>2, <2>1, <2>2 DEF End
  <2>3. CASE n > 1
    <3>1. dataQ'[n - 1] = dataQ[n] /\ dataQ' # <<>>
      BY <1>1, <1>2, <2>3
    <3>2. QED
      BY <1>2, <2>1, <3>1 DEF End
  <2>4. QED
    BY <1>1, <2>2, <2>3
<1>4. WrittenTo(End(After(r)))'
  <2>1. PICK w : w = End(r)
    OBVIOUS
  <2>2. WrittenTo(w)'
    BY <2>1 DEF InOrder, WrittenTo
  <2>3. QED
    BY <1>3, <2>1, <2>2 DEF WrittenTo
<1>5. \A i \in 1 .. n - 1 : IsWord(dataQ'[i])
  BY <1>1, <1>2 DEF InOrder
<1>6. n > 1 => dataQ'[1] = After(r)
  <2>1. n > 1 => 1 \in 1 .. n - 1 /\ dataQ[1 + 1] = After(dataQ[1])
    BY <1>1 DEF InOrder
  <2>2. QED
    BY <1>2, <2>1
<1>7. \A i \in 1 .. n - 1 - 1 : dataQ'[i + 1] = After(dataQ'[i])
  <2>1. SUFFICES ASSUME NEW i \in 1 .. n - 1 - 1 PROVE dataQ'[i + 1] = After(dataQ'[i])
    OBVIOUS
  <2>2. i \in 1 .. n - 1 /\ i + 1 \in 1 .. n - 1
    BY <1>1
  <2>3. dataQ[i + 1 + 1] = After(dataQ[i + 1])
    BY <1>1, <2>2 DEF InOrder
  <2>4. QED
    BY <1>2, <2>2, <2>3
<1>8. QED
  BY <1>2, <1>4, <1>5, <1>6, <1>7 DEF InOrder

(* The message whose command or word comes next.                           *)
LEMMA NextToWrite ==
  ASSUME NEW w, WrittenTo(w), NEW m \in DOMAIN Messages
  PROVE  /\ fed[m] = 0 /\ (\A p \in 1 .. m - 1 : fed[p] = Words(Messages[p].len) + 1)
              => w = [msg |-> m, word |-> 1] /\ Len(cmdQ) + cmd = m - 1
         /\ fed[m] \in 1 .. Words(Messages[m].len)
              => w = [msg |-> m, word |-> fed[m]] /\ Len(cmdQ) + cmd = m
<1>1. m \in Nat /\ m >= 1 /\ m <= Len(Messages) /\ Len(Messages) \in Nat
      /\ Words(Messages[m].len) \in Nat
  BY MessageFacts
<1>2. PICK x \in Nat, y \in Nat : w = [msg |-> x, word |-> y] /\ y > 0
  BY AfterFacts, <1>1 DEF WrittenTo, IsWord
<1>3. x > m \/ x = m \/ x < m
  BY <1>1, <1>2
<1>4. x > m => fed[m] = Words(Messages[m].len) + 1
  BY <1>1, <1>2 DEF WrittenTo
<1>5. x = m => IsWord(w) /\ (fed[m] = y \/ (fed[m] = 0 /\ y = 1))
  BY <1>1, <1>2 DEF WrittenTo
<1>6. x < m => /\ fed[m] = 0 /\ IsWord(w) /\ x \in 1 .. m - 1
               /\ fed[x] # Words(Messages[x].len) + 1
  <2>1. SUFFICES ASSUME x < m
                 PROVE  /\ fed[m] = 0 /\ IsWord(w) /\ x \in 1 .. m - 1
                        /\ fed[x] # Words(Messages[x].len) + 1
    OBVIOUS
  <2>2. fed[m] = 0 /\ IsWord(w)
    BY <1>1, <1>2, <2>1 DEF WrittenTo
  <2>3. x \in DOMAIN Messages /\ y <= Words(Messages[x].len)
        /\ (fed[x] = y \/ fed[x] = 0)
    BY <1>2, <2>2 DEF WrittenTo, IsWord
  <2>4. x >= 1 /\ Words(Messages[x].len) \in Nat
    BY <2>3, MessageFacts
  <2>5. QED
    BY <1>1, <1>2, <2>1, <2>2, <2>3, <2>4
<1>7. Len(cmdQ) + cmd = IF IsWord(w) /\ fed[x] # 0 THEN x ELSE x - 1
  BY <1>2 DEF WrittenTo
<1>8. QED
  BY <1>1, <1>2, <1>3, <1>4, <1>5, <1>6, <1>7

-----------------------------------------------------------------------------
(* The packetizer                                                          *)

LEMMA CmdOrder ==
  ASSUME NEW r, InOrder(r), cmd \in Nat, NEW m \in DOMAIN Messages, PktCmd(m)
  PROVE  InOrder(r)'
<1>1. PICK w : w = End(r) /\ WrittenTo(w)
  BY DEF InOrder
<1>2. w = [msg |-> m, word |-> 1] /\ Len(cmdQ) + cmd = m - 1
  BY <1>1, NextToWrite DEF PktCmd
<1>3. /\ IsSeq(cmdQ') /\ Len(cmdQ') = Len(cmdQ) + 1 /\ Len(cmdQ) \in Nat
      /\ \A i \in 1 .. Len(cmdQ) : cmdQ'[i] = cmdQ[i]
      /\ cmdQ'[Len(cmdQ) + 1] = m
  BY AppendFacts DEF PktCmd, InOrder
<1>4. \A i \in 1 .. Len(cmdQ') : cmdQ'[i] = cmd' + i
  <2>1. m \in Nat /\ cmd' = cmd
    BY MessageFacts DEF PktCmd, handlerVars
  <2>2. \A i \in 1 .. Len(cmdQ) : cmdQ[i] = cmd + i
    BY DEF InOrder
  <2>3. QED
    BY <1>2, <1>3, <2>1, <2>2
<1>5. End(r)' = w /\ dataQ' = dataQ
  BY <1>1 DEF End, PktCmd
<1>6. IsWord(w)
  BY <1>2, MessageFacts DEF IsWord
<1>7. fed' = [fed EXCEPT ![m] = 1] /\ DOMAIN fed = DOMAIN Messages /\ cmd' = cmd
  BY <1>1 DEF PktCmd, WrittenTo, handlerVars
<1>8. WrittenTo(w)'
  <2>1. Len(cmdQ') + cmd' = m
    BY <1>2, <1>3, <1>7, MessageFacts
  <2>2. \A x \in DOMAIN Messages :
          /\ x < m => fed[x] = Words(Messages[x].len) + 1
          /\ x > m => fed[x] = 0
    BY <1>1, <1>2 DEF WrittenTo
  <2>3. \A x \in DOMAIN Messages :
          /\ x # m => fed'[x] = fed[x]
          /\ x = m => fed'[x] = 1
    BY <1>7
  <2>4. \A x \in DOMAIN Messages : x \in Nat
    BY MessageFacts
  <2>5. QED
    BY <1>2, <1>6, <1>7, <2>1, <2>2, <2>3, <2>4 DEF WrittenTo
<1>9. WrittenTo(End(r))'
  BY <1>5, <1>8 DEF WrittenTo
<1>10. QED
  BY <1>3, <1>4, <1>5, <1>9 DEF InOrder

LEMMA WordOrder ==
  ASSUME NEW r, InOrder(r), cmd \in Nat, NEW m \in DOMAIN Messages, PktWord(m)
  PROVE  InOrder(r)'
<1>1. PICK w : w = End(r) /\ WrittenTo(w)
  BY DEF InOrder
<1>2. w = [msg |-> m, word |-> fed[m]] /\ Len(cmdQ) + cmd = m
  BY <1>1, NextToWrite DEF PktWord
<1>3. fed[m] \in 1 .. Words(Messages[m].len) /\ m \in Nat /\ m <= Len(Messages)
      /\ Words(Messages[m].len) \in Nat /\ Len(Messages) \in Nat
  BY MessageFacts DEF PktWord
<1>4. IsWord(w)
  BY <1>2, <1>3 DEF IsWord
<1>5. PICK n \in Nat : n = Len(dataQ)
  BY EmptyFacts DEF InOrder
<1>6. /\ IsSeq(dataQ') /\ Len(dataQ') = n + 1 /\ dataQ' # <<>>
      /\ \A i \in 1 .. n : dataQ'[i] = dataQ[i]
      /\ dataQ'[n + 1] = w
  BY <1>2, <1>5, AppendFacts DEF PktWord, InOrder
<1>7. UNCHANGED <<cmd, cmdQ>>
  BY DEF PktWord, handlerVars
<1>8. End(r)' = After(w)
  BY <1>5, <1>6 DEF End
<1>9. \A i \in 1 .. n + 1 : IsWord(dataQ'[i])
  BY <1>4, <1>5, <1>6 DEF InOrder
<1>10. dataQ'[1] = r
  <2>1. CASE n = 0
    <3>1. dataQ = <<>>
      BY <1>5, <2>1, EmptyFacts DEF InOrder
    <3>2. w = r /\ n + 1 = 1
      BY <1>1, <2>1, <3>1 DEF End
    <3>3. QED
      BY <1>6, <3>2
  <2>2. CASE n > 0
    BY <1>5, <1>6, <2>2, EmptyFacts DEF InOrder
  <2>3. QED
    BY <2>1, <2>2
<1>11. \A i \in 1 .. n : dataQ'[i + 1] = After(dataQ'[i])
  <2>1. SUFFICES ASSUME NEW i \in 1 .. n PROVE dataQ'[i + 1] = After(dataQ'[i])
    OBVIOUS
  <2>2. CASE i < n
    <3>1. i \in 1 .. n - 1 /\ i + 1 \in 1 .. n
      BY <1>5, <2>2
    <3>2. dataQ[i + 1] = After(dataQ[i])
      BY <1>5, <3>1 DEF InOrder
    <3>3. QED
      BY <1>6, <3>1, <3>2
  <2>3. CASE i = n
    <3>1. dataQ # <<>>
      BY <1>5, <2>3, EmptyFacts
    <3>2. w = After(dataQ[n])
      BY <1>1, <1>5, <3>1 DEF End
    <3>3. QED
      BY <1>6, <2>3, <3>2
  <2>4. QED
    BY <2>2, <2>3
<1>12. fed' = [fed EXCEPT ![m] = @ + 1] /\ DOMAIN fed = DOMAIN Messages
  BY <1>1 DEF PktWord, WrittenTo
<1>13. WrittenTo(After(w))'
  <2>1. \A x \in DOMAIN Messages :
          /\ x < m => fed[x] = Words(Messages[x].len) + 1
          /\ x > m => fed[x] = 0
    BY <1>1, <1>2 DEF WrittenTo
  <2>2. \A x \in DOMAIN Messages :
          /\ x # m => fed'[x] = fed[x]
          /\ x = m => fed'[x] = fed[m] + 1
    BY <1>12
  <2>3. \A x \in DOMAIN Messages : x \in Nat
    BY MessageFacts
  <2>4. DOMAIN fed' = DOMAIN Messages /\ Len(cmdQ') + cmd' = m
    BY <1>2, <1>7, <1>12
  <2>5. IsWord(After(w)) \/ After(w) = [msg |-> Len(Messages) + 1, word |-> 1]
    BY <1>4, AfterFacts
  <2>6. CASE fed[m] = Words(Messages[m].len)
    <3>1. After(w) = [msg |-> m + 1, word |-> 1]
      BY <1>2, <1>4, <2>6, AfterFacts
    <3>2. IsWord(After(w)) => fed'[m + 1] = 0
      BY <1>3, <2>1, <2>2, <3>1 DEF IsWord
    <3>3. \A x \in DOMAIN Messages :
            /\ x < m + 1 => fed'[x] = Words(Messages[x].len) + 1
            /\ x = m + 1 => fed'[x] = 0
            /\ x > m + 1 => fed'[x] = 0
      BY <1>3, <2>1, <2>2, <2>3, <2>6
    <3>4. QED
      BY <1>3, <2>4, <2>5, <3>1, <3>2, <3>3 DEF WrittenTo
  <2>7. CASE fed[m] # Words(Messages[m].len)
    <3>1. After(w) = [msg |-> m, word |-> fed[m] + 1]
      BY <1>2, <1>4, <2>7, AfterFacts
    <3>2. IsWord(After(w))
      BY <1>3, <2>7, <3>1 DEF IsWord
    <3>3. \A x \in DOMAIN Messages :
            /\ x < m => fed'[x] = Words(Messages[x].len) + 1
            /\ x = m => fed'[x] = fed[m] + 1
            /\ x > m => fed'[x] = 0
      BY <1>3, <2>1, <2>2, <2>3
    <3>4. fed'[m] # 0
      BY <1>3, <3>3
    <3>5. QED
      BY <1>3, <2>4, <3>1, <3>2, <3>3, <3>4 DEF WrittenTo
  <2>8. QED
    BY <2>6, <2>7
<1>14. WrittenTo(End(r))'
  BY <1>8, <1>13 DEF WrittenTo
<1>15. IsSeq(cmdQ') /\ \A i \in 1 .. Len(cmdQ') : cmdQ'[i] = cmd' + i
  BY <1>7 DEF InOrder
<1>16. QED
  <2>1. Len(dataQ') - 1 = n
    BY <1>6
  <2>2. QED
    BY <1>6, <1>9, <1>10, <1>11, <1>14, <1>15, <2>1 DEF InOrder

(* Nothing of the handler or the stack changes with the packetizer.        *)
LEMMA PacketizerStep ==
  ASSUME TxInv, NEW m \in DOMAIN Messages, PktCmd(m) \/ PktWord(m)
  PROVE  TxInv'
<1>1. PICK k \in Nat : \E r \in {NextRead(k)} : AtPacket(k) /\ InOrder(r)
  BY DEF TxInv
<1>2. PICK r : r = NextRead(k) /\ AtPacket(k) /\ InOrder(r)
  BY <1>1
<1>3. UNCHANGED <<handlerVars, metaQ, statusQ, stackVars>>
  BY DEF PktCmd, PktWord
<1>4. AtPacket(k)' /\ r = NextRead(k)'
  BY <1>2, <1>3
     DEF AtPacket, NextRead, handlerVars, stackVars, NothingAsked, Requested, Asked,
         Answered, Granted, PktLen, NextLen, Writing, InHand, Session, Expected
<1>5. InOrder(r)'
  BY <1>2, CmdOrder, WordOrder DEF AtPacket
<1>6. QED
  BY <1>4, <1>5 DEF TxInv

-----------------------------------------------------------------------------
(* The handler and the stack                                               *)

(* What holds of a packet's request depends on the message only.           *)
LEMMA SameRequest ==
  ASSUME NEW k, cmd' = cmd
  PROVE  /\ Asked(k)' = Asked(k) /\ Granted(k)' = Granted(k)
         /\ \A e : Answered(k, e)' = Answered(k, e)
  BY DEF Asked, Granted, Answered, PktLen, NextLen, Session, Expected

LEMMA WaitCmdStep ==
  ASSUME TxInv, WaitCmd
  PROVE  TxInv'
<1>1. PICK k \in Nat : \E r \in {NextRead(k)} : AtPacket(k) /\ InOrder(r)
  BY DEF TxInv
<1>2. PICK r : r = NextRead(k) /\ AtPacket(k) /\ InOrder(r)
  BY <1>1
<1>3. k = 0 /\ cmd \in Nat /\ r = [msg |-> cmd + 1, word |-> 1]
  BY <1>2 DEF AtPacket, NextRead, WaitCmd
<1>4. /\ IsSeq(cmdQ') /\ Len(cmdQ') = Len(cmdQ) - 1 /\ Len(cmdQ) \in Nat \ {0}
      /\ DOMAIN cmdQ = 1 .. Len(cmdQ)
      /\ \A i \in 1 .. Len(cmdQ) - 1 : cmdQ'[i] = cmdQ[i + 1]
      /\ cmd' = cmd + 1
  <2>1. /\ IsSeq(cmdQ') /\ Len(cmdQ') = Len(cmdQ) - 1 /\ Len(cmdQ) \in Nat \ {0}
        /\ DOMAIN cmdQ = 1 .. Len(cmdQ)
        /\ \A i \in 1 .. Len(cmdQ) - 1 : cmdQ'[i] = cmdQ[i + 1]
        /\ cmd' = cmdQ[1]
    BY <1>2, TailFacts DEF InOrder, WaitCmd
  <2>2. QED
    BY <1>2, <2>1 DEF InOrder
<1>5. UNCHANGED <<sentBytes, wordCnt, fed, dataQ, metaQ, statusQ, granted>>
  BY DEF WaitCmd, stackVars
<1>6. PICK w : w = End(r) /\ WrittenTo(w)
  BY <1>2 DEF InOrder
<1>7. InHand'
  <2>1. Len(Messages) \in Nat /\ DOMAIN Messages = 1 .. Len(Messages)
    BY TxAssumption
  <2>2. Len(cmdQ) + cmd <= Len(Messages)
    <3>1. CASE IsWord(w)
      <4>1. w.msg \in Nat /\ w.msg <= Len(Messages)
        BY <2>1, <3>1, AfterFacts
      <4>2. QED
        BY <1>6, <2>1, <3>1, <4>1 DEF WrittenTo
    <3>2. CASE ~ IsWord(w)
      <4>1. w.msg = Len(Messages) + 1
        BY <1>6, <3>2 DEF WrittenTo
      <4>2. QED
        BY <1>6, <2>1, <3>2, <4>1 DEF WrittenTo
    <3>3. QED
      BY <3>1, <3>2
  <2>3. QED
    BY <1>3, <1>4, <2>1, <2>2 DEF InHand
<1>8. AtPacket(k)'
  BY <1>2, <1>3, <1>4, <1>5, <1>7 DEF AtPacket, WaitCmd, NothingAsked
<1>9. NextRead(k)' = r
  <2>1. 0 * MaxPkgWord + 0 + 1 = 1
    BY TxAssumption
  <2>2. state' # "WAIT_CMD" /\ wordCnt' = 0
    BY <1>2, <1>5 DEF AtPacket, WaitCmd
  <2>3. QED
    BY <1>3, <1>4, <2>1, <2>2 DEF NextRead
<1>10. WrittenTo(w)'
  <2>1. Len(cmdQ') + cmd' = Len(cmdQ) + cmd
    BY <1>3, <1>4
  <2>2. IsWord(w)' = IsWord(w)
    BY DEF IsWord
  <2>3. QED
    BY <1>5, <1>6, <2>1 DEF WrittenTo
<1>11. InOrder(r)'
  <2>1. End(r)' = w
    BY <1>5, <1>6 DEF End
  <2>2. WrittenTo(End(r))'
    BY <1>10, <2>1 DEF WrittenTo
  <2>3. \A i \in 1 .. Len(cmdQ') : cmdQ'[i] = cmd' + i
    <3>1. \A i \in 1 .. Len(cmdQ) : cmdQ[i] = cmd + i
      BY <1>2 DEF InOrder
    <3>2. QED
      BY <1>3, <1>4, <3>1
  <2>4. QED
    BY <1>2, <1>4, <1>5, <2>2, <2>3 DEF InOrder
<1>12. QED
  BY <1>8, <1>9, <1>11 DEF TxInv

LEMMA WaitFirstDataStep ==
  ASSUME TxInv, WaitFirstData
  PROVE  TxInv'
<1>1. PICK k \in Nat : \E r \in {NextRead(k)} : AtPacket(k) /\ InOrder(r)
  BY DEF TxInv
<1>2. PICK r : r = NextRead(k) /\ AtPacket(k) /\ InOrder(r)
  BY <1>1
<1>3. UNCHANGED <<cmd, cmdQ, dataQ, fed, sentBytes, wordCnt, statusQ, granted>>
  BY DEF WaitFirstData, stackVars
<1>4. /\ k = 0 /\ sentBytes = 0 /\ wordCnt = 0 /\ InHand /\ cmd \in Nat
      /\ metaQ = <<>> /\ statusQ = <<>> /\ granted = <<>>
  BY <1>2 DEF AtPacket, WaitFirstData, NothingAsked
<1>5. Expected \in Nat /\ Expected > 0 /\ MaxBytes \in Nat
  BY <1>4, MessageFacts, TxAssumption DEF InHand, Expected, MaxBytes
<1>6. 0 * MaxBytes = 0
  BY <1>5
<1>7. PktLen(k) = IF MaxBytes > Expected THEN Expected ELSE MaxBytes
  BY <1>4, <1>5, <1>6 DEF PktLen, NextLen
<1>8. metaQ' = <<Asked(k)>>
  BY <1>4, <1>7 DEF WaitFirstData, Asked
<1>9. Requested(k, <<>>)'
  BY <1>3, <1>4, <1>8, SameRequest DEF Requested
<1>10. AtPacket(k)'
  <2>1. InHand' /\ Expected' = Expected /\ state' = "CHECK_REQ"
    BY <1>3, <1>4 DEF InHand, Expected, WaitFirstData
  <2>2. QED
    BY <1>3, <1>4, <1>5, <1>6, <1>9, <2>1 DEF AtPacket
<1>11. NextRead(k)' = r
  BY <1>2, <1>3 DEF NextRead, WaitFirstData
<1>12. InOrder(r)'
  BY <1>2, <1>3, OrderKept
<1>13. QED
  BY <1>10, <1>11, <1>12 DEF TxInv

(* The answers to the request for packet k.                                *)
LEMMA AnswerStep ==
  ASSUME TxInv, Accepted \/ Refused \/ TornDown
  PROVE  TxInv'
<1>1. PICK k \in Nat : \E r \in {NextRead(k)} : AtPacket(k) /\ InOrder(r)
  BY DEF TxInv
<1>2. PICK r : r = NextRead(k) /\ AtPacket(k) /\ InOrder(r)
  BY <1>1
<1>3. UNCHANGED <<cmd, cmdQ, dataQ, fed, wordCnt, granted>>
  BY DEF Accepted, Refused, TornDown, stackVars
<1>4. state = "CHECK_REQ" /\ statusQ # <<>> /\ statusQ' = Tail(statusQ)
  BY DEF Accepted, Refused, TornDown
<1>5. /\ sentBytes = k * MaxBytes /\ sentBytes < Expected /\ wordCnt = 0
      /\ InHand /\ cmd \in Nat /\ Requested(k, <<>>)
  BY <1>2, <1>4 DEF AtPacket
<1>6. /\ metaQ = <<>>
      /\ \E e \in {0, 1, 2} :
           /\ statusQ = <<Answered(k, e)>>
           /\ e = 0 => granted = <<Granted(k)>>
           /\ e # 0 => granted = <<>>
  BY <1>4, <1>5, ShortQueues DEF Requested
<1>7. PICK e \in {0, 1, 2} :
        /\ statusQ = <<Answered(k, e)>>
        /\ e = 0 => granted = <<Granted(k)>>
        /\ e # 0 => granted = <<>>
  BY <1>6
<1>g. e = 1 => gone
  <2>1. statusQ # <<>> /\ statusQ[1].error = e
    BY <1>7 DEF Answered
  <2>2. \/ statusQ[1].error = 0 \/ statusQ[1].error = 2 \/ gone
    BY <1>4, <1>5 DEF Requested, Answered
  <2>3. QED
    BY <2>1, <2>2
<1>8. /\ statusQ' = <<>> /\ Answer.error = e /\ Answer.len = PktLen(k)
      /\ Answer.session = Session
  <2>1. statusQ' = <<>> /\ Answer = Answered(k, e)
    <3>1. \A x : Tail(<<x>>) = <<>> /\ Head(<<x>>) = x
      BY ShortQueues
    <3>2. QED
      BY <1>4, <1>7, <3>1 DEF Answer
  <2>2. QED
    BY <2>1 DEF Answered
<1>9. InHand' /\ Expected' = Expected
  BY <1>3, <1>5 DEF InHand, Expected
<1>10. NextRead(k)' = r
  BY <1>2, <1>3, <1>4 DEF NextRead, Accepted, Refused, TornDown
<1>11. InOrder(r)'
  BY <1>2, <1>3, OrderKept
<1>12. AtPacket(k)'
  <2>1. CASE Accepted
    <3>1. /\ e = 0 /\ state' = "WRITE_PKG" /\ pkgWords' = Words(PktLen(k))
          /\ sentBytes' = k * MaxBytes + PktLen(k) /\ wordCnt' = 0
          /\ k * MaxBytes < Expected
      BY <1>3, <1>5, <1>8, <2>1 DEF Accepted
    <3>2. PktLen(k)' = PktLen(k)
      BY <1>3 DEF PktLen, NextLen, Expected
    <3>3. PICK n \in Nat : n = Words(PktLen(k)) /\ n > 0
      BY <1>5, <3>1, PacketFacts
    <3>4. n - 0 = n /\ 0 \in 0 .. n - 1
      BY <3>3
    <3>5. granted' = Writing'
      <4>1. granted' = <<[session |-> Session, words |-> n]>>
        BY <1>3, <1>7, <3>1, <3>3 DEF Granted
      <4>2. pkgWords' - wordCnt' = n /\ Session' = Session
        BY <1>3, <3>1, <3>3, <3>4 DEF Session
      <4>3. QED
        BY <4>1, <4>2 DEF Writing
    <3>6. CASE sentBytes' < Expected
      <4>1. sentBytes' = (k + 1) * MaxBytes
        BY <1>5, <3>1, <3>6, PacketFacts
      <4>2. metaQ' = <<Asked(k + 1)>>
        BY <1>6, <1>8, <2>1, <3>6, <4>1, ShortQueues DEF Accepted, Asked, PktLen
      <4>3. Requested(k + 1, Writing)'
        BY <1>3, <1>8, <3>5, <4>2, SameRequest DEF Requested
      <4>4. QED
        BY <1>3, <1>5, <1>9, <3>1, <3>2, <3>3, <3>4, <3>6, <4>3 DEF AtPacket, Words
    <3>7. CASE ~ (sentBytes' < Expected)
      <4>1. metaQ' = <<>>
        BY <1>6, <2>1, <3>7 DEF Accepted
      <4>2. NothingAsked(Writing)'
        BY <1>8, <3>5, <4>1 DEF NothingAsked
      <4>3. QED
        BY <1>3, <1>5, <1>9, <3>1, <3>2, <3>3, <3>4, <3>7, <4>2 DEF AtPacket, Words
    <3>8. QED
      BY <3>6, <3>7
  <2>2. CASE Refused
    <3>1. e = 2 /\ metaQ' = <<Asked(k)>>
      <4>1. e = 2 /\ metaQ' = Append(<<>>, Asked(k))
        BY <1>6, <1>8, <2>2 DEF Refused, Asked
      <4>2. QED
        BY <4>1, ShortQueues
    <3>2. Requested(k, <<>>)'
      BY <1>3, <1>7, <1>8, <3>1, SameRequest DEF Requested
    <3>3. QED
      BY <1>3, <1>4, <1>5, <1>9, <2>2, <3>2 DEF AtPacket, Refused
  <2>3. CASE TornDown
    <3>1. e = 1 /\ metaQ' = <<>>
      BY <1>6, <1>8, <2>3 DEF TornDown
    <3>2. granted' = <<>>
      BY <1>3, <1>7, <3>1
    <3>3. gone'
      BY <1>g, <2>3, <3>1 DEF TornDown, stackVars
    <3>4. Requested(k, <<>>)'
      BY <1>8, <3>1, <3>2, <3>3 DEF Requested
    <3>5. QED
      BY <1>3, <1>4, <1>5, <1>9, <2>3, <3>4 DEF AtPacket, TornDown
  <2>4. QED
    BY <2>1, <2>2, <2>3
<1>13. QED
  BY <1>10, <1>11, <1>12 DEF TxInv

(* What one word does to the packets the stack has agreed to.              *)
LEMMA WordGranted ==
  ASSUME NEW s, NEW n \in Nat, NEW p, p = <<[session |-> s, words |-> n]>>,
         NEW q, q = <<[session |-> s, words |-> n - 1]>>
  PROVE  /\ p # <<>> /\ p[1].words = n /\ p[1].session = s
         /\ Tail(p) = <<>> /\ [p EXCEPT ![1].words = @ - 1] = q
         /\ \A g, h : g = Append(p, h) =>
              /\ g # <<>> /\ g[1] = p[1] /\ Tail(g) = <<h>>
              /\ [g EXCEPT ![1].words = @ - 1] = Append(q, h)
<1>1. \A x : /\ Tail(<<x>>) = <<>> /\ <<x>> # <<>> /\ <<x>>[1] = x
            /\ \A y : /\ Append(<<x>>, y) = <<x, y>> /\ Tail(<<x, y>>) = <<y>>
                      /\ <<x, y>> # <<>> /\ <<x, y>>[1] = x
  BY ShortQueues
<1>2. PICK a, b : a = [session |-> s, words |-> n] /\ b = [session |-> s, words |-> n - 1]
  OBVIOUS
<1>3. a.words = n /\ a.session = s /\ [a EXCEPT !.words = @ - 1] = b
  BY <1>2
<1>4. [<<a>> EXCEPT ![1].words = @ - 1] = <<b>>
  BY <1>3
<1>5. ASSUME NEW h, NEW g, g = <<a, h>>
      PROVE  [g EXCEPT ![1].words = @ - 1] = <<b, h>>
  <2>1. [<<a, h>> EXCEPT ![1].words = @ - 1] = <<b, h>>
    BY <1>3
  <2>2. QED
    BY <1>5, <2>1
<1>6. p = <<a>> /\ q = <<b>>
  BY <1>2
<1>7. /\ p # <<>> /\ p[1].words = n /\ p[1].session = s
      /\ Tail(p) = <<>> /\ [p EXCEPT ![1].words = @ - 1] = q
  BY <1>1, <1>3, <1>4, <1>6
<1>8. ASSUME NEW g, NEW h, g = Append(p, h)
      PROVE  /\ g # <<>> /\ g[1] = p[1] /\ Tail(g) = <<h>>
             /\ [g EXCEPT ![1].words = @ - 1] = Append(q, h)
  <2>1. g = <<a, h>> /\ Append(q, h) = <<b, h>> /\ p[1] = a
    BY <1>1, <1>6, <1>8
  <2>2. [g EXCEPT ![1].words = @ - 1] = <<b, h>>
    BY <1>5, <2>1
  <2>3. QED
    BY <1>1, <2>1, <2>2
<1>9. QED
  BY <1>7, <1>8

(* The handler is about to write a word: it is of the packet at the head   *)
(* of what the stack has agreed to, and of its message.                    *)
LEMMA WordAtHand ==
  ASSUME NEW k \in Nat, NEW r, r = NextRead(k), AtPacket(k), InOrder(r),
         state = "WRITE_PKG", dataQ # <<>>
  PROVE  /\ InHand /\ cmd \in Nat /\ k * MaxBytes < Expected
         /\ wordCnt \in Nat /\ pkgWords \in Nat /\ pkgWords = Words(PktLen(k))
         /\ wordCnt < pkgWords /\ sentBytes = k * MaxBytes + PktLen(k)
         /\ Head(dataQ) = [msg |-> cmd, word |-> k * MaxPkgWord + wordCnt + 1]
         /\ dataQ[1] = Head(dataQ) /\ r = Head(dataQ) /\ IsWord(r)
         /\ granted # <<>> /\ granted[1].words = pkgWords - wordCnt
         /\ granted[1].session = Session
<1>1. /\ InHand /\ cmd \in Nat /\ k * MaxBytes < Expected
      /\ pkgWords = Words(PktLen(k)) /\ wordCnt \in 0 .. pkgWords - 1
      /\ sentBytes = k * MaxBytes + PktLen(k)
  BY DEF AtPacket
<1>2. pkgWords \in Nat
  BY <1>1, PacketFacts
<1>3. /\ dataQ[1] = Head(dataQ) /\ dataQ[1] = r /\ IsWord(dataQ[1])
  <2>1. dataQ[1] = Head(dataQ) /\ Len(dataQ) \in Nat \ {0}
    BY TailFacts DEF InOrder
  <2>2. QED
    BY <2>1 DEF InOrder
<1>4. r = [msg |-> cmd, word |-> k * MaxPkgWord + wordCnt + 1]
  BY DEF NextRead
<1>5. PICK n \in Nat : n = pkgWords - wordCnt /\ n > 0
  BY <1>1, <1>2
<1>6. \/ granted = <<[session |-> Session, words |-> n]>>
      \/ granted = Append(<<[session |-> Session, words |-> n]>>, Granted(k + 1))
  <2>1. Writing = <<[session |-> Session, words |-> n]>>
    BY <1>5 DEF Writing
  <2>2. \/ NothingAsked(Writing)
        \/ Requested(k + 1, Writing)
    BY DEF AtPacket
  <2>3. QED
    BY <2>1, <2>2 DEF Requested, NothingAsked
<1>7. granted # <<>> /\ granted[1].words = n /\ granted[1].session = Session
  BY <1>5, <1>6, WordGranted
<1>8. QED
  BY <1>1, <1>2, <1>3, <1>4, <1>5, <1>7

LEMMA WritePkgStep ==
  ASSUME TxInv, WritePkg
  PROVE  TxInv'
<1>1. PICK k \in Nat : \E r \in {NextRead(k)} : AtPacket(k) /\ InOrder(r)
  BY DEF TxInv
<1>2. PICK r : r = NextRead(k) /\ AtPacket(k) /\ InOrder(r)
  BY <1>1
<1>3. state = "WRITE_PKG" /\ dataQ # <<>> /\ dataQ' = Tail(dataQ)
  BY DEF WritePkg
<1>4. UNCHANGED <<cmd, cmdQ, fed, metaQ, statusQ>>
  BY DEF WritePkg
<1>g. gone' = gone
  BY DEF WritePkg
<1>5. /\ InHand /\ cmd \in Nat /\ k * MaxBytes < Expected
      /\ wordCnt \in Nat /\ pkgWords \in Nat /\ pkgWords = Words(PktLen(k))
      /\ wordCnt < pkgWords /\ sentBytes = k * MaxBytes + PktLen(k)
      /\ r = [msg |-> cmd, word |-> k * MaxPkgWord + wordCnt + 1] /\ IsWord(r)
      /\ granted # <<>> /\ granted[1].words = pkgWords - wordCnt
  BY <1>2, <1>3, WordAtHand
<1>6. InOrder(After(r))'
  BY <1>2, <1>3, <1>4, OrderRead
<1>7. /\ PktLen(k) \in Nat /\ k * MaxBytes \in Nat /\ k * MaxPkgWord \in Nat
      /\ Expected \in Nat /\ sentBytes \in Nat
      /\ IF sentBytes < Expected
         THEN /\ sentBytes = (k + 1) * MaxBytes
              /\ pkgWords = MaxPkgWord
              /\ (k + 1) * MaxPkgWord = k * MaxPkgWord + MaxPkgWord
              /\ k * MaxPkgWord + MaxPkgWord < Words(Expected)
         ELSE k * MaxPkgWord + pkgWords = Words(Expected)
  <2>1. Expected \in Nat
    BY <1>5, MessageFacts DEF InHand, Expected
  <2>2. QED
    BY <1>5, <2>1, PacketFacts
<1>8. Expected' = Expected /\ InHand' /\ Session' = Session /\ PktLen(k)' = PktLen(k)
  BY <1>4, <1>5 DEF Expected, InHand, Session, PktLen, NextLen
<1>9. /\ r.word = Words(Expected) => After(r) = [msg |-> cmd + 1, word |-> 1]
      /\ r.word # Words(Expected) =>
           After(r) = [msg |-> cmd, word |-> k * MaxPkgWord + wordCnt + 1 + 1]
      /\ r.word = k * MaxPkgWord + wordCnt + 1
  BY <1>5, AfterFacts DEF Expected
<1>10. PICK n \in Nat : n = pkgWords - wordCnt /\ n > 0
  BY <1>5
<1>11. CASE wordCnt + 1 # pkgWords
  <2>1. wordCnt' = wordCnt + 1 /\ UNCHANGED <<state, sentBytes, pkgWords>>
    BY <1>11 DEF WritePkg
  <2>2. granted' = [granted EXCEPT ![1].words = @ - 1] /\ n - 1 = pkgWords' - wordCnt'
    <3>1. granted # <<>> /\ granted[1].words # 1 /\ n - 1 = pkgWords - (wordCnt + 1)
      BY <1>5, <1>10, <1>11
    <3>2. granted' = [granted EXCEPT ![1].words = @ - 1]
      BY <3>1 DEF WritePkg
    <3>3. QED
      BY <2>1, <3>1, <3>2
  <2>3. Writing' = <<[session |-> Session, words |-> n - 1]>>
    BY <1>8, <2>2 DEF Writing
  <2>4. Writing = <<[session |-> Session, words |-> n]>>
    BY <1>10 DEF Writing
  <2>5. /\ granted = Writing => granted' = Writing'
        /\ granted = Append(Writing, Granted(k + 1)) => granted' = Append(Writing', Granted(k + 1))
    <3>1. PICK s, w, v :
            /\ s = Session /\ w = Writing /\ w = <<[session |-> s, words |-> n]>>
            /\ v = Writing' /\ v = <<[session |-> s, words |-> n - 1]>>
      BY <2>3, <2>4
    <3>2. /\ [w EXCEPT ![1].words = @ - 1] = v
          /\ \A g, h : g = Append(w, h) => [g EXCEPT ![1].words = @ - 1] = Append(v, h)
      BY <1>10, <3>1, WordGranted
    <3>3. QED
      BY <2>2, <3>1, <3>2
  <2>6. IF sentBytes < Expected THEN Requested(k + 1, Writing)' ELSE NothingAsked(Writing)'
    <3>1. IF sentBytes < Expected THEN Requested(k + 1, Writing) ELSE NothingAsked(Writing)
      BY <1>2, <1>3 DEF AtPacket
    <3>2. QED
      BY <1>4, <1>g, <2>5, <3>1, SameRequest DEF Requested, NothingAsked
  <2>7. AtPacket(k)'
    BY <1>3, <1>4, <1>5, <1>8, <1>11, <2>1, <2>6 DEF AtPacket, Words
  <2>8. r.word # Words(Expected)
    <3>1. PICK a \in Nat, w \in Nat : a = k * MaxPkgWord /\ w = Words(Expected)
      BY <1>5, <1>7, MessageFacts DEF InHand, Expected
    <3>2. (pkgWords = MaxPkgWord /\ a + MaxPkgWord < w) \/ a + pkgWords = w
      BY <1>7, <3>1
    <3>3. r.word = a + wordCnt + 1
      BY <1>9, <3>1
    <3>4. QED
      BY <1>5, <1>11, <3>1, <3>2, <3>3
  <2>9. NextRead(k)' = After(r)
    BY <1>3, <1>4, <1>5, <1>7, <1>9, <2>1, <2>8 DEF NextRead
  <2>10. QED
    BY <1>6, <2>7, <2>9 DEF TxInv
<1>12. CASE wordCnt + 1 = pkgWords
  <2>1. wordCnt' = 0 /\ AfterPacket /\ n = 1 /\ granted' = Tail(granted)
    BY <1>5, <1>10, <1>12 DEF WritePkg, AfterPacket
  <2>2. Writing = <<[session |-> Session, words |-> n]>>
    BY <1>10 DEF Writing
  <2>3. /\ granted = Writing => granted' = <<>>
        /\ granted = Append(Writing, Granted(k + 1)) => granted' = <<Granted(k + 1)>>
    <3>1. Tail(Writing) = <<>> /\ \A g, h : g = Append(Writing, h) => Tail(g) = <<h>>
      <4>1. PICK s, w, v :
              /\ w = Writing /\ w = <<[session |-> s, words |-> n]>>
              /\ v = <<[session |-> s, words |-> n - 1]>>
        BY <2>2
      <4>2. Tail(w) = <<>>
        BY <4>1, WordGranted
      <4>3. ASSUME NEW g, NEW h, g = Append(w, h) PROVE Tail(g) = <<h>>
        <5>1. PICK x : w = <<x>>
          BY <4>1
        <5>2. Append(<<x>>, h) = <<x, h>> /\ Tail(<<x, h>>) = <<h>>
          BY ShortQueues
        <5>3. g = <<x, h>>
          BY <4>3, <5>1, <5>2
        <5>4. QED
          BY <5>2, <5>3
      <4>4. QED
        BY <4>1, <4>2, <4>3
    <3>2. QED
      BY <2>1, <3>1
  <2>4. CASE sentBytes < Expected
    <3>1. state' = "CHECK_REQ" /\ sentBytes' = sentBytes
      BY <1>7, <2>1, <2>4 DEF AfterPacket
    <3>2. Requested(k + 1, <<>>)'
      <4>1. Requested(k + 1, Writing)
        BY <1>2, <1>3, <2>4 DEF AtPacket
      <4>2. QED
        BY <1>4, <1>g, <2>3, <4>1, SameRequest, ShortQueues DEF Requested
    <3>3. AtPacket(k + 1)'
      <4>1. cmd' \in Nat /\ sentBytes' = (k + 1) * MaxBytes /\ sentBytes' < Expected'
        BY <1>4, <1>5, <1>7, <1>8, <2>4, <3>1
      <4>2. PICK j : j = k + 1
        OBVIOUS
      <4>3. Requested(j, <<>>)' /\ sentBytes' = j * MaxBytes
        BY <3>2, <4>1, <4>2
      <4>4. AtPacket(j)'
        BY <1>8, <2>1, <3>1, <4>1, <4>3 DEF AtPacket
      <4>5. QED
        BY <4>2, <4>4
    <3>4. r.word # Words(Expected) /\ k * MaxPkgWord + wordCnt + 1 = (k + 1) * MaxPkgWord
      <4>1. PICK a \in Nat : a = k * MaxPkgWord
        BY <1>7
      <4>2. Words(Expected) \in Nat /\ MaxPkgWord \in Nat
        BY <1>5, MessageFacts, TxAssumption DEF InHand, Expected
      <4>3. a + wordCnt + 1 = a + MaxPkgWord /\ a + MaxPkgWord < Words(Expected)
        BY <1>5, <1>7, <1>12, <2>4, <4>1, <4>2
      <4>4. QED
        BY <1>7, <1>9, <2>4, <4>1, <4>2, <4>3
    <3>5. NextRead(k + 1)' = After(r)
      BY <1>4, <1>7, <1>9, <2>1, <2>4, <3>1, <3>4, TxAssumption DEF NextRead
    <3>6. QED
      BY <1>6, <3>3, <3>5 DEF TxInv
  <2>5. CASE ~ (sentBytes < Expected)
    <3>1. state' = "WAIT_CMD" /\ sentBytes' = 0
      BY <1>7, <2>1, <2>5 DEF AfterPacket
    <3>2. NothingAsked(<<>>)'
      <4>1. NothingAsked(Writing)
        BY <1>2, <1>3, <2>5 DEF AtPacket
      <4>2. QED
        BY <1>4, <2>3, <4>1 DEF NothingAsked
    <3>3. AtPacket(0)'
      BY <1>4, <1>5, <2>1, <3>1, <3>2 DEF AtPacket
    <3>4. r.word = Words(Expected)
      BY <1>5, <1>7, <1>9, <1>12, <2>5
    <3>5. NextRead(0)' = After(r)
      BY <1>4, <1>9, <3>1, <3>4 DEF NextRead
    <3>6. QED
      BY <1>6, <3>3, <3>5 DEF TxInv
  <2>6. QED
    BY <2>4, <2>5
<1>13. QED
  BY <1>11, <1>12

(* The stack answers the request under way.                                *)
LEMMA StackStep ==
  ASSUME TxInv, NEW e \in {0, 1, 2}, StackAnswers(e)
  PROVE  TxInv'
<1>1. PICK k \in Nat : \E r \in {NextRead(k)} : AtPacket(k) /\ InOrder(r)
  BY DEF TxInv
<1>2. PICK r : r = NextRead(k) /\ AtPacket(k) /\ InOrder(r)
  BY <1>1
<1>3. UNCHANGED <<handlerVars, fed, cmdQ, dataQ>>
  BY DEF StackAnswers
<1>4. UNCHANGED <<state, cmd, sentBytes, pkgWords, wordCnt>>
  BY <1>3 DEF handlerVars
<1>5. metaQ # <<>>
  BY DEF StackAnswers
<1>g. e = 1 => gone'
  BY DEF StackAnswers
<1>6. ASSUME NEW j, NEW g, Requested(j, g)
      PROVE  Requested(j, g)'
  <2>1. metaQ = <<Asked(j)>> /\ statusQ = <<>> /\ granted = g
    BY <1>5, <1>6 DEF Requested
  <2>2. Head(metaQ) = Asked(j) /\ Tail(metaQ) = <<>>
    BY <2>1, ShortQueues
  <2>3. /\ metaQ' = <<>>
        /\ statusQ' = <<Answered(j, e)>>
        /\ e = 0 => granted' = Append(g, Granted(j))
        /\ e # 0 => granted' = g
    <3>1. /\ metaQ' = <<>>
          /\ statusQ' = Append(<<>>, Answered(j, e))
          /\ e = 0 => granted' = Append(g, Granted(j))
          /\ e # 0 => granted' = g
      BY <2>1, <2>2 DEF StackAnswers, Asked, Answered, Granted
    <3>2. QED
      BY <3>1, ShortQueues
  <2>4. QED
    BY <1>4, <1>g, <2>3, SameRequest DEF Requested
<1>7. AtPacket(k)'
  <2>1. PICK g : g = Writing
    OBVIOUS
  <2>2. Writing' = g /\ Expected' = Expected /\ Session' = Session /\ PktLen(k)' = PktLen(k)
    BY <1>4, <2>1 DEF Writing, Expected, Session, PktLen, NextLen
  <2>3. /\ Requested(k, <<>>) => Requested(k, <<>>)'
        /\ Requested(k + 1, Writing) => Requested(k + 1, Writing)'
    <3>1. Requested(k + 1, Writing) => Requested(k + 1, g)
      BY <2>1
    <3>2. Requested(k + 1, g)' => Requested(k + 1, Writing)'
      BY <2>2 DEF Requested
    <3>3. QED
      BY <1>6, <3>1, <3>2
  <2>4. state \in {"CHECK_REQ", "WRITE_PKG"}
    BY <1>2, <1>5 DEF AtPacket, NothingAsked
  <2>5. state = "WRITE_PKG" => sentBytes < Expected
    BY <1>2, <1>5 DEF AtPacket, NothingAsked
  <2>6. QED
    BY <1>2, <1>4, <2>2, <2>3, <2>4, <2>5 DEF AtPacket, InHand, Words
<1>8. NextRead(k)' = r
  BY <1>2, <1>4 DEF NextRead
<1>9. InOrder(r)'
  BY <1>2, <1>3, <1>4, OrderKept
<1>10. QED
  BY <1>7, <1>8, <1>9 DEF TxInv

-----------------------------------------------------------------------------
(* The steps and the theorems                                              *)

LEMMA TxStart ==
  ASSUME TxInit
  PROVE  TxInv
<1>1. 0 * MaxPkgWord + 0 + 1 = 1 /\ Len(Messages) \in Nat
  BY TxAssumption
<1>2. PICK r : r = [msg |-> 1, word |-> 1]
  OBVIOUS
<1>3. NextRead(0) = r
  BY <1>2 DEF TxInit, NextRead
<1>4. AtPacket(0)
  BY DEF TxInit, AtPacket, NothingAsked
<1>5. IsWord(r) \/ r = [msg |-> Len(Messages) + 1, word |-> 1]
  <2>1. CASE Len(Messages) = 0
    BY <1>2, <2>1
  <2>2. CASE Len(Messages) > 0
    <3>1. 1 \in DOMAIN Messages
      BY <1>1, <2>2, TxAssumption
    <3>2. QED
      BY <1>2, <3>1, MessageFacts DEF IsWord
  <2>3. QED
    BY <1>1, <2>1, <2>2
<1>6. WrittenTo(r)
  <2>1. \A m \in DOMAIN Messages : m \in Nat /\ m >= 1
    BY MessageFacts
  <2>2. Len(cmdQ) + cmd = 0 /\ DOMAIN fed = DOMAIN Messages
    BY DEF TxInit
  <2>3. \A m \in DOMAIN Messages : fed[m] = 0
    BY DEF TxInit
  <2>4. IsWord(r) => fed[r.msg] = 0
    BY <2>3 DEF IsWord
  <2>5. QED
    BY <1>2, <1>5, <2>1, <2>2, <2>3, <2>4 DEF WrittenTo
<1>7. InOrder(r)
  <2>1. End(r) = r /\ IsSeq(cmdQ) /\ IsSeq(dataQ) /\ Len(cmdQ) = 0 /\ Len(dataQ) = 0
        /\ dataQ = <<>>
    BY EmptyFacts DEF TxInit, End
  <2>2. QED
    BY <1>6, <2>1 DEF InOrder
<1>8. QED
  BY <1>3, <1>4, <1>7 DEF TxInv

LEMMA TxStep ==
  ASSUME TxInv, [TxNext]_vars
  PROVE  TxInv'
<1>1. CASE WaitCmd
  BY <1>1, WaitCmdStep
<1>2. CASE WaitFirstData
  BY <1>2, WaitFirstDataStep
<1>3. CASE Accepted \/ Refused \/ TornDown
  BY <1>3, AnswerStep
<1>4. CASE WritePkg
  BY <1>4, WritePkgStep
<1>5. ASSUME NEW m \in DOMAIN Messages, PktCmd(m) \/ PktWord(m) PROVE TxInv'
  BY <1>5, PacketizerStep
<1>6. CASE Accept \/ Refuse \/ LoseConnection
  BY <1>6, StackStep DEF Accept, Refuse, LoseConnection
<1>7. CASE UNCHANGED vars
  <2>1. PICK k \in Nat : \E r \in {NextRead(k)} : AtPacket(k) /\ InOrder(r)
    BY DEF TxInv
  <2>2. PICK r : r = NextRead(k) /\ AtPacket(k) /\ InOrder(r)
    BY <2>1
  <2>3. UNCHANGED <<handlerVars, fed, cmdQ, dataQ, metaQ, statusQ, stackVars>>
    BY <1>7 DEF vars
  <2>4. AtPacket(k)' /\ r = NextRead(k)'
    BY <2>2, <2>3
       DEF AtPacket, NextRead, handlerVars, stackVars, NothingAsked, Requested, Asked,
           Answered, Granted, PktLen, NextLen, Writing, InHand, Session, Expected
  <2>5. InOrder(r)'
    BY <2>2, <2>3, OrderKept DEF handlerVars
  <2>6. QED
    BY <2>4, <2>5 DEF TxInv
<1>8. QED
  BY <1>1, <1>2, <1>3, <1>4, <1>5, <1>6, <1>7 DEF TxNext

(* The handler is always at some packet of some message, whose request is  *)
(* where its state says, and the words it has yet to read are queued in    *)
(* the order in which the packetizer writes them.                          *)
THEOREM HandlerKeepsItsPlace == TxSpec => []TxInv
<1>1. TxInit => TxInv
  BY TxStart
<1>2. TxInv /\ [TxNext]_vars => TxInv'
  BY TxStep
<1>3. QED
  BY <1>1, <1>2, PTL DEF TxSpec

(* The word that WritePkg writes.                                          *)
LEMMA WordWritten ==
  ASSUME TxInv, WritePkg
  PROVE  /\ granted # <<>> /\ Messages[dataQ[1].msg].session = granted[1].session
         /\ wordCnt + 1 = pkgWords <=> granted[1].words = 1
         /\ wordCnt + 1 = pkgWords <=>
              \/ Head(dataQ).word % MaxPkgWord = 0
              \/ Head(dataQ).word = Words(Messages[Head(dataQ).msg].len)
<1>1. PICK k \in Nat : \E r \in {NextRead(k)} : AtPacket(k) /\ InOrder(r)
  BY DEF TxInv
<1>2. PICK r : r = NextRead(k) /\ AtPacket(k) /\ InOrder(r)
  BY <1>1
<1>3. /\ InHand /\ k * MaxBytes < Expected
      /\ wordCnt \in Nat /\ pkgWords \in Nat /\ pkgWords = Words(PktLen(k))
      /\ wordCnt < pkgWords
      /\ Head(dataQ) = [msg |-> cmd, word |-> k * MaxPkgWord + wordCnt + 1]
      /\ dataQ[1] = Head(dataQ)
      /\ granted # <<>> /\ granted[1].words = pkgWords - wordCnt
      /\ granted[1].session = Session
  BY <1>2, WordAtHand DEF WritePkg
<1>4. wordCnt + 1 = pkgWords <=>
        \/ (k * MaxPkgWord + wordCnt + 1) % MaxPkgWord = 0
        \/ k * MaxPkgWord + wordCnt + 1 = Words(Expected)
  BY <1>3, LastWord
<1>5. Head(dataQ).word = k * MaxPkgWord + wordCnt + 1 /\ Head(dataQ).msg = cmd
  BY <1>3
<1>6. QED
  BY <1>3, <1>4, <1>5 DEF Session, Expected

(* What was written, whose elements need no type.                          *)
TxInvOut == IsSeq(out) /\ PacketsCut

LEMMA OutStart ==
  ASSUME TxInit
  PROVE  TxInvOut
  BY EmptyFacts DEF TxInit, TxInvOut, PacketsCut

LEMMA OutStep ==
  ASSUME TxInv, TxInvOut, [TxNext]_vars
  PROVE  TxInvOut'
<1>1. CASE WritePkg
  <2>1. PICK w : w = [msg |-> Head(dataQ).msg, word |-> Head(dataQ).word,
                      last |-> wordCnt + 1 = pkgWords] /\ out' = Append(out, w)
    BY <1>1 DEF WritePkg
  <2>2. /\ IsSeq(out') /\ Len(out) \in Nat
        /\ DOMAIN out' = 1 .. Len(out) + 1 /\ DOMAIN out = 1 .. Len(out)
        /\ \A i \in DOMAIN out : out'[i] = out[i]
        /\ out'[Len(out) + 1] = w
    BY <2>1, AppendFacts DEF TxInvOut
  <2>3. w.last <=> w.word % MaxPkgWord = 0 \/ w.word = Words(Messages[w.msg].len)
    <3>1. w.last <=> wordCnt + 1 = pkgWords
      BY <2>1
    <3>2. w.word = Head(dataQ).word /\ w.msg = Head(dataQ).msg
      BY <2>1
    <3>3. QED
      BY <1>1, <3>1, <3>2, WordWritten
  <2>4. ASSUME NEW i \in DOMAIN out'
        PROVE  out'[i].last <=> \/ out'[i].word % MaxPkgWord = 0
                                \/ out'[i].word = Words(Messages[out'[i].msg].len)
    <3>1. CASE i \in DOMAIN out
      BY <2>2, <3>1 DEF TxInvOut, PacketsCut
    <3>2. CASE i = Len(out) + 1
      BY <2>2, <2>3, <3>2
    <3>3. QED
      <4>1. i \in DOMAIN out \/ i = Len(out) + 1
        BY <2>2
      <4>2. QED
        BY <3>1, <3>2, <4>1
  <2>5. PacketsCut'
    BY <2>4 DEF PacketsCut, Words
  <2>6. QED
    BY <2>2, <2>5 DEF TxInvOut
<1>2. CASE ~ WritePkg
  <2>1. out' = out
    BY <1>2
       DEF TxNext, WaitCmd, WaitFirstData, Accepted, Refused, TornDown, PktCmd, PktWord,
           Accept, Refuse, LoseConnection, StackAnswers, vars
  <2>2. QED
    BY <2>1 DEF TxInvOut, PacketsCut
<1>3. QED
  BY <1>1, <1>2

LEMMA PacketsWellCut == TxSpec => []TxInvOut
<1>1. TxInit => TxInvOut
  BY OutStart
<1>2. TxInv /\ TxInvOut /\ [TxNext]_vars => TxInvOut'
  BY OutStep
<1>3. QED
  BY <1>1, <1>2, HandlerKeepsItsPlace, PTL DEF TxSpec

(* Packets end where a full one does or the message does, and nowhere else *)
(* (PacketsCut).                                                           *)
THEOREM PacketsEndRight == TxSpec => []PacketsCut
<1>1. TxInvOut => PacketsCut
  BY DEF TxInvOut
<1>2. QED
  BY <1>1, PacketsWellCut, PTL

(* Words go to the stack only for a packet it agreed to, of its connection *)
(* and as many as agreed, the last one marked (WrittenAsAgreed).           *)
THEOREM WordsAsAgreed == TxSpec => WrittenAsAgreed
<1> DEFINE Agreed == out' # out =>
             /\ granted # <<>> /\ Messages[dataQ[1].msg].session = granted[1].session
             /\ out'[Len(out')].last <=> granted[1].words = 1
<1>1. ASSUME TxInv, TxInvOut, [TxNext]_vars PROVE [Agreed]_vars
  <2>1. CASE WritePkg
    <3>1. PICK w : w = [msg |-> Head(dataQ).msg, word |-> Head(dataQ).word,
                        last |-> wordCnt + 1 = pkgWords] /\ out' = Append(out, w)
      BY <2>1 DEF WritePkg
    <3>2. out'[Len(out')] = w
      BY <1>1, <3>1, AppendFacts DEF TxInvOut
    <3>3. w.last <=> wordCnt + 1 = pkgWords
      BY <3>1
    <3>4. QED
      BY <1>1, <2>1, <3>2, <3>3, WordWritten
  <2>2. CASE ~ WritePkg
    <3>1. out' = out
      BY <1>1, <2>2
         DEF TxNext, WaitCmd, WaitFirstData, Accepted, Refused, TornDown, PktCmd, PktWord,
             Accept, Refuse, LoseConnection, StackAnswers, vars
    <3>2. QED
      BY <3>1
  <2>3. QED
    BY <2>1, <2>2
<1>2. TxSpec => [](TxInv /\ TxInvOut)
  BY HandlerKeepsItsPlace, PacketsWellCut, PTL
<1>3. QED
  BY <1>1, <1>2, PTL DEF TxSpec, WrittenAsAgreed

=============================================================================
