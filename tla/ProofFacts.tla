---------------------------- MODULE ProofFacts ----------------------------
(***************************************************************************)
(* Facts that several proofs need: what Append and Tail do to the queues   *)
(* of the models, whose elements the proofs need not type; the number of   *)
(* pieces into which a length is cut; and induction, over the members of a *)
(* set of numbers instead of a predicate.                                  *)
(***************************************************************************)
EXTENDS Integers, Sequences, TLAPS

LOCAL INSTANCE SequenceTheorems
LOCAL INSTANCE WellFoundedInduction

(* A sequence, of whatever elements.                                       *)
IsSeq(q) == \E T : q \in Seq(T)

(* A queue after a write.                                                  *)
LEMMA AppendFacts ==
  ASSUME NEW q, IsSeq(q), NEW x
  PROVE  /\ IsSeq(Append(q, x)) /\ Append(q, x) # <<>>
         /\ Len(Append(q, x)) = Len(q) + 1 /\ Len(q) \in Nat
         /\ DOMAIN Append(q, x) = 1 .. Len(q) + 1 /\ DOMAIN q = 1 .. Len(q)
         /\ \A i \in DOMAIN q : Append(q, x)[i] = q[i]
         /\ Append(q, x)[Len(q) + 1] = x
<1>1. PICK T : q \in Seq(T)
  BY DEF IsSeq
<1>2. q \in Seq(T \cup {x})
  BY <1>1
<1>3. Append(q, x) \in Seq(T \cup {x})
  BY <1>2
<1>4. QED
  BY <1>2, <1>3 DEF IsSeq

(* A queue after a read.                                                   *)
LEMMA TailFacts ==
  ASSUME NEW q, IsSeq(q), q # <<>>
  PROVE  /\ IsSeq(Tail(q)) /\ Len(Tail(q)) = Len(q) - 1 /\ Len(q) \in Nat \ {0}
         /\ DOMAIN Tail(q) = 1 .. Len(q) - 1 /\ DOMAIN q = 1 .. Len(q)
         /\ \A i \in DOMAIN Tail(q) : Tail(q)[i] = q[i + 1]
         /\ Head(q) = q[1]
<1>1. PICK T : q \in Seq(T)
  BY DEF IsSeq
<1>2. Tail(q) \in Seq(T)
  BY <1>1
<1>3. QED
  BY <1>1, <1>2 DEF IsSeq

(* An empty queue.                                                         *)
LEMMA EmptyFacts ==
  IsSeq(<<>>) /\ \A q : IsSeq(q) => Len(q) \in Nat /\ (Len(q) = 0 => q = <<>>)
<1>1. IsSeq(<<>>)
  BY DEF IsSeq
<1>2. ASSUME NEW q, IsSeq(q) PROVE Len(q) \in Nat /\ (Len(q) = 0 => q = <<>>)
  BY <1>2 DEF IsSeq
<1>3. QED
  BY <1>1, <1>2

(* A queue without the first of its elements.                              *)
LEMMA DropFacts ==
  ASSUME NEW q, IsSeq(q), NEW n \in Nat, n <= Len(q)
  PROVE  /\ IsSeq(SubSeq(q, n + 1, Len(q))) /\ Len(q) \in Nat
         /\ Len(SubSeq(q, n + 1, Len(q))) = Len(q) - n
         /\ \A i \in 1 .. Len(q) - n : SubSeq(q, n + 1, Len(q))[i] = q[i + n]
<1>1. PICK T : q \in Seq(T)
  BY DEF IsSeq
<1>2. Len(q) \in Nat /\ \A i \in 1 .. Len(q) : q[i] \in T
  BY <1>1
<1>3. \A i \in n + 1 .. Len(q) : q[i] \in T
  BY <1>2
<1>4. PICK s : s = SubSeq(q, n + 1, Len(q))
  OBVIOUS
<1>5. /\ s \in Seq(T) /\ Len(s) = IF n + 1 <= Len(q) THEN Len(q) - (n + 1) + 1 ELSE 0
      /\ \A i \in 1 .. Len(q) - (n + 1) + 1 : s[i] = q[n + 1 + i - 1]
  BY <1>2, <1>3, <1>4, SubSeqProperties
<1>6. Len(s) = Len(q) - n
  BY <1>2, <1>5
<1>7. ASSUME NEW i \in 1 .. Len(q) - n PROVE s[i] = q[i + n]
  <2>1. i \in 1 .. Len(q) - (n + 1) + 1 /\ n + 1 + i - 1 = i + n
    BY <1>2, <1>7
  <2>2. QED
    BY <1>5, <2>1
<1>8. QED
  BY <1>2, <1>4, <1>5, <1>6, <1>7 DEF IsSeq

(* Two queues in a row.                                                    *)
LEMMA ConcatFacts ==
  ASSUME NEW p, IsSeq(p), NEW q, IsSeq(q)
  PROVE  /\ IsSeq(p \o q) /\ Len(p \o q) = Len(p) + Len(q)
         /\ Len(p) \in Nat /\ Len(q) \in Nat
         /\ \A i \in 1 .. Len(p) : (p \o q)[i] = p[i]
         /\ \A i \in 1 .. Len(q) : (p \o q)[Len(p) + i] = q[i]
<1>1. PICK S, T : p \in Seq(S) /\ q \in Seq(T)
  BY DEF IsSeq
<1>2. p \in Seq(S \cup T) /\ q \in Seq(S \cup T)
  BY <1>1
<1>3. p \o q \in Seq(S \cup T)
  BY <1>2
<1>4. QED
  BY <1>2, <1>3 DEF IsSeq

(* A queue from which one element is taken.                                *)
LEMMA CutFacts ==
  ASSUME NEW q, IsSeq(q), NEW i \in 1 .. Len(q), NEW w,
         w = SubSeq(q, 1, i - 1) \o SubSeq(q, i + 1, Len(q))
  PROVE  /\ IsSeq(w) /\ Len(w) = Len(q) - 1 /\ Len(q) \in Nat /\ i \in Nat \ {0}
         /\ DOMAIN q = 1 .. Len(q) /\ DOMAIN w = 1 .. Len(q) - 1
         /\ \A j \in 1 .. Len(q) - 1 : w[j] = IF j < i THEN q[j] ELSE q[j + 1]
<1>1. PICK T : q \in Seq(T)
  BY DEF IsSeq
<1>2. Len(q) \in Nat /\ DOMAIN q = 1 .. Len(q) /\ \A j \in 1 .. Len(q) : q[j] \in T
  BY <1>1
<1>3. i \in Nat \ {0} /\ i <= Len(q)
  BY <1>2
<1>4. PICK a, b : a = SubSeq(q, 1, i - 1) /\ b = SubSeq(q, i + 1, Len(q))
  OBVIOUS
<1>5. /\ IsSeq(a) /\ Len(a) = i - 1
      /\ \A j \in 1 .. i - 1 : a[j] = q[j]
  <2>1. \A j \in 1 .. i - 1 : q[j] \in T
    BY <1>2, <1>3
  <2>2. /\ a \in Seq(T) /\ Len(a) = IF 1 <= i - 1 THEN i - 1 - 1 + 1 ELSE 0
        /\ \A j \in 1 .. i - 1 - 1 + 1 : a[j] = q[1 + j - 1]
    BY <1>3, <1>4, <2>1, SubSeqProperties
  <2>3. \A j \in 1 .. i - 1 : a[j] = q[j]
    <3>1. SUFFICES ASSUME NEW j \in 1 .. i - 1 PROVE a[j] = q[j]
      OBVIOUS
    <3>2. j \in 1 .. i - 1 - 1 + 1 /\ 1 + j - 1 = j
      BY <1>3
    <3>3. QED
      BY <2>2, <3>2
  <2>4. QED
    BY <1>3, <2>2, <2>3 DEF IsSeq
<1>6. /\ IsSeq(b) /\ Len(b) = Len(q) - i
      /\ \A j \in 1 .. Len(q) - i : b[j] = q[j + i]
  BY <1>3, <1>4, DropFacts
<1>7. /\ IsSeq(w) /\ Len(w) = Len(a) + Len(b)
      /\ \A j \in 1 .. Len(a) : w[j] = a[j]
      /\ \A j \in 1 .. Len(b) : w[Len(a) + j] = b[j]
  <2>1. IsSeq(a) /\ IsSeq(b)
    BY <1>5, <1>6
  <2>2. /\ IsSeq(a \o b) /\ Len(a \o b) = Len(a) + Len(b)
        /\ \A j \in 1 .. Len(a) : (a \o b)[j] = a[j]
        /\ \A j \in 1 .. Len(b) : (a \o b)[Len(a) + j] = b[j]
    BY <2>1, ConcatFacts
  <2>3. w = a \o b
    BY <1>4
  <2>4. QED
    BY <2>2, <2>3, Zenon
<1>8. Len(w) = Len(q) - 1 /\ DOMAIN w = 1 .. Len(w)
  <2>1. PICK v : v = w
    OBVIOUS
  <2>2. PICK U : v \in Seq(U)
    BY <1>7, <2>1 DEF IsSeq
  <2>3. DOMAIN v = 1 .. Len(v)
    BY <2>2
  <2>4. PICK m \in Nat, k \in Nat : m = Len(q) /\ k = i
    BY <1>2, <1>3
  <2>5. Len(w) = (k - 1) + (m - k)
    BY <1>5, <1>6, <1>7, <2>4
  <2>6. (k - 1) + (m - k) = m - 1
    OBVIOUS
  <2>7. QED
    BY <2>1, <2>3, <2>4, <2>5, <2>6
<1>9. ASSUME NEW j \in 1 .. Len(q) - 1
      PROVE  w[j] = IF j < i THEN q[j] ELSE q[j + 1]
  <2>1. CASE j < i
    <3>1. j \in 1 .. i - 1
      BY <1>2, <1>3, <2>1
    <3>2. QED
      BY <1>5, <1>7, <2>1, <3>1
  <2>2. CASE ~ (j < i)
    <3>1. PICK k \in 1 .. Len(q) - i : j = (i - 1) + k /\ k + i = j + 1
      <4>1. j - (i - 1) \in 1 .. Len(q) - i /\ j = (i - 1) + (j - (i - 1))
        BY <1>2, <1>3, <2>2
      <4>2. (j - (i - 1)) + i = j + 1
        BY <1>2, <1>3
      <4>3. QED
        BY <4>1, <4>2
    <3>2. w[j] = b[k]
      BY <1>5, <1>6, <1>7, <3>1
    <3>3. QED
      BY <1>6, <2>2, <3>1, <3>2
  <2>3. QED
    BY <2>1, <2>2
<1>10. QED
  BY <1>2, <1>3, <1>7, <1>8, <1>9

(* A set of numbers has a least one.                                       *)
LEMMA LeastNumber ==
  ASSUME NEW S \in SUBSET Nat, S # {}
  PROVE  \E i \in S : \A j \in S : i <= j
<1>1. PICK R : R = {p \in Nat \X Nat : p[1] < p[2]}
  OBVIOUS
<1>2. IsWellFoundedOn(R, Nat)
  BY <1>1, NatLessThanWellFounded DEF OpToRel
<1>3. PICK i \in S : \A j \in S : <<j, i>> \notin R
  BY <1>2, WFMin
<1>4. ASSUME NEW j \in S PROVE i <= j
  <2>1. <<j, i>> \in Nat \X Nat /\ <<j, i>> \notin R
    BY <1>3
  <2>2. ~ (j < i)
    BY <1>1, <2>1
  <2>3. QED
    BY <2>2
<1>5. QED
  BY <1>4

(* What holds of 0 and of the number after each holds of all.              *)
LEMMA Induction ==
  ASSUME NEW S \in SUBSET Nat, 0 \in S, \A n \in S : n + 1 \in S
  PROVE  \A n \in Nat : n \in S
<1>1. SUFFICES ASSUME NEW T, T = Nat \ S, T # {} PROVE FALSE
  OBVIOUS
<1>2. PICK i \in T : \A j \in T : i <= j
  BY <1>1, LeastNumber
<1>3. i # 0 /\ i - 1 \in Nat
  BY <1>1, <1>2
<1>4. i - 1 \in S
  BY <1>1, <1>2, <1>3
<1>5. QED
  BY <1>1, <1>2, <1>4

(* Sequences are equal if their lengths and elements are.                  *)
LEMMA SameSequence ==
  ASSUME NEW p, IsSeq(p), NEW q, IsSeq(q), Len(p) = Len(q),
         \A i \in 1 .. Len(p) : p[i] = q[i]
  PROVE  p = q
<1>1. PICK S, T : p \in Seq(S) /\ q \in Seq(T)
  BY DEF IsSeq
<1>2. p \in Seq(S \cup T) /\ q \in Seq(S \cup T)
  BY <1>1
<1>3. QED
  BY <1>2

(* A queue of one or two elements.                                         *)
LEMMA ShortQueues ==
  ASSUME NEW x
  PROVE  /\ Append(<<>>, x) = <<x>> /\ Tail(<<x>>) = <<>> /\ Head(<<x>>) = x
         /\ <<x>> # <<>> /\ <<x>>[1] = x
         /\ \A y : /\ Append(<<x>>, y) = <<x, y>> /\ Tail(<<x, y>>) = <<y>>
                   /\ <<x, y>> # <<>> /\ <<x, y>>[1] = x
<1>1. Append(<<>>, x) = <<x>> /\ Tail(<<x>>) = <<>>
  OBVIOUS
<1>2. Head(<<x>>) = x /\ <<x>> # <<>> /\ <<x>>[1] = x
  OBVIOUS
<1>3. ASSUME NEW y
      PROVE  /\ Append(<<x>>, y) = <<x, y>> /\ Tail(<<x, y>>) = <<y>>
             /\ <<x, y>> # <<>> /\ <<x, y>>[1] = x
  <2>1. <<x>> \in Seq({x}) /\ <<x, y>> \in Seq({x, y})
    OBVIOUS
  <2>2. IsSeq(<<x>>) /\ IsSeq(<<x, y>>)
    BY <2>1 DEF IsSeq
  <2>3. /\ Len(Append(<<x>>, y)) = 2 /\ IsSeq(Append(<<x>>, y))
        /\ Append(<<x>>, y)[1] = x /\ Append(<<x>>, y)[2] = y
    BY <1>2, <2>2, AppendFacts
  <2>4. Len(<<x, y>>) = 2 /\ <<x, y>>[1] = x /\ <<x, y>>[2] = y /\ <<x, y>> # <<>>
    OBVIOUS
  <2>5. Append(<<x>>, y) = <<x, y>>
    <3>1. PICK p : p = Append(<<x>>, y)
      OBVIOUS
    <3>2. Len(p) = 2 /\ IsSeq(p) /\ p[1] = x /\ p[2] = y
      BY <2>3, <3>1
    <3>3. \A i \in 1 .. Len(p) : p[i] = <<x, y>>[i]
      <4>1. \A i \in 1 .. 2 : i = 1 \/ i = 2
        OBVIOUS
      <4>2. QED
        BY <2>4, <3>2, <4>1
    <3>4. QED
      BY <2>2, <2>4, <3>1, <3>2, <3>3, SameSequence
  <2>6. Tail(<<x, y>>) = <<y>>
    OBVIOUS
  <2>7. QED
    BY <2>4, <2>5, <2>6
<1>4. QED
  BY <1>1, <1>2, <1>3

(* What passes from the second of two queues to the first leaves the two,  *)
(* taken together, as they were.                                           *)
LEMMA MoveFacts ==
  ASSUME NEW p, IsSeq(p), NEW q, IsSeq(q), q # <<>>
  PROVE  Append(p, Head(q)) \o Tail(q) = p \o q
<1>a. PICK a, b : a = Append(p, Head(q)) /\ b = Tail(q)
  OBVIOUS
<1>1. /\ IsSeq(a) /\ Len(a) = Len(p) + 1 /\ Len(p) \in Nat
      /\ DOMAIN a = 1 .. Len(p) + 1 /\ DOMAIN p = 1 .. Len(p)
      /\ \A i \in DOMAIN p : a[i] = p[i]
      /\ a[Len(p) + 1] = Head(q)
  BY <1>a, AppendFacts
<1>2. /\ IsSeq(b) /\ Len(b) = Len(q) - 1 /\ Len(q) \in Nat \ {0}
      /\ DOMAIN b = 1 .. Len(q) - 1 /\ Head(q) = q[1]
      /\ \A i \in DOMAIN b : b[i] = q[i + 1]
  BY <1>a, TailFacts
<1>3. /\ IsSeq(a \o b) /\ Len(a \o b) = Len(p) + Len(q)
      /\ \A i \in 1 .. Len(p) + 1 : (a \o b)[i] = a[i]
      /\ \A i \in 1 .. Len(q) - 1 : (a \o b)[Len(p) + 1 + i] = b[i]
  <2>1. /\ IsSeq(a \o b) /\ Len(a \o b) = Len(a) + Len(b)
        /\ \A i \in 1 .. Len(a) : (a \o b)[i] = a[i]
        /\ \A i \in 1 .. Len(b) : (a \o b)[Len(a) + i] = b[i]
    <3>1. IsSeq(a) /\ IsSeq(b)
      BY <1>1, <1>2
    <3>2. QED
      BY <3>1, ConcatFacts
  <2>2. Len(a) = Len(p) + 1 /\ Len(b) = Len(q) - 1 /\ Len(a) + Len(b) = Len(p) + Len(q)
    BY <1>1, <1>2
  <2>3. QED
    BY <2>1, <2>2
<1>4. /\ IsSeq(p \o q) /\ Len(p \o q) = Len(p) + Len(q)
      /\ \A i \in 1 .. Len(p) : (p \o q)[i] = p[i]
      /\ \A i \in 1 .. Len(q) : (p \o q)[Len(p) + i] = q[i]
  BY ConcatFacts
<1>5. ASSUME NEW i \in 1 .. Len(p) + Len(q) PROVE (a \o b)[i] = (p \o q)[i]
  <2>1. CASE i <= Len(p)
    BY <1>1, <1>3, <1>4, <2>1
  <2>2. CASE i = Len(p) + 1
    BY <1>1, <1>2, <1>3, <1>4, <2>2
  <2>3. CASE i > Len(p) + 1
    <3> DEFINE k == i - Len(p) - 1
    <3>1. k \in 1 .. Len(q) - 1 /\ i = Len(p) + 1 + k
      <4>1. i \in Nat /\ i <= Len(p) + Len(q) /\ Len(p) \in Nat /\ Len(q) \in Nat
        BY <1>1, <1>2, <1>5
      <4>2. QED
        BY <2>3, <4>1
    <3> HIDE DEF k
    <3>2. (a \o b)[i] = q[k + 1]
      BY <1>2, <1>3, <3>1
    <3>3. k + 1 \in 1 .. Len(q) /\ i = Len(p) + (k + 1)
      BY <1>1, <1>2, <3>1
    <3>4. QED
      BY <1>4, <3>2, <3>3
  <2>4. QED
    <3>1. i \in Nat /\ Len(p) \in Nat
      BY <1>1, <1>2, <1>5
    <3>2. i <= Len(p) \/ i = Len(p) + 1 \/ i > Len(p) + 1
      BY <3>1
    <3>3. QED
      BY <2>1, <2>2, <2>3, <3>2
<1>6. a \o b = p \o q
  BY <1>3, <1>4, <1>5, SameSequence
<1>7. QED
  BY <1>6, <1>a

(* The same with a third queue behind them.                                *)
LEMMA MoveBeforeFacts ==
  ASSUME NEW p, IsSeq(p), NEW q, IsSeq(q), q # <<>>, NEW r, IsSeq(r)
  PROVE  Append(p, Head(q)) \o (Tail(q) \o r) = p \o (q \o r)
<1> DEFINE Joined(x, y) == x \o y
<1>1. ASSUME NEW x, NEW y, NEW z, IsSeq(x), IsSeq(y), IsSeq(z)
      PROVE  Joined(x, Joined(y, z)) = Joined(Joined(x, y), z)
  <2>1. PICK S, T, U : x \in Seq(S) /\ y \in Seq(T) /\ z \in Seq(U)
    BY <1>1 DEF IsSeq
  <2>2. x \in Seq(S \cup T \cup U) /\ y \in Seq(S \cup T \cup U)
        /\ z \in Seq(S \cup T \cup U)
    BY <2>1
  <2>3. QED
    BY <2>2
<1>2. IsSeq(Append(p, Head(q))) /\ IsSeq(Tail(q))
  BY AppendFacts, TailFacts
<1>3. Joined(Append(p, Head(q)), Tail(q)) = Joined(p, q)
  BY MoveFacts
<1>4. Joined(Append(p, Head(q)), Joined(Tail(q), r)) = Joined(p, Joined(q, r))
  <2> HIDE DEF Joined
  <2>1. Joined(Append(p, Head(q)), Joined(Tail(q), r))
          = Joined(Joined(Append(p, Head(q)), Tail(q)), r)
    BY <1>1, <1>2
  <2>2. Joined(p, Joined(q, r)) = Joined(Joined(p, q), r)
    BY <1>1
  <2>3. QED
    BY <1>3, <2>1, <2>2
<1>5. QED
  BY <1>4

-----------------------------------------------------------------------------
(* The quotient that rounds up.                                            *)
LEMMA Quotient ==
  ASSUME NEW b \in Nat, NEW d \in Nat, d > 0
  PROVE  /\ (b + d - 1) \div d \in Nat
         /\ ((b + d - 1) \div d) * d < b + d
         /\ b <= ((b + d - 1) \div d) * d
<1>1. PICK n \in Nat : n = b + d - 1
  OBVIOUS
<1>2. n \div d \in Nat /\ n <= (n \div d) * d + d - 1 /\ (n \div d) * d <= n
  BY <1>1
<1>3. PICK q \in Nat : q = n \div d /\ n <= q * d + d - 1 /\ q * d <= n
  BY <1>2
<1>4. q * d \in Nat
  OBVIOUS
<1>5. QED
  BY <1>1, <1>3, <1>4

(* It is the one number of pieces.                                         *)
LEMMA QuotientUnique ==
  ASSUME NEW b \in Nat, NEW d \in Nat, d > 0, NEW k \in Nat, k * d < b + d, b <= k * d
  PROVE  (b + d - 1) \div d = k
<1>1. PICK q \in Nat : /\ q = (b + d - 1) \div d
                       /\ q * d < b + d /\ b <= q * d
  BY Quotient
<1>2. ASSUME NEW x \in Nat, NEW y \in Nat, x < y, b <= x * d, y * d < b + d PROVE FALSE
  <2>1. y * d = x * d + (y - x) * d
    OBVIOUS
  <2>2. (y - x) * d = d + (y - x - 1) * d /\ (y - x - 1) * d \in Nat
    BY <1>2
  <2>3. x * d \in Nat /\ y * d \in Nat
    OBVIOUS
  <2>4. QED
    BY <1>2, <2>1, <2>2, <2>3
<1>3. ~ (k < q) /\ ~ (q < k)
  BY <1>1, <1>2
<1>4. QED
  BY <1>1, <1>3

(* The remainder of what is left over.                                     *)
LEMMA Remainder ==
  ASSUME NEW k \in Nat, NEW d \in Nat, NEW x \in Nat, x < d
  PROVE  (k * d + x) % d = x
<1>1. PICK e \in Nat : e = k * d + x
  OBVIOUS
<1>2. PICK q \in Nat, y \in Nat : q = e \div d /\ y = e % d /\ y < d /\ e = q * d + y
  BY <1>1
<1>3. PICK kd \in Nat, qd \in Nat : kd = k * d /\ qd = q * d
  BY <1>2
<1>4. ASSUME NEW j \in Nat, q = k + 1 + j PROVE FALSE
  <2>1. (k + 1 + j) * d = k * d + d + j * d /\ j * d \in Nat
    OBVIOUS
  <2>2. QED
    BY <1>1, <1>2, <1>3, <1>4, <2>1
<1>5. ASSUME NEW j \in Nat, k = q + 1 + j PROVE FALSE
  <2>1. (q + 1 + j) * d = q * d + d + j * d /\ j * d \in Nat
    BY <1>2
  <2>2. QED
    BY <1>1, <1>2, <1>3, <1>5, <2>1
<1>6. ~ (q > k)
  <2>1. q > k => q - k - 1 \in Nat /\ q = k + 1 + (q - k - 1)
    BY <1>2
  <2>2. QED
    BY <1>4, <2>1
<1>7. ~ (k > q)
  <2>1. k > q => k - q - 1 \in Nat /\ k = q + 1 + (k - q - 1)
    BY <1>2
  <2>2. QED
    BY <1>5, <2>1
<1>8. QED
  BY <1>1, <1>2, <1>3, <1>6, <1>7

=============================================================================
