--------------------------- MODULE MediaUv_proofs ---------------------------
(***************************************************************************)
(* Memory, order and answers of an asynchronous connection, for any list   *)
(* of servers and any number of messages, pipes and events.                *)
(*                                                                         *)
(* The C functions are operators from the memory t of the client to the    *)
(* memory r they leave.  The first part is about the queues, the second    *)
(* says what every function keeps, the third that every callback does.     *)
(***************************************************************************)
EXTENDS MediaUv, SequenceTheorems, WellFoundedInduction, TLAPS

-----------------------------------------------------------------------------
(* 1. Queues                                                               *)

\* A set of natural numbers that is not empty has a least one.
LEMMA LeastNat ==
    ASSUME NEW S, S \subseteq Nat, S # {}
    PROVE  \E x \in S : \A y \in S : x <= y
<1> DEFINE R == {ss \in Nat \X Nat : ss[1] < ss[2]}
<1>1. IsWellFoundedOn(R, Nat)
  BY NatLessThanWellFounded DEF OpToRel
<1> HIDE DEF R
<1>2. PICK x \in S : \A y \in S : ~ (<<y, x>> \in R)
  BY <1>1, WFMin
<1>3. ASSUME NEW y \in S PROVE x <= y
  <2>1. x \in Nat /\ y \in Nat
    OBVIOUS
  <2>2. y < x => <<y, x>> \in R
    BY <2>1 DEF R
  <2>3. QED
    BY <1>2, <2>1, <2>2
<1>4. QED
  BY <1>3

\* q without the message at p.
Cut(q, p) == SubSeq(q, 1, p - 1) \o SubSeq(q, p + 1, Len(q))

\* TAILQ_REMOVE takes one message out, if it is there.
LEMMA RemoveFirstCuts ==
    ASSUME NEW q \in Seq(Message), NEW w
    PROVE  \/ RemoveFirst(q, w) = q /\ \A i \in 1 .. Len(q) : q[i] # w
           \/ \E p \in 1 .. Len(q) :
                 /\ q[p] = w /\ \A i \in 1 .. p - 1 : q[i] # w
                 /\ RemoveFirst(q, w) = Cut(q, p)
<1>1. CASE \E i \in 1 .. Len(q) : q[i] = w
  <2> DEFINE I == {i \in 1 .. Len(q) : q[i] = w}
  <2>1. I \subseteq Nat /\ I # {}
    BY <1>1
  <2>2. PICK p \in I : \A y \in I : p <= y
    BY <2>1, LeastNat
  <2>3. \A x \in I : (\A y \in I : x <= y) => x = p
    BY <2>1, <2>2
  <2>4. p = (CHOOSE x \in I : \A y \in I : x <= y)
    BY <2>2, <2>3
  <2>5. RemoveFirst(q, w) = Cut(q, p)
    BY <1>1, <2>4 DEF RemoveFirst, RemoveAt, SelectInSeq, Min, Cut
  <2>6. p \in 1 .. Len(q) /\ q[p] = w
    OBVIOUS
  <2>7. Len(q) \in Nat
    OBVIOUS
  <2>8. \A i \in 1 .. p - 1 : q[i] # w
    <3> SUFFICES ASSUME NEW i \in 1 .. p - 1, q[i] = w PROVE FALSE
      OBVIOUS
    <3>1. i \in I
      BY <2>6, <2>7
    <3>2. QED
      BY <2>2, <2>6, <2>7, <3>1
  <2>9. QED
    BY <2>5, <2>6, <2>8
<1>2. CASE ~ \E i \in 1 .. Len(q) : q[i] = w
  BY <1>2 DEF RemoveFirst
<1>3. QED
  BY <1>1, <1>2

LEMMA CutElements ==
    ASSUME NEW q \in Seq(Message), NEW p \in 1 .. Len(q)
    PROVE  /\ Cut(q, p) \in Seq(Message) /\ Len(Cut(q, p)) = Len(q) - 1
           /\ \A i \in 1 .. Len(q) - 1 : Cut(q, p)[i] = IF i < p THEN q[i] ELSE q[i + 1]
<1> DEFINE a == SubSeq(q, 1, p - 1)
           b == SubSeq(q, p + 1, Len(q))
<1>1. Len(q) \in Nat /\ p \in Nat /\ p <= Len(q) /\ 1 <= p
  OBVIOUS
<1>2. \A i \in 1 .. Len(q) : q[i] \in Message
  OBVIOUS
<1>3. /\ a \in Seq(Message) /\ Len(a) = p - 1
      /\ \A i \in 1 .. p - 1 : a[i] = q[i]
  <2>1. \A i \in 1 .. p - 1 : q[i] \in Message
    BY <1>1, <1>2
  <2>2. /\ a \in Seq(Message) /\ Len(a) = IF 1 <= p - 1 THEN p - 1 - 1 + 1 ELSE 0
        /\ \A i \in 1 .. p - 1 - 1 + 1 : a[i] = q[1 + i - 1]
    BY <1>1, <2>1, SubSeqProperties
  <2> HIDE DEF a
  <2>3. Len(a) = p - 1 /\ p - 1 - 1 + 1 = p - 1
    BY <1>1, <2>2
  <2>4. ASSUME NEW i \in 1 .. p - 1 PROVE a[i] = q[i]
    <3>1. i \in 1 .. p - 1 - 1 + 1 /\ 1 + i - 1 = i
      BY <1>1
    <3>2. QED
      BY <2>2, <3>1
  <2>5. QED
    BY <2>2, <2>3, <2>4
<1>4. /\ b \in Seq(Message) /\ Len(b) = Len(q) - p
      /\ \A i \in 1 .. Len(q) - p : b[i] = q[p + i]
  <2>1. \A i \in p + 1 .. Len(q) : q[i] \in Message
    BY <1>1, <1>2
  <2>2. /\ b \in Seq(Message) /\ Len(b) = IF p + 1 <= Len(q) THEN Len(q) - (p + 1) + 1 ELSE 0
        /\ \A i \in 1 .. Len(q) - (p + 1) + 1 : b[i] = q[p + 1 + i - 1]
    BY <1>1, <2>1, SubSeqProperties
  <2> HIDE DEF b
  <2>3. Len(b) = Len(q) - p
    BY <1>1, <2>2
  <2>4. ASSUME NEW i \in 1 .. Len(q) - p PROVE b[i] = q[p + i]
    <3>1. i \in 1 .. Len(q) - (p + 1) + 1 /\ p + 1 + i - 1 = p + i
      BY <1>1
    <3>2. QED
      BY <2>2, <3>1
  <2>5. QED
    BY <2>2, <2>3, <2>4
<1>5. Cut(q, p) = a \o b
  BY DEF Cut
<1> HIDE DEF a, b
<1>6. /\ a \o b \in Seq(Message) /\ Len(a \o b) = Len(a) + Len(b)
      /\ \A i \in 1 .. Len(a) + Len(b) : (a \o b)[i] = IF i <= Len(a) THEN a[i] ELSE b[i - Len(a)]
  BY <1>3, <1>4, ConcatProperties
<1>7. ASSUME NEW i \in 1 .. Len(q) - 1
      PROVE  Cut(q, p)[i] = IF i < p THEN q[i] ELSE q[i + 1]
  <2>1. i \in 1 .. Len(a) + Len(b)
    BY <1>1, <1>3, <1>4
  <2>2. CASE i < p
    BY <1>1, <1>3, <1>5, <1>6, <2>1, <2>2
  <2>3. CASE ~ (i < p)
    <3>1. i - (p - 1) \in 1 .. Len(q) - p /\ p + (i - (p - 1)) = i + 1
      BY <1>1, <2>3
    <3>2. Cut(q, p)[i] = b[i - (p - 1)]
      BY <1>1, <1>3, <1>5, <1>6, <2>1, <2>3
    <3>3. QED
      BY <1>4, <2>3, <3>1, <3>2
  <2>4. QED
    BY <2>2, <2>3
<1>8. QED
  BY <1>1, <1>3, <1>4, <1>5, <1>6, <1>7

\* The messages of r are some of those of q, in the same order.
Sub(r, q) ==
    /\ \A i \in 1 .. Len(r) : \E k \in 1 .. Len(q) : r[i] = q[k]
    /\ \A i, j \in 1 .. Len(r) : i < j =>
          \E k, n \in 1 .. Len(q) : k < n /\ r[i] = q[k] /\ r[j] = q[n]

LEMMA SubSame == ASSUME NEW q PROVE Sub(q, q)
BY DEF Sub

LEMMA TailSub ==
    ASSUME NEW q \in Seq(Message), q # <<>>
    PROVE  /\ Tail(q) \in Seq(Message) /\ Head(q) \in Message /\ Head(q) = q[1] /\ 1 \in 1 .. Len(q)
           /\ Len(q) \in Nat /\ Len(Tail(q)) = Len(q) - 1
           /\ \A i \in 1 .. Len(q) - 1 : Tail(q)[i] = q[i + 1]
           /\ Sub(Tail(q), q)
<1>1. /\ Tail(q) \in Seq(Message) /\ Head(q) \in Message /\ Head(q) = q[1]
      /\ Len(q) \in Nat \ {0} /\ Len(Tail(q)) = Len(q) - 1
      /\ \A i \in 1 .. Len(q) - 1 : Tail(q)[i] = q[i + 1]
  BY HeadTailProperties, EmptySeq
<1>2. PICK r : r = Tail(q)
  OBVIOUS
<1>3. Sub(r, q)
  <2>1. \A i \in 1 .. Len(r) : i + 1 \in 1 .. Len(q) /\ r[i] = q[i + 1]
    BY <1>1, <1>2
  <2>2. QED
    BY <2>1 DEF Sub
<1>4. QED
  BY <1>1, <1>2, <1>3

LEMMA RemoveSub ==
    ASSUME NEW q \in Seq(Message), NEW w
    PROVE  RemoveFirst(q, w) \in Seq(Message) /\ Sub(RemoveFirst(q, w), q)
<1>1. PICK r : r = RemoveFirst(q, w)
  OBVIOUS
<1>2. CASE r = q
  BY <1>1, <1>2, SubSame
<1>3. ASSUME NEW p \in 1 .. Len(q), r = Cut(q, p)
      PROVE  r \in Seq(Message) /\ Sub(r, q)
  <2>1. /\ r \in Seq(Message) /\ Len(r) = Len(q) - 1 /\ Len(q) \in Nat
        /\ \A i \in 1 .. Len(q) - 1 : r[i] = IF i < p THEN q[i] ELSE q[i + 1]
    <3>1. /\ Cut(q, p) \in Seq(Message) /\ Len(Cut(q, p)) = Len(q) - 1
          /\ \A i \in 1 .. Len(q) - 1 : Cut(q, p)[i] = IF i < p THEN q[i] ELSE q[i + 1]
      BY CutElements
    <3>2. QED
      BY <1>3, <3>1
  <2>2. ASSUME NEW i \in 1 .. Len(r)
        PROVE  (IF i < p THEN i ELSE i + 1) \in 1 .. Len(q) /\ r[i] = q[IF i < p THEN i ELSE i + 1]
    BY <2>1
  <2>3. \A i, j \in 1 .. Len(r) : i < j => (IF i < p THEN i ELSE i + 1) < (IF j < p THEN j ELSE j + 1)
    BY <2>1
  <2>4. QED
    BY <2>1, <2>2, <2>3 DEF Sub
<1>4. QED
  BY <1>1, <1>2, <1>3, RemoveFirstCuts

\* A message at the end.
LEMMA Appended ==
    ASSUME NEW S, NEW q \in Seq(S), NEW x \in S
    PROVE  /\ Append(q, x) \in Seq(S)
           /\ Len(q) \in Nat /\ Len(Append(q, x)) = Len(q) + 1
           /\ Append(q, x)[Len(q) + 1] = x
           /\ \A i \in 1 .. Len(q) : Append(q, x)[i] = q[i]
BY AppendProperties

\* The recursive function of Acked, up to message m.
Picking(q, m, f) ==
    f = [n \in 0 .. m |-> IF n = 0 THEN <<>>
                          ELSE IF Ack(q[n]) THEN Append(f[n - 1], q[n])
                          ELSE f[n - 1]]

\* The function exists, so that it satisfies its equation.
LEMMA PickingExists ==
    ASSUME NEW q, NEW m \in Nat
    PROVE  \E f : Picking(q, m, f)
<1> DEFINE S == {n \in Nat : ~ \E f : Picking(q, n, f)}
<1>1. SUFFICES ASSUME S # {} PROVE FALSE
  OBVIOUS
<1>2. PICK n \in S : \A y \in S : n <= y
  BY <1>1, LeastNat
<1>3. CASE n = 0
  <2> DEFINE f == [k \in 0 .. 0 |-> <<>>]
  <2>1. Picking(q, 0, f)
    BY DEF Picking
  <2>2. QED
    BY <1>3, <2>1
<1>4. CASE n # 0
  <2>1. n - 1 \in Nat /\ n - 1 \notin S
    BY <1>2, <1>4
  <2>2. PICK r : Picking(q, n - 1, r)
    BY <2>1
  <2> DEFINE last == IF Ack(q[n]) THEN Append(r[n - 1], q[n]) ELSE r[n - 1]
             f    == [k \in 0 .. n |-> IF k = n THEN last ELSE r[k]]
  <2>3. \A k \in 0 .. n - 1 : r[k] = IF k = 0 THEN <<>>
                                     ELSE IF Ack(q[k]) THEN Append(r[k - 1], q[k])
                                     ELSE r[k - 1]
    BY <2>2 DEF Picking
  <2>4. ASSUME NEW k \in 0 .. n
        PROVE  f[k] = IF k = 0 THEN <<>>
                      ELSE IF Ack(q[k]) THEN Append(f[k - 1], q[k])
                      ELSE f[k - 1]
    <3>1. CASE k = n
      <4>1. f[k] = last /\ f[k - 1] = r[n - 1]
        BY <3>1, <1>4, <1>2
      <4>2. QED
        BY <4>1, <3>1, <1>4
    <3>2. CASE k # n
      <4>1. k \in 0 .. n - 1 /\ f[k] = r[k]
        BY <3>2
      <4>2. k # 0 => f[k - 1] = r[k - 1]
        BY <4>1
      <4> HIDE DEF f
      <4>3. QED
        BY <4>1, <4>2, <2>3
    <3>3. QED
      BY <3>1, <3>2
  <2>5. f = [k \in 0 .. n |-> f[k]]
    OBVIOUS
  <2> HIDE DEF f
  <2>6. Picking(q, n, f)
    BY <2>4, <2>5 DEF Picking
  <2>7. QED
    BY <2>6
<1>5. QED
  BY <1>3, <1>4

\* Two of them agree as far as both go.
LEMMA PickingAgrees ==
    ASSUME NEW q, NEW q1, NEW m \in Nat, NEW m1 \in Nat, m <= m1, NEW f, NEW f1,
           Picking(q, m, f), Picking(q1, m1, f1), \A i \in 1 .. m : q[i] = q1[i]
    PROVE  \A k \in 0 .. m : f[k] = f1[k]
<1> DEFINE S == {k \in 0 .. m : f[k] # f1[k]}
<1>1. SUFFICES ASSUME S # {} PROVE FALSE
  OBVIOUS
<1>2. S \subseteq Nat
  OBVIOUS
<1>3. PICK n \in S : \A y \in S : n <= y
  BY <1>1, <1>2, LeastNat
<1>4. n \in 0 .. m /\ n \in 0 .. m1 /\ f[n] # f1[n]
  OBVIOUS
<1>5. n # 0
  BY <1>4 DEF Picking
<1>6. n - 1 \in 0 .. m /\ n - 1 \notin S
  BY <1>3, <1>4, <1>5
<1>7. f[n - 1] = f1[n - 1]
  BY <1>6
<1>8. q[n] = q1[n]
  BY <1>4, <1>5
<1>9. f[n] = IF Ack(q[n]) THEN Append(f[n - 1], q[n]) ELSE f[n - 1]
  BY <1>4, <1>5 DEF Picking
<1>10. f1[n] = IF Ack(q1[n]) THEN Append(f1[n - 1], q1[n]) ELSE f1[n - 1]
  BY <1>4, <1>5 DEF Picking
<1>11. QED
  BY <1>4, <1>7, <1>8, <1>9, <1>10

\* Acked is the value of such a function.
LEMMA AckedPicked ==
    ASSUME NEW q \in Seq(Message)
    PROVE  \E f : Picking(q, Len(q), f) /\ Acked(q) = f[Len(q)]
<1> DEFINE F(f) == f = [n \in 0 .. Len(q) |->
                           IF n = 0 THEN <<>>
                           ELSE IF Ack(q[n]) THEN Append(f[n - 1], q[n]) ELSE f[n - 1]]
           f0   == CHOOSE f : F(f)
<1>1. Acked(q) = f0[Len(q)]
  BY DEF Acked
<1>2. Len(q) \in Nat
  OBVIOUS
<1>3. PICK r : Picking(q, Len(q), r)
  BY <1>2, PickingExists
<1>4. F(r)
  BY <1>3 DEF Picking
<1> HIDE DEF F
<1>5. F(f0)
  BY <1>4
<1>6. Picking(q, Len(q), f0)
  <2> HIDE DEF f0
  <2>1. QED
    BY <1>5 DEF F, Picking
<1>7. QED
  BY <1>1, <1>6

LEMMA AckedNone == Acked(<<>>) = <<>>
<1>1. <<>> \in Seq(Message) /\ Len(<<>>) = 0
  BY EmptySeq
<1>2. PICK f : Picking(<<>>, 0, f) /\ Acked(<<>>) = f[0]
  BY <1>1, AckedPicked
<1>3. QED
  BY <1>2 DEF Picking

LEMMA AckedAppend ==
    ASSUME NEW q \in Seq(Message), NEW w \in Message
    PROVE  Acked(Append(q, w)) = IF Ack(w) THEN Append(Acked(q), w) ELSE Acked(q)
<1>0. PICK n : n = Len(q)
  OBVIOUS
<1>1. PICK p : p = Append(q, w)
  OBVIOUS
<1>2. p \in Seq(Message) /\ n \in Nat /\ Len(p) = n + 1 /\ p[n + 1] = w
      /\ \A i \in 1 .. n : q[i] = p[i]
  BY <1>0, <1>1, Appended
<1>3. PICK f : Picking(q, n, f) /\ Acked(q) = f[n]
  BY <1>0, AckedPicked
<1>4. PICK g : Picking(p, n + 1, g) /\ Acked(p) = g[n + 1]
  BY <1>2, AckedPicked
<1>5. f[n] = g[n]
  <2>1. n + 1 \in Nat /\ n <= n + 1 /\ n \in 0 .. n
    BY <1>2
  <2>2. \A k \in 0 .. n : f[k] = g[k]
    BY <1>2, <1>3, <1>4, <2>1, PickingAgrees
  <2>3. QED
    BY <2>1, <2>2
<1>6. g[n + 1] = IF Ack(p[n + 1]) THEN Append(g[n], p[n + 1]) ELSE g[n]
  <2>1. PICK m : m = n + 1
    OBVIOUS
  <2>2. m \in 0 .. m /\ m # 0 /\ m - 1 = n
    BY <1>2, <2>1
  <2>3. g[m] = IF Ack(p[m]) THEN Append(g[m - 1], p[m]) ELSE g[m - 1]
    BY <1>4, <2>1, <2>2 DEF Picking
  <2>4. QED
    BY <2>1, <2>2, <2>3
<1>7. QED
  BY <1>1, <1>2, <1>3, <1>4, <1>5, <1>6

LEMMA ConcatAppend ==
    ASSUME NEW a \in Seq(Message), NEW b \in Seq(Message), NEW w \in Message
    PROVE  a \o Append(b, w) = Append(a \o b, w) /\ Append(b, w) \in Seq(Message) /\ a \o b \in Seq(Message)
<1>1. <<w>> \in Seq(Message)
  OBVIOUS
<1>2. PICK v \in Seq(Message) : v = <<w>>
  BY <1>1
<1>3. a \o b \in Seq(Message)
  BY ConcatProperties
<1>4. Append(b, w) = b \o v /\ Append(a \o b, w) = (a \o b) \o v
  BY <1>2, <1>3, AppendIsConcat
<1>5. (a \o b) \o v = a \o (b \o v)
  BY ConcatAssociative
<1>6. Append(b, w) \in Seq(Message)
  BY AppendProperties
<1>7. QED
  BY <1>3, <1>4, <1>5, <1>6, Zenon

\* Acked of two queues that stand one behind the other.
LEMMA AckedConcat ==
    ASSUME NEW a \in Seq(Message), NEW b \in Seq(Message), Acked(a) \in Seq(Message)
    PROVE  Acked(b) \in Seq(Message) /\ Acked(a \o b) = Acked(a) \o Acked(b)
<1> DEFINE Holds(c) == Acked(c) \in Seq(Message) /\ Acked(a \o c) = Acked(a) \o Acked(c)
           S == {n \in Nat : \E c \in Seq(Message) : Len(c) = n /\ ~ Holds(c)}
<1>1. SUFFICES ASSUME ~ Holds(b) PROVE FALSE
  OBVIOUS
<1>2. Len(b) \in S
  BY <1>1
<1>3. PICK n \in S : \A y \in S : n <= y
  BY <1>2, LeastNat
<1>4. PICK c \in Seq(Message) : Len(c) = n /\ ~ Holds(c)
  OBVIOUS
<1>5. CASE c = <<>>
  <2>1. Acked(c) = <<>> /\ a \o c = a /\ Acked(a) \o <<>> = Acked(a) /\ <<>> \in Seq(Message)
    BY <1>5, AckedNone, ConcatEmptySeq, EmptySeq
  <2>2. QED
    BY <1>4, <2>1
<1>6. CASE c # <<>>
  <2>1. PICK d \in Seq(Message), w \in Message : c = Append(d, w)
    BY <1>6, SequenceEmptyOrAppend
  <2>2. Len(d) \in Nat /\ Len(c) = Len(d) + 1
    BY <2>1, Appended
  <2>3. Len(d) \notin S
    <3>1. n \in Nat /\ ~ (n <= Len(d))
      BY <1>4, <2>2
    <3> HIDE DEF S
    <3>2. QED
      BY <1>3, <3>1
  <2>4. Holds(d)
    BY <2>2, <2>3
  <2>5. Acked(c) = IF Ack(w) THEN Append(Acked(d), w) ELSE Acked(d)
    BY <2>1, AckedAppend
  <2>6. PICK e : e = a \o d
    OBVIOUS
  <2>7. e \in Seq(Message) /\ a \o c = Append(e, w)
    <3> HIDE DEF Holds, S
    <3>1. QED
      BY <2>1, <2>6, ConcatAppend
  <2>8. Acked(a \o c) = IF Ack(w) THEN Append(Acked(e), w) ELSE Acked(e)
    BY <2>7, AckedAppend
  <2>9. Acked(e) = Acked(a) \o Acked(d)
    BY <2>4, <2>6
  <2>10. PICK x \in Seq(Message), y \in Seq(Message) : x = Acked(a) /\ y = Acked(d)
    BY <2>4
  <2>12. x \o Append(y, w) = Append(x \o y, w) /\ Append(y, w) \in Seq(Message)
    <3> HIDE DEF Holds, S
    <3>1. QED
      BY <2>1, <2>10, ConcatAppend
  <2>13. Holds(c)
    BY <2>5, <2>8, <2>9, <2>10, <2>12
  <2>14. QED
    BY <1>4, <2>13
<1>7. QED
  BY <1>5, <1>6

-----------------------------------------------------------------------------
(* 2. The inductive invariant                                              *)

Distinct(q)  == \A i, j \in 1 .. Len(q) : q[i].id = q[j].id => i = j
NotIn(q, n)  == \A i \in 1 .. Len(q) : q[i].id # n
UpTo(q, n)   == \A i \in 1 .. Len(q) : q[i].id <= n

\* Messages whose order the application relies on.
Asked(w) == w.code \in {"call", "cast", "close"}
Increasing(q) == \A i, j \in 1 .. Len(q) : i < j /\ Asked(q[i]) /\ Asked(q[j]) => q[i].id < q[j].id
Below(q, w) == Asked(w) => \A i \in 1 .. Len(q) : Asked(q[i]) => q[i].id < w.id
Above(q, w) == Asked(w) => \A i \in 1 .. Len(q) : Asked(q[i]) => w.id < q[i].id

LEMMA EmptyKeeps ==
    /\ <<>> \in Seq(Message) /\ Len(<<>>) = 0
    /\ Distinct(<<>>) /\ Increasing(<<>>)
    /\ \A n : NotIn(<<>>, n) /\ UpTo(<<>>, n) /\ Below(<<>>, n) /\ Above(<<>>, n)
<1>1. <<>> \in Seq(Message) /\ Len(<<>>) = 0
  BY EmptySeq
<1>2. QED
  BY <1>1 DEF Distinct, Increasing, NotIn, UpTo, Below, Above

LEMMA SubKeeps ==
    ASSUME NEW q \in Seq(Message), NEW r \in Seq(Message), Sub(r, q)
    PROVE  /\ Distinct(q) => Distinct(r)
           /\ Increasing(q) => Increasing(r)
           /\ \A n : NotIn(q, n) => NotIn(r, n)
           /\ \A n : UpTo(q, n) => UpTo(r, n)
           /\ \A w : Below(q, w) => Below(r, w)
           /\ \A w : Above(q, w) => Above(r, w)
<1>1. Len(q) \in Nat /\ Len(r) \in Nat
  OBVIOUS
<1>2. \A i \in 1 .. Len(r) : \E k \in 1 .. Len(q) : r[i] = q[k]
  BY DEF Sub
<1>3. ASSUME Distinct(q) PROVE Distinct(r)
  <2>1. ASSUME NEW i \in 1 .. Len(r), NEW j \in 1 .. Len(r), i < j PROVE r[i].id # r[j].id
    <3>1. PICK k \in 1 .. Len(q), n \in 1 .. Len(q) : k < n /\ r[i] = q[k] /\ r[j] = q[n]
      BY <2>1 DEF Sub
    <3>2. QED
      BY <3>1, <1>3 DEF Distinct
  <2>2. QED
    BY <2>1 DEF Distinct
<1>4. ASSUME Increasing(q) PROVE Increasing(r)
  <2>1. ASSUME NEW i \in 1 .. Len(r), NEW j \in 1 .. Len(r), i < j, Asked(r[i]), Asked(r[j])
        PROVE  r[i].id < r[j].id
    <3>1. PICK k \in 1 .. Len(q), n \in 1 .. Len(q) : k < n /\ r[i] = q[k] /\ r[j] = q[n]
      BY <2>1 DEF Sub
    <3>2. QED
      BY <2>1, <3>1, <1>4 DEF Increasing
  <2>2. QED
    BY <2>1 DEF Increasing
<1>5. QED
  BY <1>2, <1>3, <1>4 DEF NotIn, UpTo, Below, Above

LEMMA AppendKeeps ==
    ASSUME NEW q \in Seq(Message), NEW w \in Message, NEW r, r = Append(q, w)
    PROVE  /\ r \in Seq(Message) /\ r # <<>>
           /\ Distinct(q) /\ NotIn(q, w.id) => Distinct(r)
           /\ Increasing(q) /\ Below(q, w) => Increasing(r)
           /\ \A n : NotIn(q, n) /\ n # w.id => NotIn(r, n)
           /\ \A n : UpTo(q, n) /\ w.id <= n => UpTo(r, n)
           /\ \A v : Below(q, v) /\ (Asked(v) /\ Asked(w) => w.id < v.id) => Below(r, v)
           /\ \A v : Above(q, v) /\ (Asked(v) /\ Asked(w) => v.id < w.id) => Above(r, v)
<1>1. /\ r \in Seq(Message) /\ Len(q) \in Nat /\ Len(r) = Len(q) + 1
      /\ r[Len(q) + 1] = w /\ \A i \in 1 .. Len(q) : r[i] = q[i]
  BY Appended
<1>2. \A i \in 1 .. Len(r) : (i \in 1 .. Len(q) /\ r[i] = q[i]) \/ (i = Len(q) + 1 /\ r[i] = w)
  <2>1. PICK n \in Nat : n = Len(q)
    BY <1>1
  <2>2. \A i \in 1 .. n + 1 : i \in 1 .. n \/ i = n + 1
    BY <2>1
  <2>3. QED
    BY <1>1, <2>1, <2>2
<1>3. r # <<>>
  BY <1>1, EmptySeq
<1>4. Distinct(q) /\ NotIn(q, w.id) => Distinct(r)
  BY <1>2 DEF Distinct, NotIn
<1>5. Increasing(q) /\ Below(q, w) => Increasing(r)
  BY <1>1, <1>2 DEF Increasing, Below
<1>6. QED
  BY <1>1, <1>2, <1>3, <1>4, <1>5 DEF NotIn, UpTo, Below, Above

\* A pipe that was left behind and is not closed yet; the pipe in use is not
\* polled before j is closed.
Behind(t, j) == t.pipes[j] = "closing" /\ j # t.cpipe /\ j # t.epipe
Waiting(t, j) ==
    \/ t.cpipe # NULL /\ j < t.cpipe /\ t.pipes[t.cpipe] = "connecting"
    \/ t.epipe # NULL /\ j < t.epipe /\ t.pipes[t.epipe] = "open"

Piped(t) ==
    /\ t.cpipe # NULL => /\ t.cpipe \in DOMAIN t.pipes /\ t.cpipe # t.epipe
                         /\ t.pipes[t.cpipe] \in {"connecting", "open", "closing"}
    /\ t.epipe # NULL => /\ t.epipe \in DOMAIN t.pipes
                         /\ t.pipes[t.epipe] \in {"listening", "open", "closing"}
    /\ \A k \in DOMAIN t.pipes :
          k # t.cpipe /\ k # t.epipe => t.pipes[k] \in {"closing", "closed"}
    /\ \A k \in t.shutting : k \in DOMAIN t.pipes /\ k # t.epipe /\ t.pipes[k] \in {"open", "closing"}
    /\ \A j \in DOMAIN t.pipes : Behind(t, j) => Waiting(t, j)
    /\ t.cpipe = NULL => t.due = <<>>

\* No writing is known for number n, but perhaps one in pendq or on the wire.
Unused(t, n) == n \notin t.written \cup t.freed /\ NotIn(t.due, n) /\ NotIn(t.sentq, n)

Memory(t) ==
    /\ Distinct(t.pendq) /\ Distinct(t.due) /\ Distinct(t.sentq)
    /\ UpTo(t.pendq, t.ids) /\ UpTo(t.due, t.ids) /\ UpTo(t.sentq, t.ids) /\ UpTo(t.wire, t.ids)
    /\ \A i \in 1 .. Len(t.pendq) : Unused(t, t.pendq[i].id)
    /\ \A i \in 1 .. Len(t.due) : t.due[i].id \notin t.written \cup t.freed
    /\ \A n \in t.written \cup t.freed : n <= t.ids

Linked(t) ==
    /\ "CONNECTING" \in t.flags => t.epipe = NULL /\ Len(t.sentq) <= 1
    /\ \A i \in 1 .. Len(t.sentq) : t.sentq[i].code = "open" <=> "CONNECTING" \in t.flags
    /\ \A i \in 1 .. Len(t.pendq) : t.pendq[i].code # "open"
    /\ t.cpipe # NULL /\ t.pipes[t.cpipe] = "connecting" =>
          "CONNECTING" \in t.flags /\ t.sentq = <<>> /\ t.wire = <<>> /\ t.answers = <<>>

Ordered(t) ==
    /\ Increasing(t.wire) /\ Increasing(t.pendq)
    /\ \A j \in 1 .. Len(t.pendq) : Below(t.wire, t.pendq[j])

Released(t) ==
    t.released > 0 => /\ t.released = 1 /\ "DISCONNECT" \in t.flags /\ t.cpipe = NULL /\ t.epipe = NULL
                      /\ \A k \in DOMAIN t.pipes : t.pipes[k] = "closed"

\* sentq is what the answers on their way are of, and then what the server
\* has yet to answer.
Matches(q, answers) ==
    Len(q) = Len(answers) /\ \A i \in 1 .. Len(q) : Ack(q[i]) /\ q[i].id = answers[i].id
Paired(t) ==
    t.cpipe # NULL /\ t.pipes[t.cpipe] = "open" =>
        \E q \in Seq(Message) : Matches(q, t.answers) /\ t.sentq = q \o Acked(t.wire)

Quiet(t) == t.flags = {} => t.pendq = <<>>

Good(t) ==
    /\ t \in UvType /\ t.bad # "freed"
    /\ Piped(t) /\ Memory(t) /\ Linked(t) /\ Ordered(t) /\ Released(t)

UvInv == Good(uv) /\ Paired(uv) /\ Quiet(uv)

\* w may be sent or queued.
Fresh(t, w) ==
    /\ w \in Message /\ w.id <= t.ids /\ Unused(t, w.id)
    /\ NotIn(t.pendq, w.id) /\ Below(t.wire, w)

OpenPipe(t) == t.cpipe # NULL /\ t.pipes[t.cpipe] = "open"

LEMMA PairedSame ==
    ASSUME NEW s, NEW r,
           OpenPipe(r) => OpenPipe(s) /\ r.sentq = s.sentq /\ r.answers = s.answers /\ r.wire = s.wire
    PROVE  Paired(s) => Paired(r)
<1>1. ASSUME Paired(s) PROVE Paired(r)
  BY <1>1 DEF Paired, OpenPipe
<1>2. QED
  BY <1>1

\* What does not concern pipes and messages.
LEMMA FlagsGood ==
    ASSUME NEW s, Good(s), NEW r, r \in UvType,
           r.pipes = s.pipes, r.cpipe = s.cpipe, r.epipe = s.epipe, r.due = s.due,
           r.pendq = s.pendq, r.sentq = s.sentq, r.wire = s.wire, r.answers = s.answers,
           r.ids = s.ids, r.written = s.written, r.freed = s.freed, r.released = s.released,
           r.bad # "freed", "CONNECTING" \in r.flags <=> "CONNECTING" \in s.flags,
           s.released > 0 => "DISCONNECT" \in r.flags,
           \A k \in r.shutting : k \in s.shutting \/ (OpenPipe(s) /\ k = s.cpipe)
    PROVE  Good(r) /\ (Paired(s) => Paired(r))
<1>3. Piped(r)
  <2>1. \A j \in DOMAIN s.pipes : Behind(r, j) => Waiting(r, j)
    BY DEF Good, Piped, Behind, Waiting
  <2>2. \A k \in r.shutting : k \in DOMAIN s.pipes /\ k # s.epipe /\ s.pipes[k] \in {"open", "closing"}
    BY DEF Good, Piped, OpenPipe
  <2>3. QED
    BY <2>1, <2>2 DEF Good, Piped
<1>4. Memory(r) /\ Ordered(r)
  BY DEF Good, Memory, Unused, Ordered
<1>5. Linked(r) /\ Released(r)
  <2>1. Linked(r)
    BY DEF Good, Linked
  <2>2. Released(r)
    BY DEF Good, Released
  <2>3. QED
    BY <2>1, <2>2
<1>6. Paired(s) => Paired(r)
  <2>1. OpenPipe(r) => OpenPipe(s) /\ r.sentq = s.sentq /\ r.answers = s.answers /\ r.wire = s.wire
    BY DEF OpenPipe
  <2>2. QED
    BY <2>1, PairedSame
<1>7. QED
  BY <1>3, <1>4, <1>5, <1>6 DEF Good

LEMMA PipeSet ==
    ASSUME NEW q \in Seq(PipeStates), NEW k \in DOMAIN q, NEW x \in PipeStates, NEW r, r = [q EXCEPT ![k] = x]
    PROVE  /\ r \in Seq(PipeStates) /\ Len(r) = Len(q) /\ DOMAIN r = DOMAIN q /\ r[k] = x
           /\ \A j \in DOMAIN q : j # k => r[j] = q[j]
BY ExceptSeq

\* The effect of media_uv_close.
Closed(r, s, k) ==
    \E p : /\ r = [s EXCEPT !.pipes = p] /\ p \in Seq(PipeStates) /\ DOMAIN p = DOMAIN s.pipes /\ Len(p) = Len(s.pipes)
           /\ p[k] \in {"closing", "closed"} /\ \A j \in DOMAIN p : j # k => p[j] = s.pipes[j]

LEMMA CloseGood ==
    ASSUME NEW s, Good(s), NEW k \in DOMAIN s.pipes,
           s.pipes[k] = "connecting" \/ (k = s.epipe /\ s.pipes[k] = "open") => \A j \in DOMAIN s.pipes : ~ Behind(s, j),
           NEW r, r = media_uv_close(s, k)
    PROVE  /\ Good(r) /\ (Paired(s) => Paired(r))
           /\ Closed(r, s, k)
<1>1. CASE s.pipes[k] \in {"closing", "closed"}
  <2>1. r = s
    BY <1>1 DEF media_uv_close
  <2>2. s = [s EXCEPT !.pipes = s.pipes] /\ s.pipes \in Seq(PipeStates)
    BY DEF Good, UvType
  <2>3. Closed(s, s, k)
    BY <1>1, <2>2 DEF Closed
  <2>4. QED
    BY <2>1, <2>3
<1>2. CASE ~ (s.pipes[k] \in {"closing", "closed"})
  <2>0. s \in UvType /\ s.pipes \in Seq(PipeStates)
    BY DEF Good, UvType
  <2>1. PICK p : p = [s.pipes EXCEPT ![k] = "closing"]
    OBVIOUS
  <2>2. /\ p \in Seq(PipeStates) /\ Len(p) = Len(s.pipes) /\ DOMAIN p = DOMAIN s.pipes /\ p[k] = "closing"
        /\ \A j \in DOMAIN s.pipes : j # k => p[j] = s.pipes[j]
    BY <2>0, <2>1, PipeSet DEF PipeStates
  <2>3. r = [s EXCEPT !.pipes = p]
    BY <1>2, <2>1 DEF media_uv_close
  <2>4. /\ r.pipes = p /\ r.cpipe = s.cpipe /\ r.epipe = s.epipe /\ r.due = s.due
        /\ r.pendq = s.pendq /\ r.sentq = s.sentq /\ r.wire = s.wire /\ r.answers = s.answers
        /\ r.ids = s.ids /\ r.written = s.written /\ r.freed = s.freed
        /\ r.released = s.released /\ r.flags = s.flags /\ r.shutting = s.shutting /\ r.bad = s.bad
    BY <2>0, <2>3 DEF UvType
  <2>5. r \in UvType
    BY <2>0, <2>2, <2>3 DEF UvType
  <2>6. k = s.cpipe \/ k = s.epipe
    BY <1>2 DEF Good, Piped
  <2>7. Piped(r)
    <3>1. ASSUME NEW j \in DOMAIN p, Behind(r, j) PROVE Waiting(r, j)
      <4>1. Behind(s, j) /\ j # k
        BY <2>2, <2>4, <2>6, <3>1 DEF Behind
      <4>2. s.pipes[k] # "connecting" /\ (k = s.epipe => s.pipes[k] # "open") /\ Waiting(s, j)
        BY <2>2, <4>1 DEF Good, Piped
      <4>3. s.cpipe # NULL => s.cpipe \in DOMAIN s.pipes
        BY DEF Good, Piped
      <4>4. s.epipe # NULL => s.epipe \in DOMAIN s.pipes
        BY DEF Good, Piped
      <4>5. QED
        BY <2>2, <2>4, <4>2, <4>3, <4>4 DEF Waiting
    <3>2. QED
      BY <2>2, <2>4, <2>6, <3>1 DEF Good, Piped
  <2>8. Memory(r) /\ Ordered(r)
    BY <2>4 DEF Good, Memory, Unused, Ordered
  <2>9. Linked(r)
    BY <2>2, <2>4 DEF Good, Linked, Piped
  <2>10. Released(r)
    <3>1. ~ (s.released > 0)
      BY <1>2 DEF Good, Released
    <3>2. QED
      BY <2>4, <3>1 DEF Released
  <2>11. Paired(s) => Paired(r)
    <3>1. OpenPipe(r) => OpenPipe(s) /\ r.sentq = s.sentq /\ r.answers = s.answers /\ r.wire = s.wire
      BY <2>2, <2>4 DEF Good, OpenPipe, Piped
    <3>2. QED
      BY <3>1, PairedSame
  <2>12. Good(r)
    BY <2>4, <2>5, <2>7, <2>8, <2>9, <2>10 DEF Good
  <2>13. QED
    BY <2>2, <2>3, <2>11, <2>12 DEF Closed
<1>3. QED
  BY <1>1, <1>2

Answer == [id : Nat \ {0}, ret : {0, EPERM}]

LEMMA SubLength ==
    ASSUME NEW q \in Seq(Message), NEW r \in Seq(Message), Sub(r, q)
    PROVE  (q = <<>> => r = <<>>) /\ (Len(q) <= 1 => Len(r) <= 1)
<1>1. Len(q) \in Nat /\ Len(r) \in Nat
  OBVIOUS
<1>2. ASSUME q = <<>>, r # <<>> PROVE FALSE
  <2>1. 1 \in 1 .. Len(r) /\ Len(q) = 0
    BY <1>1, <1>2, EmptySeq
  <2>2. PICK k \in 1 .. Len(q) : TRUE
    BY <2>1 DEF Sub
  <2>3. QED
    BY <2>1, <2>2
<1>3. ASSUME Len(q) <= 1, ~ (Len(r) <= 1) PROVE FALSE
  <2>1. 1 \in 1 .. Len(r) /\ 2 \in 1 .. Len(r) /\ 1 < 2
    BY <1>1, <1>3
  <2>2. PICK k \in 1 .. Len(q), n \in 1 .. Len(q) : k < n
    BY <2>1 DEF Sub
  <2>3. QED
    BY <1>1, <1>3, <2>2
<1>4. QED
  BY <1>2, <1>3

\* Messages leave queues and writings are marked.
LEMMA LessGood ==
    ASSUME NEW s, Good(s), NEW r, r \in UvType,
           r.pipes = s.pipes, r.cpipe = s.cpipe, r.epipe = s.epipe, r.shutting = s.shutting,
           r.flags = s.flags, r.ids = s.ids, r.released = s.released, r.bad = s.bad,
           Sub(r.pendq, s.pendq), Sub(r.sentq, s.sentq), Sub(r.due, s.due), Sub(r.wire, s.wire),
           s.answers = <<>> /\ s.wire = <<>> => r.answers = <<>>,
           \A n \in r.written \cup r.freed :
               n \in s.written \cup s.freed \/ (n <= s.ids /\ NotIn(r.pendq, n) /\ NotIn(r.due, n))
    PROVE  Good(r)
<1>0. s \in UvType
  BY DEF Good
<1>a. PICK P \in Seq(Message), Q \in Seq(Message), D \in Seq(Message), X \in Seq(Message) :
         r.pendq = P /\ r.sentq = Q /\ r.due = D /\ r.wire = X
  BY DEF UvType
<1>b. PICK A, W, G : r.answers = A /\ r.written = W /\ r.freed = G
  OBVIOUS
<1>1. /\ r.pendq = P /\ r.sentq = Q /\ r.due = D /\ r.wire = X /\ r.answers = A
      /\ r.written = W /\ r.freed = G
  BY <1>a, <1>b
<1>2. /\ Sub(P, s.pendq) /\ Sub(Q, s.sentq) /\ Sub(D, s.due) /\ Sub(X, s.wire)
      /\ s.answers = <<>> /\ s.wire = <<>> => A = <<>>
      /\ \A n \in W \cup G :
            n \in s.written \cup s.freed \/ (n <= s.ids /\ NotIn(P, n) /\ NotIn(D, n))
  BY <1>1
<1>3. s.pendq \in Seq(Message) /\ s.sentq \in Seq(Message) /\ s.due \in Seq(Message) /\ s.wire \in Seq(Message)
  BY <1>0 DEF UvType
<1>4. Piped(r)
  <2>1. \A j \in DOMAIN s.pipes : Behind(r, j) => Waiting(r, j)
    BY <1>1 DEF Good, Piped, Behind, Waiting
  <2>2. s.due = <<>> => D = <<>>
    BY <1>2, <1>3, SubLength
  <2>3. QED
    BY <1>1, <2>1, <2>2 DEF Good, Piped
<1>5. Memory(r)
  <2>1. Distinct(P) /\ Distinct(D) /\ Distinct(Q)
    BY <1>2, <1>3, SubKeeps DEF Good, Memory
  <2>2. UpTo(P, s.ids) /\ UpTo(D, s.ids) /\ UpTo(Q, s.ids) /\ UpTo(X, s.ids)
    BY <1>2, <1>3, SubKeeps DEF Good, Memory
  <2>3. ASSUME NEW i \in 1 .. Len(P) PROVE Unused(r, P[i].id)
    <3>1. PICK k \in 1 .. Len(s.pendq) : P[i] = s.pendq[k]
      BY <1>2 DEF Sub
    <3>2. PICK n : n = P[i].id
      OBVIOUS
    <3>3. Unused(s, n)
      BY <3>1, <3>2 DEF Good, Memory
    <3>4. NotIn(D, n) /\ NotIn(Q, n)
      <4>1. NotIn(s.due, n) /\ NotIn(s.sentq, n)
        BY <3>3 DEF Unused
      <4>2. NotIn(D, n)
        BY <1>2, <1>3, <4>1, SubKeeps
      <4>3. NotIn(Q, n)
        BY <1>2, <1>3, <4>1, SubKeeps
      <4>4. QED
        BY <4>2, <4>3
    <3>5. ~ NotIn(P, n)
      BY <3>2 DEF NotIn
    <3>6. n \notin W \cup G
      BY <1>2, <3>3, <3>5 DEF Unused
    <3>7. QED
      BY <1>1, <3>2, <3>4, <3>6 DEF Unused
  <2>4. ASSUME NEW i \in 1 .. Len(D) PROVE D[i].id \notin W \cup G
    <3>1. PICK k \in 1 .. Len(s.due) : D[i] = s.due[k]
      BY <1>2 DEF Sub
    <3>2. PICK n : n = D[i].id
      OBVIOUS
    <3>3. n \notin s.written \cup s.freed
      BY <3>1, <3>2 DEF Good, Memory
    <3>4. ~ NotIn(D, n)
      BY <3>2 DEF NotIn
    <3>5. QED
      BY <1>2, <3>2, <3>3, <3>4
  <2>5. \A n \in W \cup G : n <= s.ids
    BY <1>2 DEF Good, Memory
  <2>6. QED
    BY <1>1, <2>1, <2>2, <2>3, <2>4, <2>5 DEF Memory
<1>6. Linked(r)
  <2>1. "CONNECTING" \in s.flags => s.epipe = NULL /\ Len(Q) <= 1
    BY <1>2, <1>3, SubLength DEF Good, Linked
  <2>2. ASSUME NEW i \in 1 .. Len(Q) PROVE Q[i].code = "open" <=> "CONNECTING" \in s.flags
    <3>1. PICK k \in 1 .. Len(s.sentq) : Q[i] = s.sentq[k]
      BY <1>2 DEF Sub
    <3>2. QED
      BY <3>1 DEF Good, Linked
  <2>3. ASSUME NEW i \in 1 .. Len(P) PROVE P[i].code # "open"
    <3>1. PICK k \in 1 .. Len(s.pendq) : P[i] = s.pendq[k]
      BY <1>2 DEF Sub
    <3>2. QED
      BY <3>1 DEF Good, Linked
  <2>4. (s.sentq = <<>> => Q = <<>>) /\ (s.wire = <<>> => X = <<>>)
    BY <1>2, <1>3, SubLength
  <2>5. s.cpipe # NULL /\ s.pipes[s.cpipe] = "connecting" =>
           "CONNECTING" \in s.flags /\ Q = <<>> /\ X = <<>> /\ A = <<>>
    BY <1>2, <2>4 DEF Good, Linked
  <2>6. QED
    BY <1>1, <2>1, <2>2, <2>3, <2>5 DEF Linked
<1>7. Ordered(r)
  <2>1. Increasing(X) /\ Increasing(P)
    BY <1>2, <1>3, SubKeeps DEF Good, Ordered
  <2>2. ASSUME NEW j \in 1 .. Len(P) PROVE Below(X, P[j])
    <3>1. PICK k \in 1 .. Len(s.pendq) : P[j] = s.pendq[k]
      BY <1>2 DEF Sub
    <3>2. PICK v : v = P[j]
      OBVIOUS
    <3>3. Below(s.wire, v)
      BY <3>1, <3>2 DEF Good, Ordered
    <3>4. QED
      BY <1>2, <1>3, <3>2, <3>3, SubKeeps
  <2>3. QED
    BY <1>1, <2>1, <2>2 DEF Ordered
<1>8. Released(r)
  BY <1>1 DEF Good, Released
<1>9. QED
  BY <1>1, <1>4, <1>5, <1>6, <1>7, <1>8 DEF Good

\* A message is made.
LEMMA NewIdGood ==
    ASSUME NEW s, Good(s), NEW code \in Codes, NEW r, r = [s EXCEPT !.ids = @ + 1],
           NEW w, w = [id |-> s.ids + 1, code |-> code]
    PROVE  Good(r) /\ (Paired(s) => Paired(r)) /\ Fresh(r, w) /\ Below(s.pendq, w)
<1>0. s \in UvType
  BY DEF Good
<1>1. /\ r.pipes = s.pipes /\ r.cpipe = s.cpipe /\ r.epipe = s.epipe /\ r.due = s.due
      /\ r.pendq = s.pendq /\ r.sentq = s.sentq /\ r.wire = s.wire /\ r.answers = s.answers
      /\ r.ids = s.ids + 1 /\ r.written = s.written /\ r.freed = s.freed
      /\ r.released = s.released /\ r.flags = s.flags /\ r.shutting = s.shutting /\ r.bad = s.bad
  BY <1>0 DEF UvType
<1>2. r \in UvType
  <2>1. PICK n : n = s.ids + 1
    OBVIOUS
  <2>2. n \in Nat /\ r = [s EXCEPT !.ids = n]
    BY <1>0, <2>1 DEF UvType
  <2>3. QED
    BY <1>0, <2>2 DEF UvType
<1>3. Piped(r)
  <2>1. \A j \in DOMAIN s.pipes : Behind(r, j) => Waiting(r, j)
    BY <1>1 DEF Good, Piped, Behind, Waiting
  <2>2. QED
    BY <1>1, <2>1 DEF Good, Piped
<1>4. Linked(r)
  BY <1>1 DEF Good, Linked
<1>5. Ordered(r)
  BY <1>1 DEF Good, Ordered
<1>6. Released(r)
  BY <1>1 DEF Good, Released
<1>7. s.ids \in Nat
  BY <1>0 DEF UvType
<1>8. ASSUME NEW q \in Seq(Message), UpTo(q, s.ids)
      PROVE  UpTo(q, s.ids + 1) /\ NotIn(q, s.ids + 1) /\ Below(q, w)
  <2>1. ASSUME NEW i \in 1 .. Len(q) PROVE q[i].id \in Nat /\ q[i].id <= s.ids
    <3>1. q[i] \in Message
      OBVIOUS
    <3>2. QED
      BY <1>8, <3>1 DEF UpTo, Message
  <2>2. w.id = s.ids + 1
    OBVIOUS
  <2>3. QED
    BY <1>7, <2>1, <2>2 DEF UpTo, NotIn, Below
<1>9. \A n \in s.written \cup s.freed : n <= s.ids /\ n \in Nat
  BY <1>0 DEF Good, Memory, UvType
<1>10. s.pendq \in Seq(Message) /\ s.sentq \in Seq(Message) /\ s.due \in Seq(Message) /\ s.wire \in Seq(Message)
  BY <1>0 DEF UvType
<1>11. UpTo(s.pendq, s.ids) /\ UpTo(s.due, s.ids) /\ UpTo(s.sentq, s.ids) /\ UpTo(s.wire, s.ids)
  BY DEF Good, Memory
<1>12. Memory(r)
  <2>1. UpTo(s.pendq, s.ids + 1) /\ UpTo(s.due, s.ids + 1) /\ UpTo(s.sentq, s.ids + 1) /\ UpTo(s.wire, s.ids + 1)
    BY <1>8, <1>10, <1>11
  <2>2. \A i \in 1 .. Len(s.pendq) : Unused(r, s.pendq[i].id)
    BY <1>1 DEF Good, Memory, Unused
  <2>3. \A n \in s.written \cup s.freed : n <= s.ids + 1
    BY <1>7, <1>9
  <2>4. QED
    BY <1>1, <2>1, <2>2, <2>3 DEF Good, Memory
<1>13. Fresh(r, w) /\ Below(s.pendq, w)
  <2>1. w \in Message /\ w.id = s.ids + 1
    BY <1>7 DEF Message
  <2>2. /\ NotIn(s.pendq, s.ids + 1) /\ NotIn(s.due, s.ids + 1) /\ NotIn(s.sentq, s.ids + 1)
        /\ Below(s.wire, w) /\ Below(s.pendq, w)
    BY <1>8, <1>10, <1>11
  <2>3. s.ids + 1 \notin s.written \cup s.freed /\ s.ids + 1 <= s.ids + 1
    BY <1>7, <1>9
  <2>4. Unused(r, w.id)
    BY <1>1, <2>1, <2>2, <2>3 DEF Unused
  <2>5. w.id <= r.ids /\ NotIn(r.pendq, w.id) /\ Below(r.wire, w)
    BY <1>1, <1>7, <2>1, <2>2
  <2>6. QED
    BY <2>1, <2>2, <2>4, <2>5 DEF Fresh
<1>14. Paired(s) => Paired(r)
  <2>1. OpenPipe(r) => OpenPipe(s) /\ r.sentq = s.sentq /\ r.answers = s.answers /\ r.wire = s.wire
    BY <1>1 DEF OpenPipe
  <2>2. QED
    BY <2>1, PairedSame
<1>15. QED
  BY <1>1, <1>2, <1>3, <1>4, <1>5, <1>6, <1>12, <1>13, <1>14 DEF Good

\* It is queued.
LEMMA PendGood ==
    ASSUME NEW s, Good(s), NEW w, Fresh(s, w), Below(s.pendq, w), w.code # "open",
           NEW r, r = [s EXCEPT !.pendq = Append(@, w)]
    PROVE  Good(r) /\ (Paired(s) => Paired(r))
<1>0. s \in UvType /\ w \in Message /\ s.pendq \in Seq(Message)
  BY DEF Good, Fresh, UvType
<1>1. PICK p : p = Append(s.pendq, w)
  OBVIOUS
<1>2. /\ p \in Seq(Message) /\ Len(s.pendq) \in Nat /\ Len(p) = Len(s.pendq) + 1
      /\ p[Len(s.pendq) + 1] = w /\ \A i \in 1 .. Len(s.pendq) : p[i] = s.pendq[i]
  BY <1>0, <1>1, Appended
<1>3. /\ r.pipes = s.pipes /\ r.cpipe = s.cpipe /\ r.epipe = s.epipe /\ r.due = s.due
      /\ r.pendq = p /\ r.sentq = s.sentq /\ r.wire = s.wire /\ r.answers = s.answers
      /\ r.ids = s.ids /\ r.written = s.written /\ r.freed = s.freed
      /\ r.released = s.released /\ r.flags = s.flags /\ r.shutting = s.shutting /\ r.bad = s.bad
  BY <1>0, <1>1 DEF UvType
<1>4. r \in UvType
  BY <1>0, <1>1, <1>2 DEF UvType
<1>5. Piped(r)
  <2>1. \A j \in DOMAIN s.pipes : Behind(r, j) => Waiting(r, j)
    BY <1>3 DEF Good, Piped, Behind, Waiting
  <2>2. QED
    BY <1>3, <2>1 DEF Good, Piped
<1>6. \A i \in 1 .. Len(p) : p[i] = w \/ \E k \in 1 .. Len(s.pendq) : p[i] = s.pendq[k]
  <2>1. PICK n \in Nat : n = Len(s.pendq)
    BY <1>2
  <2>2. \A i \in 1 .. n + 1 : i \in 1 .. n \/ i = n + 1
    BY <2>1
  <2>3. QED
    BY <1>2, <2>1, <2>2
<1>7. Memory(r)
  <2>1. Distinct(p) /\ UpTo(p, s.ids)
    <3>1. Distinct(s.pendq) /\ UpTo(s.pendq, s.ids) /\ NotIn(s.pendq, w.id) /\ w.id <= s.ids
      BY DEF Good, Memory, Fresh
    <3>2. QED
      BY <1>0, <1>1, <3>1, AppendKeeps
  <2>2. \A i \in 1 .. Len(s.pendq) : Unused(r, s.pendq[i].id)
    BY <1>3 DEF Good, Memory, Unused
  <2>3. Unused(r, w.id)
    BY <1>3 DEF Fresh, Unused
  <2>4. \A i \in 1 .. Len(p) : Unused(r, p[i].id)
    BY <1>6, <2>2, <2>3
  <2>5. QED
    BY <1>3, <2>1, <2>4 DEF Good, Memory
<1>8. Linked(r)
  <2>1. \A i \in 1 .. Len(p) : p[i].code # "open"
    BY <1>6 DEF Good, Linked
  <2>2. QED
    BY <1>3, <2>1 DEF Good, Linked
<1>9. Ordered(r)
  <2>1. Increasing(p)
    BY <1>0, <1>1, AppendKeeps DEF Good, Ordered
  <2>2. \A i \in 1 .. Len(p) : Below(s.wire, p[i])
    BY <1>6 DEF Good, Ordered, Fresh
  <2>3. QED
    BY <1>3, <2>1, <2>2 DEF Good, Ordered
<1>10. Released(r)
  BY <1>3 DEF Good, Released
<1>11. Paired(s) => Paired(r)
  <2>1. OpenPipe(r) => OpenPipe(s) /\ r.sentq = s.sentq /\ r.answers = s.answers /\ r.wire = s.wire
    BY <1>3 DEF OpenPipe
  <2>2. QED
    BY <2>1, PairedSame
<1>12. QED
  BY <1>3, <1>4, <1>5, <1>7, <1>8, <1>9, <1>10, <1>11 DEF Good

LEMMA AckedType ==
    ASSUME NEW q \in Seq(Message)
    PROVE  Acked(q) \in Seq(Message)
<1>1. <<>> \in Seq(Message) /\ Acked(<<>>) \in Seq(Message)
  BY AckedNone, EmptySeq
<1>2. QED
  BY <1>1, AckedConcat

\* The first queued message is taken out to be sent.
LEMMA PopGood ==
    ASSUME NEW s, Good(s), s.pendq # <<>>,
           NEW r, r = [s EXCEPT !.pendq = Tail(@)], NEW w, w = Head(s.pendq)
    PROVE  /\ Good(r) /\ (Paired(s) => Paired(r))
           /\ Fresh(r, w) /\ Above(r.pendq, w) /\ w.code # "open"
<1>0. s \in UvType /\ s.pendq \in Seq(Message)
  BY DEF Good, UvType
<1>1. PICK p : p = Tail(s.pendq)
  OBVIOUS
<1>2. /\ p \in Seq(Message) /\ w \in Message /\ w = s.pendq[1] /\ 1 \in 1 .. Len(s.pendq)
      /\ Len(s.pendq) \in Nat /\ Len(p) = Len(s.pendq) - 1
      /\ \A i \in 1 .. Len(s.pendq) - 1 : p[i] = s.pendq[i + 1]
      /\ Sub(p, s.pendq)
  BY <1>0, <1>1, TailSub
<1>3. /\ r.pipes = s.pipes /\ r.cpipe = s.cpipe /\ r.due = s.due
      /\ r.pendq = p /\ r.sentq = s.sentq /\ r.wire = s.wire /\ r.answers = s.answers
      /\ r.ids = s.ids /\ r.written = s.written /\ r.freed = s.freed
  BY <1>0, <1>1 DEF UvType
<1>4. r \in UvType /\ r.epipe = s.epipe /\ r.shutting = s.shutting /\ r.flags = s.flags
      /\ r.released = s.released /\ r.bad = s.bad
  BY <1>0, <1>1, <1>2 DEF UvType
<1>5. Good(r)
  <2>1. Sub(s.sentq, s.sentq) /\ Sub(s.due, s.due) /\ Sub(s.wire, s.wire)
    BY SubSame
  <2>2. QED
    BY <1>2, <1>3, <1>4, <2>1, LessGood
<1>6. \A j \in 1 .. Len(p) : j + 1 \in 1 .. Len(s.pendq) /\ 1 < j + 1 /\ p[j] = s.pendq[j + 1]
  <2>1. PICK n \in Nat : n = Len(s.pendq)
    BY <1>2
  <2>2. \A j \in 1 .. n - 1 : j + 1 \in 1 .. n /\ 1 < j + 1
    BY <2>1
  <2>3. QED
    BY <1>2, <2>1, <2>2
<1>7. NotIn(p, w.id)
  <2>1. Distinct(s.pendq)
    BY DEF Good, Memory
  <2>2. ASSUME NEW j \in 1 .. Len(p), p[j].id = w.id PROVE FALSE
    <3>1. j + 1 \in 1 .. Len(s.pendq) /\ 1 < j + 1 /\ s.pendq[j + 1].id = s.pendq[1].id
      BY <1>2, <1>6, <2>2
    <3>2. j + 1 = 1
      BY <1>2, <2>1, <3>1 DEF Distinct
    <3>3. QED
      BY <3>1, <3>2
  <2>3. QED
    BY <2>2 DEF NotIn
<1>8. Above(p, w)
  BY <1>2, <1>6 DEF Good, Ordered, Increasing, Above
<1>9. Fresh(r, w)
  <2>1. w.id <= s.ids
    BY <1>2 DEF Good, Memory, UpTo
  <2>2. Unused(s, w.id)
    BY <1>2 DEF Good, Memory
  <2>3. Below(s.wire, w)
    BY <1>2 DEF Good, Ordered
  <2>4. Unused(r, w.id)
    BY <1>3, <2>2 DEF Unused
  <2>5. QED
    BY <1>2, <1>3, <1>7, <2>1, <2>3, <2>4 DEF Fresh
<1>10. w.code # "open"
  BY <1>2 DEF Good, Linked
<1>11. Paired(s) => Paired(r)
  <2>1. OpenPipe(r) => OpenPipe(s) /\ r.sentq = s.sentq /\ r.answers = s.answers /\ r.wire = s.wire
    BY <1>3 DEF OpenPipe
  <2>2. QED
    BY <2>1, PairedSame
<1>12. QED
  BY <1>3, <1>5, <1>8, <1>9, <1>10, <1>11

Added(r, q, w) == r = Append(q, w)

LEMMA AddedKeeps ==
    ASSUME NEW q \in Seq(Message), NEW w \in Message, NEW r, Added(r, q, w)
    PROVE  /\ r \in Seq(Message) /\ r # <<>>
           /\ Distinct(q) /\ NotIn(q, w.id) => Distinct(r)
           /\ Increasing(q) /\ Below(q, w) => Increasing(r)
           /\ \A n : NotIn(q, n) /\ n # w.id => NotIn(r, n)
           /\ \A n : UpTo(q, n) /\ w.id <= n => UpTo(r, n)
           /\ \A v : Below(q, v) /\ (Asked(v) /\ Asked(w) => w.id < v.id) => Below(r, v)
           /\ \A v : Above(q, v) /\ (Asked(v) /\ Asked(w) => v.id < w.id) => Above(r, v)
           /\ Len(q) \in Nat /\ Len(r) = Len(q) + 1
           /\ r[Len(q) + 1] = w /\ \A i \in 1 .. Len(q) : r[i] = q[i]
<1>1. r = Append(q, w)
  BY DEF Added
<1>2. /\ Len(q) \in Nat /\ Len(r) = Len(q) + 1
      /\ r[Len(q) + 1] = w /\ \A i \in 1 .. Len(q) : r[i] = q[i]
  BY <1>1, Appended
<1>3. QED
  BY <1>1, <1>2, AppendKeeps, Zenon

\* A message is written to an open pipe.
LEMMA SentGood ==
    ASSUME NEW s, Good(s), OpenPipe(s), NEW w, Fresh(s, w), Above(s.pendq, w),
           Ack(w) => (w.code = "open" <=> "CONNECTING" \in s.flags),
           Ack(w) /\ "CONNECTING" \in s.flags => s.sentq = <<>>,
           NEW r, r \in UvType,
           r.pipes = s.pipes, r.cpipe = s.cpipe, r.epipe = s.epipe, r.shutting = s.shutting,
           r.flags = s.flags, r.ids = s.ids, r.released = s.released, r.bad = s.bad,
           r.pendq = s.pendq, r.answers = s.answers, r.written = s.written, r.freed = s.freed,
           IF Ack(w) THEN Added(r.sentq, s.sentq, w) ELSE r.sentq = s.sentq,
           Added(r.due, s.due, w), Added(r.wire, s.wire, w)
    PROVE  Good(r) /\ (Paired(s) => Paired(r))
<1>0. /\ s \in UvType /\ w \in Message /\ s.pendq \in Seq(Message)
      /\ s.sentq \in Seq(Message) /\ s.due \in Seq(Message) /\ s.wire \in Seq(Message)
  BY DEF Good, Fresh, UvType
<1>1. PICK D : r.due = D /\ Added(D, s.due, w)
  OBVIOUS
<1>2. PICK X : r.wire = X /\ Added(X, s.wire, w)
  OBVIOUS
<1>5. PICK Q : r.sentq = Q /\ (Ack(w) => Added(Q, s.sentq, w)) /\ (~ Ack(w) => Q = s.sentq)
  OBVIOUS
<1>3. /\ D \in Seq(Message) /\ Len(s.due) \in Nat /\ Len(D) = Len(s.due) + 1
      /\ D[Len(s.due) + 1] = w /\ \A i \in 1 .. Len(s.due) : D[i] = s.due[i]
  BY <1>0, <1>1, AddedKeeps
<1>4. X \in Seq(Message)
  BY <1>0, <1>2, AddedKeeps
<1>6. /\ r.due = D /\ r.wire = X /\ r.sentq = Q
  BY <1>1, <1>2, <1>5
<1>8. Piped(r)
  <2>1. \A j \in DOMAIN s.pipes : Behind(r, j) => Waiting(r, j)
    BY <1>6 DEF Good, Piped, Behind, Waiting
  <2>2. s.cpipe # NULL
    BY DEF OpenPipe
  <2>3. QED
    BY <1>6, <2>1, <2>2 DEF Good, Piped
<1>9. \A i \in 1 .. Len(D) : D[i] = w \/ \E k \in 1 .. Len(s.due) : D[i] = s.due[k]
  <2>1. PICK n \in Nat : n = Len(s.due)
    BY <1>3
  <2>2. \A i \in 1 .. n + 1 : i \in 1 .. n \/ i = n + 1
    BY <2>1
  <2>3. QED
    BY <1>3, <2>1, <2>2
<1>10. Memory(r)
  <2>1. /\ w.id <= s.ids /\ NotIn(s.due, w.id) /\ NotIn(s.sentq, w.id) /\ NotIn(s.pendq, w.id)
        /\ w.id \notin s.written \cup s.freed
    BY DEF Fresh, Unused
  <2>2. Distinct(D) /\ UpTo(D, s.ids)
    <3>1. Distinct(s.due) /\ UpTo(s.due, s.ids)
      BY DEF Good, Memory
    <3>2. QED
      BY <1>0, <1>1, <2>1, <3>1, AddedKeeps
  <2>3. UpTo(X, s.ids)
    <3>1. UpTo(s.wire, s.ids)
      BY DEF Good, Memory
    <3>2. QED
      BY <1>0, <1>2, <2>1, <3>1, AddedKeeps
  <2>4. Distinct(Q) /\ UpTo(Q, s.ids)
    <3>1. CASE Ack(w)
      <4>1. Added(Q, s.sentq, w)
        BY <1>5, <3>1
      <4>2. Distinct(s.sentq) /\ UpTo(s.sentq, s.ids)
        BY DEF Good, Memory
      <4>3. QED
        BY <1>0, <2>1, <4>1, <4>2, AddedKeeps
    <3>2. CASE ~ Ack(w)
      BY <1>5, <3>2 DEF Good, Memory
    <3>3. QED
      BY <3>1, <3>2
  <2>5. ASSUME NEW i \in 1 .. Len(s.pendq) PROVE Unused(r, s.pendq[i].id)
    <3>1. PICK n : n = s.pendq[i].id
      OBVIOUS
    <3>2. n # w.id
      BY <2>1, <3>1 DEF NotIn
    <3>3. n \notin s.written \cup s.freed /\ NotIn(s.due, n) /\ NotIn(s.sentq, n)
      BY <3>1 DEF Good, Memory, Unused
    <3>4. NotIn(D, n)
      BY <1>0, <1>1, <3>2, <3>3, AddedKeeps
    <3>5. NotIn(Q, n)
      <4>1. CASE Ack(w)
        <5>1. Added(Q, s.sentq, w)
          BY <1>5, <4>1
        <5>2. QED
          BY <1>0, <3>2, <3>3, <5>1, AddedKeeps
      <4>2. CASE ~ Ack(w)
        BY <1>5, <3>3, <4>2
      <4>3. QED
        BY <4>1, <4>2
    <3>6. QED
      BY <1>6, <3>1, <3>3, <3>4, <3>5 DEF Unused
  <2>6. \A i \in 1 .. Len(D) : D[i].id \notin s.written \cup s.freed
    BY <1>9, <2>1 DEF Good, Memory
  <2>7. QED
    BY <1>6, <2>2, <2>3, <2>4, <2>5, <2>6 DEF Good, Memory
<1>11. Linked(r)
  <2>1. s.cpipe # NULL /\ s.pipes[s.cpipe] # "connecting"
    BY DEF OpenPipe
  <2>2. CASE Ack(w)
    <3>1. /\ Len(s.sentq) \in Nat /\ Len(Q) = Len(s.sentq) + 1
          /\ Q[Len(s.sentq) + 1] = w /\ \A i \in 1 .. Len(s.sentq) : Q[i] = s.sentq[i]
      BY <1>0, <1>5, <2>2, AddedKeeps
    <3>2. "CONNECTING" \in s.flags => Len(Q) <= 1
      <4>1. s.sentq = <<>> => Len(s.sentq) = 0
        OBVIOUS
      <4>2. QED
        BY <2>2, <3>1, <4>1
    <3>3. ASSUME NEW i \in 1 .. Len(Q) PROVE Q[i].code = "open" <=> "CONNECTING" \in s.flags
      <4>1. i \in 1 .. Len(s.sentq) \/ i = Len(s.sentq) + 1
        BY <3>1
      <4>2. QED
        BY <2>2, <3>1, <4>1 DEF Good, Linked
    <3>4. QED
      BY <1>6, <2>1, <3>2, <3>3 DEF Good, Linked
  <2>3. CASE ~ Ack(w)
    BY <1>6, <1>5, <2>1, <2>3 DEF Good, Linked
  <2>4. QED
    BY <2>2, <2>3
<1>12. Ordered(r)
  <2>1. Below(s.wire, w)
    BY DEF Fresh
  <2>2. Increasing(X)
    BY <1>0, <1>2, <2>1, AddedKeeps DEF Good, Ordered
  <2>3. ASSUME NEW j \in 1 .. Len(s.pendq) PROVE Below(X, s.pendq[j])
    <3>1. PICK v : v = s.pendq[j]
      OBVIOUS
    <3>2. Below(s.wire, v)
      BY <3>1 DEF Good, Ordered
    <3>3. Asked(v) /\ Asked(w) => w.id < v.id
      BY <3>1 DEF Above
    <3>4. Below(X, v)
      BY <1>0, <1>2, <3>2, <3>3, AddedKeeps
    <3>5. QED
      BY <3>1, <3>4
  <2>4. QED
    BY <1>6, <2>2, <2>3 DEF Good, Ordered
<1>13. Released(r)
  BY <1>6 DEF Good, Released
<1>14. ASSUME Paired(s) PROVE Paired(r)
  <2>1. PICK q \in Seq(Message) : Matches(q, s.answers) /\ s.sentq = q \o Acked(s.wire)
    BY <1>14 DEF Paired, OpenPipe
  <2>2. PICK a \in Seq(Message) : a = Acked(s.wire)
    BY <1>0, AckedType
  <2>3. Acked(X) = IF Ack(w) THEN Append(a, w) ELSE a
    BY <1>0, <1>2, <2>2, AckedAppend DEF Added
  <2>4. q \o Append(a, w) = Append(q \o a, w)
    BY <1>0, ConcatAppend
  <2>5. Q = q \o Acked(X)
    BY <1>5, <2>1, <2>2, <2>3, <2>4 DEF Added
  <2>6. QED
    BY <1>6, <2>1, <2>5 DEF Paired
<1>15. QED
  BY <1>6, <1>8, <1>10, <1>11, <1>12, <1>13, <1>14 DEF Good

-----------------------------------------------------------------------------
(* 3. What the functions keep                                              *)

LEMMA FreeWritingGood ==
    ASSUME NEW s, Good(s), NEW w \in Message, NEW r, r = media_uv_free_writing(s, w)
    PROVE  /\ Good(r) /\ (Paired(s) => Paired(r))
           /\ \E G : r = [s EXCEPT !.freed = G]
<1>0. s \in UvType /\ w.id \in Nat \ {0}
  BY DEF Good, Message
<1>1. CASE w.id \in s.written \cap s.responsed
  <2>1. r = [s EXCEPT !.freed = s.freed \cup {w.id}]
    BY <1>1 DEF media_uv_free_writing
  <2>2. /\ r.pipes = s.pipes /\ r.cpipe = s.cpipe /\ r.epipe = s.epipe /\ r.due = s.due
        /\ r.pendq = s.pendq /\ r.sentq = s.sentq /\ r.wire = s.wire /\ r.answers = s.answers
        /\ r.ids = s.ids /\ r.written = s.written /\ r.freed = s.freed \cup {w.id}
        /\ r.released = s.released /\ r.flags = s.flags /\ r.shutting = s.shutting /\ r.bad = s.bad
    BY <1>0, <2>1 DEF UvType
  <2>3. r \in UvType
    <3>1. PICK G \in SUBSET (Nat \ {0}) : G = s.freed \cup {w.id}
      BY <1>0 DEF UvType
    <3>2. r = [s EXCEPT !.freed = G]
      BY <2>1, <3>1
    <3>3. QED
      BY <1>0, <3>2 DEF UvType
  <2>4. Sub(s.pendq, s.pendq) /\ Sub(s.sentq, s.sentq) /\ Sub(s.due, s.due) /\ Sub(s.wire, s.wire)
    BY SubSame
  <2>5. \A n \in r.written \cup r.freed : n \in s.written \cup s.freed
    BY <1>1, <2>2
  <2>6. Good(r)
    BY <2>2, <2>3, <2>4, <2>5, LessGood
  <2>7. Paired(s) => Paired(r)
    <3>1. OpenPipe(r) => OpenPipe(s) /\ r.sentq = s.sentq /\ r.answers = s.answers /\ r.wire = s.wire
      BY <2>2 DEF OpenPipe
    <3>2. QED
      BY <3>1, PairedSame
  <2>8. QED
    BY <2>1, <2>6, <2>7
<1>2. CASE ~ (w.id \in s.written \cap s.responsed)
  <2>1. r = s
    BY <1>2 DEF media_uv_free_writing
  <2>2. s = [s EXCEPT !.freed = s.freed]
    BY <1>0 DEF UvType
  <2>3. QED
    BY <2>1, <2>2
<1>3. QED
  BY <1>1, <1>2

LEMMA ConcatElements ==
    ASSUME NEW a \in Seq(Message), NEW b \in Seq(Message), NEW m \in ToSet(a \o b)
    PROVE  (\E i \in 1 .. Len(a) : m = a[i]) \/ (\E i \in 1 .. Len(b) : m = b[i])
<1>1. PICK c : c = a \o b
  OBVIOUS
<1>2. /\ c \in Seq(Message) /\ Len(c) = Len(a) + Len(b)
      /\ \A i \in 1 .. Len(a) + Len(b) : c[i] = IF i <= Len(a) THEN a[i] ELSE b[i - Len(a)]
  BY <1>1, ConcatProperties
<1>3. PICK i \in 1 .. Len(c) : m = c[i]
  BY <1>1, <1>2 DEF ToSet
<1>4. PICK x \in Nat, y \in Nat : x = Len(a) /\ y = Len(b)
  OBVIOUS
<1>5. CASE i <= x
  BY <1>2, <1>3, <1>4, <1>5
<1>6. CASE ~ (i <= x)
  <2>1. i - x \in 1 .. y
    BY <1>2, <1>3, <1>4, <1>6
  <2>2. QED
    BY <1>2, <1>3, <1>4, <1>6, <2>1
<1>7. QED
  BY <1>5, <1>6

LEMMA ClearGood ==
    ASSUME NEW s, Good(s), s.sentq = <<>> \/ s.due = <<>>, NEW r, r = media_uv_clear_queue(s)
    PROVE  /\ Good(r) /\ (s.sentq = <<>> /\ Paired(s) => Paired(r))
           /\ r.sentq = <<>> /\ r.pendq = <<>>
           /\ \E G : r = [s EXCEPT !.sentq = <<>>, !.pendq = <<>>, !.freed = G]
<1>0. s \in UvType
  BY DEF Good
<1>1. PICK I : I = {m.id : m \in ToSet(s.sentq \o s.pendq)}
  OBVIOUS
<1>2. s.pendq \in Seq(Message) /\ s.sentq \in Seq(Message) /\ s.due \in Seq(Message) /\ s.wire \in Seq(Message)
  BY <1>0 DEF UvType
<1>3. ASSUME NEW n \in I PROVE n \in Nat \ {0} /\ n <= s.ids /\ NotIn(s.due, n)
  <2>1. PICK m \in ToSet(s.sentq \o s.pendq) : n = m.id
    BY <1>1
  <2>2. CASE \E i \in 1 .. Len(s.sentq) : m = s.sentq[i]
    <3>1. PICK i \in 1 .. Len(s.sentq) : m = s.sentq[i]
      BY <2>2
    <3>2. m \in Message
      BY <1>2, <3>1
    <3>3. n <= s.ids
      BY <2>1, <3>1 DEF Good, Memory, UpTo
    <3>4. s.sentq # <<>>
      BY <1>2, <3>1, EmptySeq
    <3>5. NotIn(s.due, n)
      BY <3>4, EmptyKeeps
    <3>6. QED
      BY <2>1, <3>2, <3>3, <3>5 DEF Message
  <2>3. CASE \E i \in 1 .. Len(s.pendq) : m = s.pendq[i]
    <3>1. PICK i \in 1 .. Len(s.pendq) : m = s.pendq[i]
      BY <2>3
    <3>2. m \in Message
      BY <1>2, <3>1
    <3>3. n <= s.ids
      BY <2>1, <3>1 DEF Good, Memory, UpTo
    <3>5. NotIn(s.due, n)
      BY <2>1, <3>1 DEF Good, Memory, Unused
    <3>6. QED
      BY <2>1, <3>2, <3>3, <3>5 DEF Message
  <2>4. QED
    BY <1>2, <2>2, <2>3, ConcatElements
<1>4. PICK G : G = s.freed \cup I
  OBVIOUS
<1>5. r = [s EXCEPT !.sentq = <<>>, !.pendq = <<>>, !.freed = G]
  BY <1>0, <1>1, <1>4 DEF media_uv_clear_queue, UvType
<1>6. /\ r.pipes = s.pipes /\ r.cpipe = s.cpipe /\ r.epipe = s.epipe /\ r.due = s.due
      /\ r.pendq = <<>> /\ r.sentq = <<>> /\ r.wire = s.wire /\ r.answers = s.answers
      /\ r.ids = s.ids /\ r.written = s.written /\ r.freed = G
      /\ r.released = s.released /\ r.flags = s.flags /\ r.shutting = s.shutting /\ r.bad = s.bad
  BY <1>0, <1>5 DEF UvType
<1>7. r \in UvType
  <2>1. G \in SUBSET (Nat \ {0})
    BY <1>0, <1>3, <1>4 DEF UvType
  <2>2. <<>> \in Seq(Message)
    BY EmptyKeeps
  <2>3. QED
    BY <1>0, <1>5, <2>1, <2>2 DEF UvType
<1>8. Good(r)
  <2>1. Sub(<<>>, s.pendq) /\ Sub(<<>>, s.sentq)
    BY EmptyKeeps DEF Sub
  <2>2. Sub(s.due, s.due) /\ Sub(s.wire, s.wire)
    BY SubSame
  <2>3. \A n \in r.written \cup r.freed :
           n \in s.written \cup s.freed \/ (n <= s.ids /\ NotIn(r.pendq, n) /\ NotIn(r.due, n))
    <3>1. \A n : NotIn(r.pendq, n)
      BY <1>6, EmptyKeeps
    <3>2. QED
      BY <1>3, <1>4, <1>6, <3>1
  <2>4. Sub(r.pendq, s.pendq) /\ Sub(r.sentq, s.sentq) /\ Sub(r.due, s.due) /\ Sub(r.wire, s.wire)
    BY <1>6, <2>1, <2>2
  <2>5. QED
    BY <1>6, <1>7, <2>3, <2>4, LessGood
<1>9. s.sentq = <<>> /\ Paired(s) => Paired(r)
  <2>1. ASSUME s.sentq = <<>> PROVE Paired(s) => Paired(r)
    <3>1. OpenPipe(r) => OpenPipe(s) /\ r.sentq = s.sentq /\ r.answers = s.answers /\ r.wire = s.wire
      BY <1>6, <2>1 DEF OpenPipe
    <3>2. QED
      BY <3>1, PairedSame
  <2>2. QED
    BY <2>1
<1>10. QED
  BY <1>5, <1>6, <1>8, <1>9

LEMMA ReleaseType ==
    ASSUME NEW t \in UvType, NEW r, r = [t EXCEPT !.released = 1]
    PROVE  r \in UvType
<1>1. \A n \in 0 .. 1 : [t EXCEPT !.released = n] \in UvType
  BY DEF UvType
<1>2. 1 \in 0 .. 1
  OBVIOUS
<1>3. QED
  BY <1>1, <1>2

LEMMA FreeProxyGood ==
    ASSUME NEW s, Good(s), s.released = 0, NEW r, r = media_uv_free_proxy(s)
    PROVE  /\ Good(r) /\ (Paired(s) => Paired(r))
           /\ r.flags = s.flags /\ r.sentq \in {s.sentq, <<>>} /\ r.pendq \in {s.pendq, <<>>}
           /\ s.cpipe # NULL => r = s
<1>1. CASE s.cpipe # NULL \/ s.epipe # NULL \/ "DISCONNECT" \notin s.flags
  <2>1. r = s
    BY <1>1 DEF media_uv_free_proxy
  <2>2. QED
    BY <2>1
<1>2. CASE ~ (s.cpipe # NULL \/ s.epipe # NULL \/ "DISCONNECT" \notin s.flags)
  <2>1. s.cpipe = NULL /\ s.epipe = NULL /\ "DISCONNECT" \in s.flags /\ s.due = <<>>
    BY <1>2 DEF Good, Piped
  <2>2. PICK t : t = media_uv_clear_queue(s)
    OBVIOUS
  <2>3. Good(t) /\ t.sentq = <<>> /\ t.pendq = <<>>
    BY <2>1, <2>2, ClearGood
  <2>4. PICK G : t = [s EXCEPT !.sentq = <<>>, !.pendq = <<>>, !.freed = G]
    BY <2>1, <2>2, ClearGood
  <2>5. s \in UvType /\ t \in UvType
    BY <2>3 DEF Good
  <2>6. /\ t.released = 0 /\ t.cpipe = NULL /\ t.epipe = NULL /\ t.flags = s.flags /\ t.pipes = s.pipes
    BY <2>1, <2>4, <2>5 DEF UvType
  <2>7. r = [t EXCEPT !.released = 1]
    BY <1>2, <2>2, <2>5, <2>6 DEF media_uv_free_proxy, UvType
  <2>8. /\ r.pipes = t.pipes /\ r.cpipe = NULL /\ r.epipe = NULL /\ r.due = t.due
        /\ r.pendq = <<>> /\ r.sentq = <<>> /\ r.wire = t.wire /\ r.answers = t.answers
        /\ r.ids = t.ids /\ r.written = t.written /\ r.freed = t.freed
        /\ r.released = 1 /\ r.flags = s.flags /\ r.shutting = t.shutting /\ r.bad = t.bad
    BY <2>3, <2>5, <2>6, <2>7 DEF UvType
  <2>9. r \in UvType
    BY <2>5, <2>7, ReleaseType
  <2>10. Piped(r)
    <3>1. \A j \in DOMAIN t.pipes : Behind(r, j) => Waiting(r, j)
      BY <2>3, <2>6, <2>8 DEF Good, Piped, Behind, Waiting
    <3>2. QED
      BY <2>3, <2>6, <2>8, <3>1 DEF Good, Piped
  <2>11. Memory(r) /\ Ordered(r)
    BY <2>3, <2>8 DEF Good, Memory, Unused, Ordered
  <2>12. Linked(r)
    BY <2>3, <2>6, <2>8 DEF Good, Linked
  <2>13. Released(r)
    <3>1. ASSUME NEW k \in DOMAIN t.pipes PROVE t.pipes[k] = "closed"
      <4>1. t.pipes[k] \in PipeStates /\ k \in Nat
        BY <2>5 DEF UvType
      <4>2. k # t.cpipe /\ k # t.epipe
        BY <2>6, <4>1, NullAssumption
      <4>3. t.pipes[k] \in {"closing", "closed"} /\ ~ Waiting(t, k)
        BY <2>3, <2>6, <4>2 DEF Good, Piped, Waiting
      <4>4. ~ Behind(t, k)
        BY <2>3, <4>3 DEF Good, Piped
      <4>5. QED
        BY <4>2, <4>3, <4>4 DEF Behind
    <3>2. QED
      BY <2>1, <2>8, <3>1 DEF Released
  <2>14. Good(r)
    BY <2>3, <2>8, <2>9, <2>10, <2>11, <2>12, <2>13 DEF Good
  <2>15. Paired(r)
    BY <2>8 DEF Paired
  <2>16. QED
    BY <2>1, <2>8, <2>14, <2>15
<1>3. QED
  BY <1>1, <1>2

LEMMA NotReleased ==
    ASSUME NEW s, Good(s), "DISCONNECT" \notin s.flags \/ s.cpipe # NULL \/ s.epipe # NULL
    PROVE  s.released = 0
<1>1. s.released \in 0 .. 1
  BY DEF Good, UvType
<1>2. ~ (s.released > 0)
  BY DEF Good, Released
<1>3. QED
  BY <1>1, <1>2

Disconnected(r, s) == \E H : r = [s EXCEPT !.flags = s.flags \cup {"DISCONNECT"}, !.shutting = H]

\* media_uv_disconnect
LEMMA DisconnectGood ==
    ASSUME NEW s, Good(s), NEW r, r = media_uv_disconnect(s)
    PROVE  /\ Good(r) /\ (Paired(s) => Paired(r))
           /\ r.flags = s.flags \cup {"DISCONNECT"}
           /\ s.cpipe # NULL => Disconnected(r, s)
<1>0. s \in UvType /\ s.flags \in SUBSET Flags
  BY DEF Good, UvType
<1>1. CASE "DISCONNECT" \in s.flags
  <2>1. r = s /\ s.flags = s.flags \cup {"DISCONNECT"}
    BY <1>1 DEF media_uv_disconnect
  <2>2. PICK F : F = s.flags \cup {"DISCONNECT"}
    OBVIOUS
  <2>3. s = [s EXCEPT !.flags = F, !.shutting = s.shutting]
    BY <1>0, <2>1, <2>2 DEF UvType
  <2>4. Disconnected(s, s)
    BY <2>2, <2>3 DEF Disconnected
  <2>5. QED
    BY <2>1, <2>4
<1>2. CASE "DISCONNECT" \notin s.flags
  <2>1. PICK t : t = IF s.flags = {} THEN media_uv_shutdown(s, s.cpipe) ELSE s
    OBVIOUS
  <2>2. \E H, b : /\ t = [s EXCEPT !.shutting = H, !.bad = b] /\ (\A k \in H : k \in s.shutting \/ (OpenPipe(s) /\ k = s.cpipe))
                  /\ b \in {s.bad, "null"} /\ (s.cpipe # NULL => b = s.bad)
    <3>1. s = [s EXCEPT !.shutting = s.shutting, !.bad = s.bad]
      BY <1>0 DEF UvType
    <3>2. CASE t = s
      BY <3>1, <3>2
    <3>3. CASE s.cpipe = NULL /\ t = [s EXCEPT !.bad = "null"]
      <4>1. t = [s EXCEPT !.shutting = s.shutting, !.bad = "null"]
        BY <1>0, <3>3 DEF UvType
      <4>2. QED
        BY <3>3, <4>1
    <3>4. CASE OpenPipe(s) /\ t = [s EXCEPT !.shutting = s.shutting \cup {s.cpipe}]
      <4>1. t = [s EXCEPT !.shutting = s.shutting \cup {s.cpipe}, !.bad = s.bad]
        BY <1>0, <3>4 DEF UvType
      <4>2. QED
        BY <3>4, <4>1
    <3>5. QED
      BY <2>1, <3>2, <3>3, <3>4 DEF media_uv_shutdown, OpenPipe
  <2>3. PICK H, b : /\ t = [s EXCEPT !.shutting = H, !.bad = b] /\ (\A k \in H : k \in s.shutting \/ (OpenPipe(s) /\ k = s.cpipe))
                    /\ b \in {s.bad, "null"} /\ (s.cpipe # NULL => b = s.bad)
    BY <2>2
  <2>4. PICK F \in SUBSET Flags : F = s.flags \cup {"DISCONNECT"}
    BY <1>0 DEF Flags
  <2>5. PICK u : u = [t EXCEPT !.flags = F]
    OBVIOUS
  <2>6. u = [s EXCEPT !.flags = F, !.shutting = H, !.bad = b]
    BY <1>0, <2>3, <2>5 DEF UvType
  <2>7. r = media_uv_free_proxy(u)
    <3>1. t.flags = s.flags
      BY <1>0, <2>3 DEF UvType
    <3>2. QED
      BY <1>2, <2>1, <2>4, <2>5, <3>1 DEF media_uv_disconnect
  <2>8. u \in UvType
    <3>1. s.cpipe \in OrNull(Nat)
      BY <1>0 DEF UvType
    <3>2. H \in SUBSET Nat
      BY <1>0, <2>3, <3>1 DEF UvType, OrNull, OpenPipe
    <3>3. b \in {"no", "null", "freed"}
      BY <1>0, <2>3 DEF UvType
    <3>4. QED
      BY <1>0, <2>6, <3>2, <3>3 DEF UvType
  <2>9. /\ u.pipes = s.pipes /\ u.cpipe = s.cpipe /\ u.epipe = s.epipe /\ u.due = s.due
        /\ u.pendq = s.pendq /\ u.sentq = s.sentq /\ u.wire = s.wire /\ u.answers = s.answers
        /\ u.ids = s.ids /\ u.written = s.written /\ u.freed = s.freed
        /\ u.released = s.released /\ u.flags = F /\ u.shutting = H /\ u.bad = b
    BY <1>0, <2>6 DEF UvType
  <2>10. b # "freed"
    BY <2>3 DEF Good
  <2>11. Good(u) /\ (Paired(s) => Paired(u))
    BY <2>3, <2>4, <2>8, <2>9, <2>10, FlagsGood
  <2>12. s.released = 0
    BY <1>2, NotReleased
  <2>13. /\ Good(r) /\ (Paired(u) => Paired(r)) /\ r.flags = u.flags
         /\ u.cpipe # NULL => r = u
    BY <2>7, <2>9, <2>11, <2>12, FreeProxyGood
  <2>14. s.cpipe # NULL => r = [s EXCEPT !.flags = F, !.shutting = H]
    <3>1. ASSUME s.cpipe # NULL PROVE r = [s EXCEPT !.flags = F, !.shutting = H]
      <4>1. r = [s EXCEPT !.flags = F, !.shutting = H, !.bad = s.bad]
        BY <2>3, <2>6, <2>9, <2>13, <3>1
      <4>2. QED
        BY <1>0, <4>1 DEF UvType
    <3>2. QED
      BY <3>1
  <2>15. s.cpipe # NULL => Disconnected(r, s)
    BY <2>4, <2>14 DEF Disconnected
  <2>16. QED
    BY <2>4, <2>9, <2>11, <2>13, <2>15
<1>3. QED
  BY <1>1, <1>2

LEMMA RemoveAbsent ==
    ASSUME NEW q \in Seq(Message), NEW w \in Message, NotIn(q, w.id)
    PROVE  RemoveFirst(q, w) = q /\ RemoveFirst(Append(q, w), w) = q
<1>1. \A i \in 1 .. Len(q) : q[i] # w
  BY DEF NotIn
<1>2. RemoveFirst(q, w) = q
  BY <1>1, RemoveFirstCuts
<1>3. PICK a : Added(a, q, w)
  BY DEF Added
<1>4. /\ a \in Seq(Message) /\ Len(q) \in Nat /\ Len(a) = Len(q) + 1
      /\ a[Len(q) + 1] = w /\ \A i \in 1 .. Len(q) : a[i] = q[i]
  BY <1>3, AddedKeeps
<1>5. PICK n \in Nat : n = Len(q)
  BY <1>4
<1>6. n + 1 \in 1 .. Len(a)
  BY <1>4, <1>5
<1>7. PICK p \in 1 .. Len(a) : /\ a[p] = w /\ \A i \in 1 .. p - 1 : a[i] # w
                               /\ RemoveFirst(a, w) = Cut(a, p)
  BY <1>4, <1>5, <1>6, RemoveFirstCuts
<1>8. p = n + 1
  <2>1. p \in 1 .. n => FALSE
    BY <1>1, <1>4, <1>5, <1>7
  <2>2. p \in 1 .. n + 1
    BY <1>4, <1>5
  <2>3. QED
    BY <2>1, <2>2
<1>9. PICK c : c = Cut(a, p)
  OBVIOUS
<1>10. /\ c \in Seq(Message) /\ Len(c) = Len(a) - 1
       /\ \A i \in 1 .. Len(a) - 1 : c[i] = IF i < p THEN a[i] ELSE a[i + 1]
  BY <1>4, <1>9, CutElements
<1>11. Len(c) = n /\ \A i \in 1 .. n : c[i] = q[i]
  BY <1>4, <1>5, <1>8, <1>10
<1>12. c = q
  BY <1>5, <1>10, <1>11, SeqEqual
<1>13. QED
  BY <1>2, <1>3, <1>7, <1>9, <1>12 DEF Added

\* A writing that failed is gone from sentq; what is left of WriteFails.
AfterFailure(t, w) ==
    media_uv_free_writing(
        CASE w.code = "close" -> media_uv_disconnect(t)
          [] w.code = "open"  -> [t EXCEPT !.flags = @ \cup {"RECONNECT"}]
          [] OTHER            -> t, w)

Failed(r, s, w) ==
    \E F, H, G :
        /\ r = [s EXCEPT !.flags = F, !.shutting = H, !.freed = G]
        /\ s.flags \subseteq F /\ F \subseteq s.flags \cup {"DISCONNECT", "RECONNECT"}
        /\ (w.code # "open" => F \subseteq s.flags \cup {"DISCONNECT"})
        /\ (w.code # "close" /\ w.code # "open" => F = s.flags)

LEMMA FailureGood ==
    ASSUME NEW s, Good(s), s.cpipe # NULL, NEW w \in Message, NEW r, r = AfterFailure(s, w)
    PROVE  /\ Good(r) /\ (Paired(s) => Paired(r))
           /\ Failed(r, s, w)
<1>0. s \in UvType /\ s.flags \in SUBSET Flags
  BY DEF Good, UvType
<1> DEFINE Middle(t) ==
        /\ Good(t) /\ (Paired(s) => Paired(t))
        /\ \E F, H : /\ t = [s EXCEPT !.flags = F, !.shutting = H]
                     /\ s.flags \subseteq F /\ F \subseteq s.flags \cup {"DISCONNECT", "RECONNECT"}
                     /\ (w.code # "open" => F \subseteq s.flags \cup {"DISCONNECT"})
                     /\ (w.code # "close" /\ w.code # "open" => F = s.flags)
<1>1. \E t : Middle(t) /\ r = media_uv_free_writing(t, w)
  <2>1. CASE w.code = "close"
    <3>1. PICK t : t = media_uv_disconnect(s)
      OBVIOUS
    <3>2. r = media_uv_free_writing(t, w)
      BY <2>1, <3>1 DEF AfterFailure
    <3>3. PICK F : F = s.flags \cup {"DISCONNECT"}
      OBVIOUS
    <3>41. Good(t) /\ (Paired(s) => Paired(t)) /\ Disconnected(t, s)
      BY <3>1, DisconnectGood
    <3>4. \E H : t = [s EXCEPT !.flags = F, !.shutting = H]
      BY <3>3, <3>41 DEF Disconnected
    <3>5. s.flags \subseteq F /\ F \subseteq s.flags \cup {"DISCONNECT"}
      BY <3>3
    <3>6. Middle(t)
      BY <2>1, <3>4, <3>41, <3>5
    <3>7. QED
      BY <3>2, <3>6
  <2>2. CASE w.code = "open"
    <3>1. PICK F \in SUBSET Flags : F = s.flags \cup {"RECONNECT"}
      BY <1>0 DEF Flags
    <3>2. PICK t : t = [s EXCEPT !.flags = F, !.shutting = s.shutting]
      OBVIOUS
    <3>3. t = [s EXCEPT !.flags = @ \cup {"RECONNECT"}]
      BY <1>0, <3>1, <3>2 DEF UvType
    <3>4. r = media_uv_free_writing(t, w)
      BY <2>2, <3>3 DEF AfterFailure
    <3>5. /\ t.pipes = s.pipes /\ t.cpipe = s.cpipe /\ t.epipe = s.epipe /\ t.due = s.due
          /\ t.pendq = s.pendq /\ t.sentq = s.sentq /\ t.wire = s.wire /\ t.answers = s.answers
          /\ t.ids = s.ids /\ t.written = s.written /\ t.freed = s.freed
          /\ t.released = s.released /\ t.flags = F /\ t.shutting = s.shutting /\ t.bad = s.bad
      BY <1>0, <3>2 DEF UvType
    <3>6. t \in UvType
      BY <1>0, <3>2 DEF UvType
    <3>7. s.bad # "freed" /\ (s.released > 0 => "DISCONNECT" \in F)
      BY <3>1 DEF Good, Released
    <3>8. "CONNECTING" \in F <=> "CONNECTING" \in s.flags
      BY <3>1
    <3>9. Good(t) /\ (Paired(s) => Paired(t))
      BY <3>5, <3>6, <3>7, <3>8, FlagsGood
    <3>10. s.flags \subseteq F /\ F \subseteq s.flags \cup {"DISCONNECT", "RECONNECT"}
      BY <3>1
    <3>11. Middle(t)
      BY <2>2, <3>2, <3>9, <3>10
    <3>12. QED
      BY <3>4, <3>11
  <2>3. CASE w.code # "close" /\ w.code # "open"
    <3>1. r = media_uv_free_writing(s, w)
      BY <2>3 DEF AfterFailure
    <3>2. s = [s EXCEPT !.flags = s.flags, !.shutting = s.shutting]
      BY <1>0 DEF UvType
    <3>3. Middle(s)
      BY <2>3, <3>2
    <3>4. QED
      BY <3>1, <3>3
  <2>4. QED
    BY <2>1, <2>2, <2>3
<1>2. PICK t : Middle(t) /\ r = media_uv_free_writing(t, w)
  BY <1>1
<1>3. PICK F, H : /\ t = [s EXCEPT !.flags = F, !.shutting = H]
                  /\ s.flags \subseteq F /\ F \subseteq s.flags \cup {"DISCONNECT", "RECONNECT"}
                  /\ (w.code # "open" => F \subseteq s.flags \cup {"DISCONNECT"})
                  /\ (w.code # "close" /\ w.code # "open" => F = s.flags)
  BY <1>2
<1>4. /\ Good(r) /\ (Paired(t) => Paired(r))
      /\ \E G : r = [t EXCEPT !.freed = G]
  <2>1. Good(t) /\ r = media_uv_free_writing(t, w)
    BY <1>2
  <2> HIDE DEF Middle
  <2>2. QED
    BY <2>1, FreeWritingGood
<1>5. PICK G : r = [t EXCEPT !.freed = G]
  BY <1>4
<1>6. r = [s EXCEPT !.flags = F, !.shutting = H, !.freed = G]
  BY <1>0, <1>3, <1>5 DEF UvType
<1>7. QED
  BY <1>2, <1>3, <1>4, <1>6 DEF Failed

\* What sending leaves alone.
Sends(r, s) ==
    /\ r.pipes = s.pipes /\ r.cpipe = s.cpipe /\ r.epipe = s.epipe
    /\ s.flags \subseteq r.flags /\ r.flags \subseteq s.flags \cup {"DISCONNECT"}

LEMMA SendsTwice ==
    ASSUME NEW s, NEW t, NEW r, Sends(t, s), Sends(r, t)
    PROVE  Sends(r, s)
BY DEF Sends

LEMMA SentType ==
    ASSUME NEW s \in UvType, NEW Q \in Seq(Message), NEW R \in SUBSET (Nat \ {0}),
           NEW D \in Seq(Message), NEW X \in Seq(Message)
    PROVE  [s EXCEPT !.sentq = Q, !.responsed = R, !.due = D, !.wire = X] \in UvType
BY DEF UvType

\* media_uv_send_writing
LEMMA SendGood ==
    ASSUME NEW s, Good(s), NEW w, Fresh(s, w), Above(s.pendq, w), w.code # "open",
           Ack(w) => "CONNECTING" \notin s.flags,
           NEW r, r = media_uv_send_writing(s, w)
    PROVE  /\ Good(r) /\ (Paired(s) => Paired(r))
           /\ Sends(r, s) /\ r.pendq = s.pendq /\ (w.code # "close" => r.flags = s.flags)
<1>0. s \in UvType /\ w \in Message /\ w.id \in Nat \ {0} /\ s.sentq \in Seq(Message)
  BY DEF Good, Fresh, Message, UvType
<1>1. CASE s.cpipe = NULL
  <2>1. r = [s EXCEPT !.bad = "null"]
    BY <1>1 DEF media_uv_send_writing
  <2>2. /\ r.pipes = s.pipes /\ r.cpipe = s.cpipe /\ r.epipe = s.epipe /\ r.due = s.due
        /\ r.pendq = s.pendq /\ r.sentq = s.sentq /\ r.wire = s.wire /\ r.answers = s.answers
        /\ r.ids = s.ids /\ r.written = s.written /\ r.freed = s.freed
        /\ r.released = s.released /\ r.flags = s.flags /\ r.shutting = s.shutting /\ r.bad = "null"
    BY <1>0, <2>1 DEF UvType
  <2>3. r \in UvType
    BY <1>0, <2>1 DEF UvType
  <2>4. s.released > 0 => "DISCONNECT" \in s.flags
    BY DEF Good, Released
  <2>5. Good(r) /\ (Paired(s) => Paired(r))
    BY <2>2, <2>3, <2>4, FlagsGood
  <2>6. QED
    BY <2>2, <2>5 DEF Sends
<1>2. CASE s.cpipe # NULL /\ s.pipes[s.cpipe] = "open"
  <2>0. OpenPipe(s)
    BY <1>2 DEF OpenPipe
  <2>1. PICK D : Added(D, s.due, w)
    BY DEF Added
  <2>2. PICK X : Added(X, s.wire, w)
    BY DEF Added
  <2>3. PICK Q, R : /\ (Ack(w) => Added(Q, s.sentq, w) /\ R = s.responsed)
                    /\ (~ Ack(w) => Q = s.sentq /\ R = s.responsed \cup {w.id})
    BY DEF Added
  <2>4. r = [s EXCEPT !.sentq = Q, !.responsed = R, !.due = D, !.wire = X]
    <3>1. CASE Ack(w)
      BY <1>0, <1>2, <2>1, <2>2, <2>3, <3>1 DEF media_uv_send_writing, Added, UvType
    <3>2. CASE ~ Ack(w)
      BY <1>0, <1>2, <2>1, <2>2, <2>3, <3>2 DEF media_uv_send_writing, Added, UvType
    <3>3. QED
      BY <3>1, <3>2
  <2>5. /\ r.pipes = s.pipes /\ r.cpipe = s.cpipe /\ r.epipe = s.epipe /\ r.due = D
        /\ r.pendq = s.pendq /\ r.sentq = Q /\ r.wire = X /\ r.answers = s.answers
        /\ r.ids = s.ids /\ r.written = s.written /\ r.freed = s.freed
        /\ r.released = s.released /\ r.flags = s.flags /\ r.shutting = s.shutting /\ r.bad = s.bad
    BY <1>0, <2>4 DEF UvType
  <2>6. r \in UvType
    <3>1. s.due \in Seq(Message) /\ s.wire \in Seq(Message) /\ s.responsed \in SUBSET (Nat \ {0})
      BY <1>0 DEF UvType
    <3>2. D \in Seq(Message)
      BY <1>0, <2>1, <3>1, AddedKeeps
    <3>3. X \in Seq(Message)
      BY <1>0, <2>2, <3>1, AddedKeeps
    <3>4. Q \in Seq(Message)
      BY <1>0, <2>3, AddedKeeps
    <3>5. R \in SUBSET (Nat \ {0})
      BY <1>0, <2>3, <3>1
    <3>6. [s EXCEPT !.sentq = Q, !.responsed = R, !.due = D, !.wire = X] \in UvType
      BY <1>0, <3>2, <3>3, <3>4, <3>5, SentType, Zenon
    <3>7. QED
      BY <2>4, <3>6
  <2>7. IF Ack(w) THEN Added(r.sentq, s.sentq, w) ELSE r.sentq = s.sentq
    BY <2>3, <2>5
  <2>8. Added(r.due, s.due, w) /\ Added(r.wire, s.wire, w)
    BY <2>1, <2>2, <2>5
  <2>9. Good(r) /\ (Paired(s) => Paired(r))
    BY <2>0, <2>5, <2>6, <2>7, <2>8, SentGood
  <2>10. QED
    BY <2>5, <2>9 DEF Sends
<1>3. CASE s.cpipe # NULL /\ s.pipes[s.cpipe] # "open"
  <2>1. PICK W : W = s.written \cup {w.id}
    OBVIOUS
  <2>2. PICK R : R = s.responsed \cup {w.id}
    OBVIOUS
  <2>3. PICK u : u = [s EXCEPT !.responsed = R, !.written = W]
    OBVIOUS
  <2>4. NotIn(s.sentq, w.id) /\ NotIn(s.pendq, w.id) /\ NotIn(s.due, w.id) /\ w.id <= s.ids
    BY DEF Fresh, Unused
  <2>5. r = AfterFailure(u, w)
    <3>1. PICK t : t = IF Ack(w) THEN [s EXCEPT !.sentq = Append(@, w)]
                       ELSE [s EXCEPT !.responsed = @ \cup {w.id}]
      OBVIOUS
    <3>2. u = [t EXCEPT !.sentq = RemoveFirst(@, w),
                        !.responsed = @ \cup {w.id}, !.written = @ \cup {w.id}]
      <4>1. RemoveFirst(s.sentq, w) = s.sentq /\ RemoveFirst(Append(s.sentq, w), w) = s.sentq
        BY <1>0, <2>4, RemoveAbsent
      <4>2. CASE Ack(w)
        <5>1. t = [s EXCEPT !.sentq = Append(s.sentq, w)]
          BY <3>1, <4>2
        <5>2. QED
          BY <1>0, <2>1, <2>2, <2>3, <4>1, <5>1 DEF UvType
      <4>3. CASE ~ Ack(w)
        <5>1. t = [s EXCEPT !.responsed = R]
          BY <2>2, <3>1, <4>3
        <5>2. R = R \cup {w.id}
          BY <2>2
        <5>3. QED
          BY <1>0, <2>1, <2>2, <2>3, <4>1, <5>1, <5>2 DEF UvType
      <4>4. QED
        BY <4>2, <4>3
    <3>3. r = WriteFails(t, w)
      BY <1>3, <3>1 DEF media_uv_send_writing
    <3>4. QED
      BY <3>2, <3>3 DEF WriteFails, AfterFailure
  <2>6. /\ u.pipes = s.pipes /\ u.cpipe = s.cpipe /\ u.epipe = s.epipe /\ u.due = s.due
        /\ u.pendq = s.pendq /\ u.sentq = s.sentq /\ u.wire = s.wire /\ u.answers = s.answers
        /\ u.ids = s.ids /\ u.written = W /\ u.freed = s.freed
        /\ u.released = s.released /\ u.flags = s.flags /\ u.shutting = s.shutting /\ u.bad = s.bad
    BY <1>0, <2>3 DEF UvType
  <2>7. u \in UvType
    <3>1. W \in SUBSET (Nat \ {0}) /\ R \in SUBSET (Nat \ {0})
      BY <1>0, <2>1, <2>2 DEF UvType
    <3>2. QED
      BY <1>0, <2>3, <3>1 DEF UvType
  <2>8. Good(u)
    <3>1. Sub(s.pendq, s.pendq) /\ Sub(s.sentq, s.sentq) /\ Sub(s.due, s.due) /\ Sub(s.wire, s.wire)
      BY SubSame
    <3>2. \A n \in u.written \cup u.freed :
             n \in s.written \cup s.freed \/ (n <= s.ids /\ NotIn(u.pendq, n) /\ NotIn(u.due, n))
      BY <2>1, <2>4, <2>6
    <3>3. QED
      BY <2>6, <2>7, <3>1, <3>2, LessGood
  <2>9. Paired(s) => Paired(u)
    <3>1. OpenPipe(u) => OpenPipe(s) /\ u.sentq = s.sentq /\ u.answers = s.answers /\ u.wire = s.wire
      BY <2>6 DEF OpenPipe
    <3>2. QED
      BY <3>1, PairedSame
  <2>10. /\ Good(r) /\ (Paired(u) => Paired(r))
         /\ Failed(r, u, w)
    BY <1>0, <1>3, <2>5, <2>6, <2>8, FailureGood
  <2>11. PICK F, H, G : /\ r = [u EXCEPT !.flags = F, !.shutting = H, !.freed = G]
                        /\ u.flags \subseteq F /\ F \subseteq u.flags \cup {"DISCONNECT"}
                        /\ (w.code # "close" => F = u.flags)
    BY <2>10 DEF Failed
  <2>12. r.pipes = u.pipes /\ r.cpipe = u.cpipe /\ r.epipe = u.epipe /\ r.flags = F /\ r.pendq = u.pendq
    BY <2>7, <2>11 DEF UvType
  <2>13. QED
    BY <2>6, <2>9, <2>10, <2>11, <2>12 DEF Sends
<1>4. QED
  BY <1>1, <1>2, <1>3

\* media_uv_send
LEMMA QueueGood ==
    ASSUME NEW s, Good(s), NEW code \in Codes, code # "open",
           s.flags = {} /\ code \in {"call", "cast", "close"} => s.pendq = <<>>,
           NEW r, r = media_uv_send(s, code)
    PROVE  /\ Good(r) /\ (Paired(s) => Paired(r))
           /\ Sends(r, s) /\ (s.flags = {} => r.pendq = s.pendq) /\ (code # "close" => r.flags = s.flags)
<1>0. s \in UvType /\ s.flags \in SUBSET Flags
  BY DEF Good, UvType
<1>1. CASE Refuses(s)
  <2>1. r = s
    BY <1>1 DEF media_uv_send
  <2>2. QED
    BY <2>1 DEF Sends
<1>2. CASE ~ Refuses(s)
  <2>1. PICK t : t = [s EXCEPT !.ids = @ + 1]
    OBVIOUS
  <2>2. PICK w : w = [id |-> s.ids + 1, code |-> code]
    OBVIOUS
  <2>3. r = Queue(t, w)
    BY <1>2, <2>1, <2>2 DEF media_uv_send
  <2>4. Good(t) /\ (Paired(s) => Paired(t)) /\ Fresh(t, w) /\ Below(s.pendq, w)
    BY <2>1, <2>2, NewIdGood
  <2>5. t.flags = s.flags /\ t.pendq = s.pendq /\ t.pipes = s.pipes /\ t.cpipe = s.cpipe /\ t.epipe = s.epipe
    BY <1>0, <2>1 DEF UvType
  <2>6. w.code = code
    BY <2>2
  <2>7. CASE s.flags = {}
    <3>1. Above(t.pendq, w)
      <4>1. Asked(w) => s.pendq = <<>>
        BY <2>6, <2>7 DEF Asked
      <4>2. CASE Asked(w)
        BY <2>5, <4>1, <4>2, EmptyKeeps
      <4>3. CASE ~ Asked(w)
        BY <4>3 DEF Above
      <4>4. QED
        BY <4>2, <4>3
    <3>2. r = media_uv_send_writing(t, w)
      BY <2>3, <2>5, <2>7 DEF Queue
    <3>3. "CONNECTING" \notin t.flags
      BY <2>5, <2>7
    <3>4. /\ Good(r) /\ (Paired(t) => Paired(r))
          /\ Sends(r, t) /\ r.pendq = t.pendq /\ (w.code # "close" => r.flags = t.flags)
      BY <2>4, <2>6, <3>1, <3>2, <3>3, SendGood
    <3>5. Sends(r, s)
      BY <2>5, <3>4 DEF Sends
    <3>6. QED
      BY <2>4, <2>5, <2>6, <3>4, <3>5
  <2>8. CASE s.flags # {}
    <3>1. r = [t EXCEPT !.pendq = Append(@, w)]
      BY <2>3, <2>5, <2>8 DEF Queue
    <3>2. Below(t.pendq, w) /\ w.code # "open"
      BY <2>4, <2>5, <2>6
    <3>3. Good(r) /\ (Paired(t) => Paired(r))
      BY <2>4, <3>1, <3>2, PendGood
    <3>4. t \in UvType
      BY <2>4 DEF Good
    <3>5. r.flags = t.flags /\ r.pipes = t.pipes /\ r.cpipe = t.cpipe /\ r.epipe = t.epipe
      BY <3>1, <3>4 DEF UvType
    <3>6. Sends(r, s)
      BY <2>5, <3>5 DEF Sends
    <3>7. QED
      BY <2>4, <2>5, <2>8, <3>3, <3>5, <3>6
  <2>9. QED
    BY <2>7, <2>8
<1>3. QED
  BY <1>1, <1>2

\* The recursive function of media_uv_delivery_writing.
Sending(s, m, f) ==
    f = [n \in 0 .. m |->
            IF n = 0 THEN s
            ELSE media_uv_send_writing([f[n - 1] EXCEPT !.pendq = Tail(@)], Head(f[n - 1].pendq))]

LEMMA SendingExists ==
    ASSUME NEW s, NEW m \in Nat
    PROVE  \E f : Sending(s, m, f)
<1> DEFINE S == {n \in Nat : ~ \E f : Sending(s, n, f)}
<1>1. SUFFICES ASSUME S # {} PROVE FALSE
  OBVIOUS
<1>2. PICK n \in S : \A y \in S : n <= y
  BY <1>1, LeastNat
<1>3. CASE n = 0
  <2> DEFINE f == [k \in 0 .. 0 |-> s]
  <2>1. Sending(s, 0, f)
    BY DEF Sending
  <2>2. QED
    BY <1>3, <2>1
<1>4. CASE n # 0
  <2>1. n - 1 \in Nat /\ n - 1 \notin S
    BY <1>2, <1>4
  <2>2. PICK r : Sending(s, n - 1, r)
    BY <2>1
  <2> DEFINE step(t) == media_uv_send_writing([t EXCEPT !.pendq = Tail(@)], Head(t.pendq))
             f == [k \in 0 .. n |-> IF k = n THEN step(r[n - 1]) ELSE r[k]]
  <2>3. \A k \in 0 .. n - 1 : r[k] = IF k = 0 THEN s ELSE step(r[k - 1])
    BY <2>2 DEF Sending
  <2> HIDE DEF step
  <2>4. ASSUME NEW k \in 0 .. n
        PROVE  f[k] = IF k = 0 THEN s ELSE step(f[k - 1])
    <3>1. CASE k = n
      <4>1. f[k] = step(r[n - 1]) /\ f[k - 1] = r[n - 1]
        BY <3>1, <1>4, <1>2
      <4>2. QED
        BY <4>1, <3>1, <1>4
    <3>2. CASE k # n
      <4>1. k \in 0 .. n - 1 /\ f[k] = r[k]
        BY <3>2
      <4>2. k # 0 => f[k - 1] = r[k - 1]
        BY <4>1
      <4> HIDE DEF f
      <4>3. QED
        BY <4>1, <4>2, <2>3
    <3>3. QED
      BY <3>1, <3>2
  <2>5. f = [k \in 0 .. n |-> f[k]]
    OBVIOUS
  <2> HIDE DEF f
  <2>6. Sending(s, n, f)
    BY <2>4, <2>5 DEF Sending, step
  <2>7. QED
    BY <2>6
<1>5. QED
  BY <1>3, <1>4

LEMMA DeliverySends ==
    ASSUME NEW s, s.pendq \in Seq(Message)
    PROVE  \E f : Sending(s, Len(s.pendq), f) /\ media_uv_delivery_writing(s) = f[Len(s.pendq)]
<1> DEFINE F(f) == f = [n \in 0 .. Len(s.pendq) |->
                           IF n = 0 THEN s
                           ELSE media_uv_send_writing([f[n - 1] EXCEPT !.pendq = Tail(@)],
                                                      Head(f[n - 1].pendq))]
           f0   == CHOOSE f : F(f)
<1>1. media_uv_delivery_writing(s) = f0[Len(s.pendq)]
  BY DEF media_uv_delivery_writing
<1>2. Len(s.pendq) \in Nat
  OBVIOUS
<1>3. PICK r : Sending(s, Len(s.pendq), r)
  BY <1>2, SendingExists
<1>4. F(r)
  BY <1>3 DEF Sending
<1> HIDE DEF F
<1>5. F(f0)
  BY <1>4
<1>6. Sending(s, Len(s.pendq), f0)
  <2> HIDE DEF f0
  <2>1. QED
    BY <1>5 DEF F, Sending
<1>7. QED
  BY <1>1, <1>6

\* media_uv_delivery_writing
LEMMA DeliveryGood ==
    ASSUME NEW s, Good(s), "CONNECTING" \notin s.flags, NEW r, r = media_uv_delivery_writing(s)
    PROVE  Good(r) /\ (Paired(s) => Paired(r)) /\ Sends(r, s) /\ r.pendq = <<>>
<1>0. s \in UvType /\ s.pendq \in Seq(Message)
  BY DEF Good, UvType
<1>1. PICK m \in Nat : m = Len(s.pendq)
  BY <1>0
<1>2. PICK f : Sending(s, m, f) /\ r = f[m]
  BY <1>0, <1>1, DeliverySends
<1> DEFINE Kept(n) == /\ Good(f[n]) /\ (Paired(s) => Paired(f[n])) /\ Sends(f[n], s)
                      /\ Len(f[n].pendq) = m - n
           S == {n \in 0 .. m : ~ Kept(n)}
<1>3. ASSUME S # {} PROVE FALSE
  <2>1. S \subseteq Nat
    OBVIOUS
  <2>2. PICK n \in S : \A y \in S : n <= y
    BY <1>3, <2>1, LeastNat
  <2>3. n \in 0 .. m /\ ~ Kept(n)
    OBVIOUS
  <2>4. CASE n = 0
    <3>1. f[0] = s
      BY <1>1, <1>2 DEF Sending
    <3>2. Sends(s, s)
      BY DEF Sends
    <3>3. Kept(0)
      BY <1>1, <3>1, <3>2
    <3>4. QED
      BY <2>3, <2>4, <3>3
  <2>5. CASE n # 0
    <3>1. n - 1 \in 0 .. m /\ n - 1 \notin S
      BY <2>2, <2>3, <2>5
    <3>2. Kept(n - 1)
      BY <3>1
    <3>3. PICK t : t = f[n - 1]
      OBVIOUS
    <3>4. PICK u : u = [t EXCEPT !.pendq = Tail(@)]
      OBVIOUS
    <3>5. PICK w : w = Head(t.pendq)
      OBVIOUS
    <3>6. f[n] = media_uv_send_writing(u, w)
      BY <1>2, <2>3, <2>5, <3>3, <3>4, <3>5 DEF Sending
    <3>7. Good(t) /\ (Paired(s) => Paired(t)) /\ Sends(t, s) /\ Len(t.pendq) = m - (n - 1)
      BY <3>2, <3>3
    <3> HIDE DEF Kept, S
    <3>8. t \in UvType /\ t.pendq \in Seq(Message) /\ t.pendq # <<>>
      <4>1. t \in UvType /\ t.pendq \in Seq(Message)
        BY <3>7 DEF Good, UvType
      <4>2. Len(t.pendq) # 0
        BY <2>3, <2>5, <3>7
      <4>3. QED
        BY <4>1, <4>2
    <3>9. /\ Good(u) /\ (Paired(t) => Paired(u))
          /\ Fresh(u, w) /\ Above(u.pendq, w) /\ w.code # "open"
      BY <3>4, <3>5, <3>7, <3>8, PopGood
    <3>10. u.flags = t.flags /\ u.pipes = t.pipes /\ u.cpipe = t.cpipe /\ u.epipe = t.epipe /\ u.pendq = Tail(t.pendq)
      BY <3>4, <3>8 DEF UvType
    <3>11. "CONNECTING" \notin u.flags
      BY <3>7, <3>10 DEF Sends
    <3>12. PICK x : x = f[n]
      OBVIOUS
    <3>13. Good(x) /\ (Paired(u) => Paired(x)) /\ Sends(x, u) /\ x.pendq = u.pendq
      BY <3>6, <3>9, <3>11, <3>12, SendGood
    <3>14. Sends(x, s)
      BY <3>7, <3>10, <3>13 DEF Sends
    <3>15. Len(x.pendq) = m - n
      <4>1. Len(Tail(t.pendq)) = Len(t.pendq) - 1
        BY <3>8, TailSub
      <4>2. QED
        BY <2>3, <3>7, <3>10, <3>13, <4>1
    <3>16. Kept(n)
      BY <3>7, <3>9, <3>12, <3>13, <3>14, <3>15 DEF Kept
    <3>17. QED
      BY <2>3, <3>16
  <2>6. QED
    BY <2>4, <2>5
<1>4. Kept(m)
  BY <1>3
<1>5. Good(r) /\ (Paired(s) => Paired(r)) /\ Sends(r, s) /\ Len(r.pendq) = 0
  BY <1>1, <1>2, <1>4
<1> HIDE DEF Kept, S
<1>6. r.pendq \in Seq(Message)
  BY <1>5 DEF Good, UvType
<1>7. r.pendq = <<>>
  BY <1>5, <1>6, EmptySeq
<1>8. QED
  BY <1>5, <1>7

\* What the callbacks of the application leave alone.
Stays(r, s) ==
    /\ r.pipes = s.pipes /\ r.cpipe = s.cpipe /\ r.epipe = s.epipe
    /\ s.flags \subseteq r.flags /\ r.flags \subseteq s.flags \cup {"DISCONNECT", "RECONNECT", "LISTENING"}

\* Fields that concern neither pipes nor messages.
Marked(r, s, F) ==
    \E c \in BOOLEAN, f \in BOOLEAN : r = [s EXCEPT !.flags = F, !.closing = c, !.failed = f]

LEMMA MarkGood ==
    ASSUME NEW s, Good(s), NEW F \in SUBSET Flags,
           s.flags \subseteq F, "CONNECTING" \in F => "CONNECTING" \in s.flags,
           NEW r, Marked(r, s, F)
    PROVE  /\ Good(r) /\ (Paired(s) => Paired(r)) /\ r.flags = F
           /\ r.pipes = s.pipes /\ r.cpipe = s.cpipe /\ r.epipe = s.epipe /\ r.cpu = s.cpu
           /\ r.pendq = s.pendq /\ r.sentq = s.sentq
<1>0. s \in UvType
  BY DEF Good
<1>1. PICK c \in BOOLEAN, f \in BOOLEAN : r = [s EXCEPT !.flags = F, !.closing = c, !.failed = f]
  BY DEF Marked
<1>2. /\ r.pipes = s.pipes /\ r.cpipe = s.cpipe /\ r.epipe = s.epipe /\ r.due = s.due
      /\ r.pendq = s.pendq /\ r.sentq = s.sentq /\ r.wire = s.wire /\ r.answers = s.answers
      /\ r.ids = s.ids /\ r.written = s.written /\ r.freed = s.freed
      /\ r.released = s.released /\ r.flags = F /\ r.shutting = s.shutting /\ r.bad = s.bad
      /\ r.cpu = s.cpu
  BY <1>0, <1>1 DEF UvType
<1>3. r \in UvType
  BY <1>0, <1>1 DEF UvType
<1>4. r.bad # "freed" /\ (s.released > 0 => "DISCONNECT" \in r.flags)
  BY <1>2 DEF Good, Released
<1>5. "CONNECTING" \in r.flags <=> "CONNECTING" \in s.flags
  BY <1>2
<1>6. \A k \in r.shutting : k \in s.shutting
  BY <1>2
<1>7. Good(r) /\ (Paired(s) => Paired(r))
  BY <1>2, <1>3, <1>4, <1>5, <1>6, FlagsGood
<1>8. QED
  BY <1>2, <1>7

LEMMA DisconnectSame ==
    ASSUME NEW s, Good(s), NEW r, Disconnected(r, s)
    PROVE  Sends(r, s) /\ "DISCONNECT" \in r.flags /\ r.sentq = s.sentq /\ r.pendq = s.pendq
<1>1. PICK F : F = s.flags \cup {"DISCONNECT"}
  OBVIOUS
<1>2. PICK H : r = [s EXCEPT !.flags = F, !.shutting = H]
  BY <1>1 DEF Disconnected
<1>3. s \in UvType
  BY DEF Good
<1>4. /\ r.flags = F /\ r.pipes = s.pipes /\ r.cpipe = s.cpipe /\ r.epipe = s.epipe
      /\ r.sentq = s.sentq /\ r.pendq = s.pendq
  BY <1>2, <1>3 DEF UvType
<1>5. QED
  BY <1>1, <1>4 DEF Sends

\* The application closes.
LEMMA AppCloseGood ==
    ASSUME NEW s, Good(s), Quiet(s), NEW r, r = Close(s)
    PROVE  /\ Good(r) /\ (Paired(s) => Paired(r)) /\ Quiet(r)
           /\ s.cpipe # NULL => Sends(r, s)
<1>0. s \in UvType /\ s.flags \in SUBSET Flags /\ s.failed \in BOOLEAN
  BY DEF Good, UvType
<1>1. PICK t : t = [s EXCEPT !.closing = TRUE]
  OBVIOUS
<1>2. Marked(t, s, s.flags)
  <2>1. t = [s EXCEPT !.flags = s.flags, !.closing = TRUE, !.failed = s.failed]
    BY <1>0, <1>1 DEF UvType
  <2>2. QED
    BY <1>0, <2>1 DEF Marked
<1>3. /\ Good(t) /\ (Paired(s) => Paired(t)) /\ t.flags = s.flags
      /\ t.pipes = s.pipes /\ t.cpipe = s.cpipe /\ t.epipe = s.epipe
      /\ t.pendq = s.pendq
  BY <1>0, <1>2, MarkGood
<1>4. CASE Refuses(t)
  <2>1. r = media_uv_disconnect(t)
    <3>1. t.cpu = s.cpu
      BY <1>0, <1>1 DEF UvType
    <3>2. QED
      BY <1>1, <1>3, <1>4, <3>1 DEF Close, Refuses
  <2>2. /\ Good(r) /\ (Paired(t) => Paired(r)) /\ r.flags = t.flags \cup {"DISCONNECT"}
    BY <1>3, <2>1, DisconnectGood
  <2>3. ASSUME s.cpipe # NULL PROVE Sends(r, s)
    <3>1. Disconnected(r, t)
      BY <1>3, <2>1, <2>3, DisconnectGood
    <3>2. Sends(r, t)
      BY <1>3, <3>1, DisconnectSame
    <3>3. QED
      BY <1>3, <3>2 DEF Sends
  <2>4. QED
    BY <1>3, <2>2, <2>3 DEF Quiet
<1>5. CASE ~ Refuses(t)
  <2>1. r = media_uv_send(t, "close")
    <3>1. t.cpu = s.cpu
      BY <1>0, <1>1 DEF UvType
    <3>2. QED
      BY <1>1, <1>3, <1>5, <3>1 DEF Close, Refuses
  <2>2. "close" \in Codes /\ "close" # "open" /\ (t.flags = {} => t.pendq = <<>>)
    BY <1>3 DEF Codes, Quiet
  <2>3. /\ Good(r) /\ (Paired(t) => Paired(r))
        /\ Sends(r, t) /\ (t.flags = {} => r.pendq = t.pendq)
    BY <1>3, <2>1, <2>2, QueueGood
  <2>4. Sends(r, s)
    BY <1>3, <2>3 DEF Sends
  <2>5. Quiet(r)
    BY <1>3, <2>2, <2>3 DEF Quiet, Sends
  <2>6. QED
    BY <1>3, <2>3, <2>4, <2>5
<1>6. QED
  BY <1>4, <1>5

\* on_connect with an error
LEMMA ConnectFailsGood ==
    ASSUME NEW s, Good(s), Quiet(s), s.cpipe # NULL, NEW then, NEW r, r = OnConnectFails(s, then)
    PROVE  Good(r) /\ (Paired(s) => Paired(r)) /\ Quiet(r) /\ Stays(r, s)
<1>0. s \in UvType /\ s.flags \in SUBSET Flags /\ s.closing \in BOOLEAN
  BY DEF Good, UvType
<1>1. PICK t : t = [s EXCEPT !.failed = TRUE]
  OBVIOUS
<1>2. Marked(t, s, s.flags)
  <2>1. t = [s EXCEPT !.flags = s.flags, !.closing = s.closing, !.failed = TRUE]
    BY <1>0, <1>1 DEF UvType
  <2>2. QED
    BY <1>0, <2>1 DEF Marked
<1>3. /\ Good(t) /\ (Paired(s) => Paired(t)) /\ t.flags = s.flags
      /\ t.pipes = s.pipes /\ t.cpipe = s.cpipe /\ t.epipe = s.epipe
      /\ t.pendq = s.pendq
  BY <1>0, <1>2, MarkGood
<1>4. Quiet(t)
  BY <1>3 DEF Quiet
<1>5. CASE then = "close" /\ ~ s.closing
  <2>1. r = Close(t)
    BY <1>1, <1>5 DEF OnConnectFails
  <2>2. Good(r) /\ (Paired(t) => Paired(r)) /\ Quiet(r) /\ Sends(r, t)
    BY <1>3, <1>4, <2>1, AppCloseGood
  <2>3. QED
    BY <1>3, <2>2 DEF Sends, Stays
<1>6. CASE then = "disconnect" /\ ~ s.closing
  <2>1. PICK u : u = [t EXCEPT !.closing = TRUE]
    OBVIOUS
  <2>2. r = media_uv_disconnect(u)
    BY <1>1, <1>6, <2>1 DEF OnConnectFails
  <2>3. Marked(u, s, s.flags)
    <3>1. u = [s EXCEPT !.flags = s.flags, !.closing = TRUE, !.failed = TRUE]
      BY <1>0, <1>1, <2>1 DEF UvType
    <3>2. QED
      BY <3>1 DEF Marked
  <2>4. /\ Good(u) /\ (Paired(s) => Paired(u)) /\ u.flags = s.flags
        /\ u.pipes = s.pipes /\ u.cpipe = s.cpipe /\ u.epipe = s.epipe
    BY <1>0, <2>3, MarkGood
  <2>5. /\ Good(r) /\ (Paired(u) => Paired(r)) /\ r.flags = u.flags \cup {"DISCONNECT"}
    BY <2>2, <2>4, DisconnectGood
  <2>6. Disconnected(r, u)
    BY <2>2, <2>4, DisconnectGood
  <2>7. Sends(r, u)
    BY <2>4, <2>6, DisconnectSame
  <2>8. QED
    BY <2>4, <2>5, <2>7 DEF Sends, Stays, Quiet
<1>7. CASE then = "reconnect" /\ s.flags # {}
  <2>1. r = [t EXCEPT !.flags = @ \cup {"RECONNECT"}]
    BY <1>1, <1>7 DEF OnConnectFails
  <2>2. PICK F \in SUBSET Flags : F = s.flags \cup {"RECONNECT"}
    BY <1>0 DEF Flags
  <2>3. Marked(r, s, F)
    <3>1. r = [s EXCEPT !.flags = F, !.closing = s.closing, !.failed = TRUE]
      BY <1>0, <1>1, <2>1, <2>2 DEF UvType
    <3>2. QED
      BY <1>0, <3>1 DEF Marked
  <2>4. s.flags \subseteq F /\ ("CONNECTING" \in F => "CONNECTING" \in s.flags)
    BY <2>2
  <2>5. /\ Good(r) /\ (Paired(s) => Paired(r)) /\ r.flags = F
        /\ r.pipes = s.pipes /\ r.cpipe = s.cpipe /\ r.epipe = s.epipe
    BY <1>0, <2>3, <2>4, MarkGood
  <2>6. QED
    BY <2>2, <2>5 DEF Stays, Quiet
<1>8. CASE /\ ~ (then = "close" /\ ~ s.closing)
           /\ ~ (then = "disconnect" /\ ~ s.closing)
           /\ ~ (then = "reconnect" /\ s.flags # {})
  <2>1. r = t
    BY <1>1, <1>8 DEF OnConnectFails
  <2>2. QED
    BY <1>3, <1>4, <2>1 DEF Stays
<1>9. QED
  BY <1>5, <1>6, <1>7, <1>8

LEMMA PipeNew ==
    ASSUME NEW q \in Seq(PipeStates), NEW x \in PipeStates, NEW r, r = Append(q, x), NEW n, n = Len(q) + 1
    PROVE  /\ r \in Seq(PipeStates) /\ n \in Nat /\ n \in DOMAIN r /\ n \notin DOMAIN q /\ r[n] = x
           /\ DOMAIN r = DOMAIN q \cup {n}
           /\ \A j \in DOMAIN q : j \in Nat /\ j < n /\ r[j] = q[j]
<1>1. /\ r \in Seq(PipeStates) /\ Len(q) \in Nat /\ Len(r) = Len(q) + 1 /\ r[Len(q) + 1] = x
      /\ \A i \in 1 .. Len(q) : r[i] = q[i]
  BY Appended
<1>2. DOMAIN q = 1 .. Len(q) /\ DOMAIN r = 1 .. Len(q) + 1
  BY <1>1
<1>3. PICK m \in Nat : m = Len(q)
  BY <1>1
<1>4. 1 .. m + 1 = (1 .. m) \cup {m + 1} /\ m + 1 \notin 1 .. m
  BY <1>3
<1>5. QED
  BY <1>1, <1>2, <1>3, <1>4

LEMMA ConnectType ==
    ASSUME NEW s \in UvType, NEW p \in Seq(PipeStates), NEW n \in OrNull(Nat), NEW F \in SUBSET Flags
    PROVE  [s EXCEPT !.pipes = p, !.cpipe = n, !.flags = F, !.wire = <<>>, !.answers = <<>>] \in UvType
<1>1. <<>> \in Seq(Message) /\ <<>> \in Seq([id : Nat \ {0}, ret : {0, EPERM}])
  BY EmptySeq
<1>2. PICK X \in Seq(Message), A \in Seq([id : Nat \ {0}, ret : {0, EPERM}]) : X = <<>> /\ A = <<>>
  BY <1>1
<1>3. [s EXCEPT !.pipes = p, !.cpipe = n, !.flags = F, !.wire = X, !.answers = A] \in UvType
  BY DEF UvType
<1>4. QED
  BY <1>2, <1>3

\* media_uv_connect_one
LEMMA ConnectOneGood ==
    ASSUME NEW s, Good(s), s.cpipe # NULL => s.pipes[s.cpipe] = "closing",
           s.sentq = <<>>, s.epipe = NULL, s.released = 0,
           NEW r, r = media_uv_connect_one(s)
    PROVE  /\ Good(r) /\ Paired(r) /\ r.flags = s.flags \cup {"CONNECTING"}
           /\ DOMAIN s.pipes \subseteq DOMAIN r.pipes
           /\ \A j \in DOMAIN s.pipes : r.pipes[j] = s.pipes[j] /\ j # r.cpipe
           /\ r.epipe = NULL
<1>0. s \in UvType /\ s.pipes \in Seq(PipeStates) /\ s.flags \in SUBSET Flags
  BY DEF Good, UvType
<1>1. PICK n : n = Len(s.pipes) + 1
  OBVIOUS
<1>2. PICK p : p = Append(s.pipes, "connecting")
  OBVIOUS
<1>3. "connecting" \in PipeStates
  BY DEF PipeStates
<1>4. /\ p \in Seq(PipeStates) /\ n \in Nat /\ n \in DOMAIN p /\ n \notin DOMAIN s.pipes /\ p[n] = "connecting"
      /\ DOMAIN p = DOMAIN s.pipes \cup {n}
      /\ \A j \in DOMAIN s.pipes : j \in Nat /\ j < n /\ p[j] = s.pipes[j]
  BY <1>0, <1>1, <1>2, <1>3, PipeNew
<1>5. PICK F \in SUBSET Flags : F = s.flags \cup {"CONNECTING"}
  BY <1>0 DEF Flags
<1>6. r = [s EXCEPT !.pipes = p, !.cpipe = n, !.flags = F, !.wire = <<>>, !.answers = <<>>]
  BY <1>0, <1>1, <1>2, <1>5 DEF media_uv_connect_one, OnPipe, NewPipe, UvType
<1>7. /\ r.pipes = p /\ r.cpipe = n /\ r.epipe = s.epipe /\ r.due = s.due
      /\ r.pendq = s.pendq /\ r.sentq = s.sentq /\ r.wire = <<>> /\ r.answers = <<>>
      /\ r.ids = s.ids /\ r.written = s.written /\ r.freed = s.freed
      /\ r.released = s.released /\ r.flags = F /\ r.shutting = s.shutting /\ r.bad = s.bad
  BY <1>0, <1>6 DEF UvType
<1>8. r \in UvType
  <2>1. n \in OrNull(Nat)
    BY <1>4 DEF OrNull
  <2>2. [s EXCEPT !.pipes = p, !.cpipe = n, !.flags = F, !.wire = <<>>, !.answers = <<>>] \in UvType
    BY <1>0, <1>4, <2>1, ConnectType
  <2>3. QED
    BY <1>6, <2>2
<1>9. n # NULL
  BY <1>4, NullAssumption
<1>10. Piped(r)
  <2>1. ASSUME NEW j \in DOMAIN p, Behind(r, j) PROVE Waiting(r, j)
    BY <1>4, <1>7, <1>9, <2>1 DEF Behind, Waiting
  <2>2. ASSUME NEW j \in DOMAIN p, j # n, j # s.epipe PROVE p[j] \in {"closing", "closed"}
    BY <1>4, <2>2 DEF Good, Piped
  <2>3. \A j \in s.shutting : j \in DOMAIN p /\ j # s.epipe /\ p[j] \in {"open", "closing"}
    BY <1>4 DEF Good, Piped
  <2>4. QED
    BY <1>4, <1>7, <1>9, <2>1, <2>2, <2>3 DEF Piped
<1>11. Memory(r)
  <2>1. UpTo(<<>>, s.ids)
    BY EmptyKeeps
  <2>2. QED
    BY <1>7, <2>1 DEF Good, Memory, Unused
<1>12. Linked(r)
  <2>1. Len(s.sentq) = 0
    BY EmptyKeeps
  <2>2. Len(s.sentq) <= 1 /\ \A i \in 1 .. Len(s.sentq) : FALSE
    BY <2>1
  <2>3. "CONNECTING" \in F
    BY <1>5
  <2>4. QED
    BY <1>7, <2>2, <2>3 DEF Good, Linked
<1>13. Ordered(r)
  <2>1. Increasing(<<>>) /\ \A w : Below(<<>>, w)
    BY EmptyKeeps
  <2>2. QED
    BY <1>7, <2>1 DEF Good, Ordered
<1>14. Released(r)
  BY <1>7 DEF Released
<1>15. Paired(r)
  BY <1>4, <1>7 DEF Paired
<1>16. \A j \in DOMAIN s.pipes : r.pipes[j] = s.pipes[j] /\ j # r.cpipe
  BY <1>4, <1>7
<1>17. QED
  BY <1>4, <1>5, <1>7, <1>8, <1>10, <1>11, <1>12, <1>13, <1>14, <1>15, <1>16 DEF Good

LEMMA CpuGood ==
    ASSUME NEW s, Good(s), NEW c \in OrNull(Nat), NEW r, r = [s EXCEPT !.cpu = c]
    PROVE  /\ Good(r) /\ (Paired(s) => Paired(r)) /\ r.flags = s.flags
           /\ r.pipes = s.pipes /\ r.cpipe = s.cpipe /\ r.epipe = s.epipe
           /\ r.pendq = s.pendq /\ r.sentq = s.sentq /\ r.released = s.released
<1>0. s \in UvType
  BY DEF Good
<1>1. /\ r.pipes = s.pipes /\ r.cpipe = s.cpipe /\ r.epipe = s.epipe /\ r.due = s.due
      /\ r.pendq = s.pendq /\ r.sentq = s.sentq /\ r.wire = s.wire /\ r.answers = s.answers
      /\ r.ids = s.ids /\ r.written = s.written /\ r.freed = s.freed
      /\ r.released = s.released /\ r.flags = s.flags /\ r.shutting = s.shutting /\ r.bad = s.bad
  BY <1>0 DEF UvType
<1>2. r \in UvType
  BY <1>0 DEF UvType
<1>3. r.bad # "freed" /\ (s.released > 0 => "DISCONNECT" \in r.flags)
  BY <1>1 DEF Good, Released
<1>4. \A k \in r.shutting : k \in s.shutting
  BY <1>1
<1>5. Good(r) /\ (Paired(s) => Paired(r))
  BY <1>1, <1>2, <1>3, <1>4, FlagsGood
<1>6. QED
  BY <1>1, <1>5

LEMMA ClosedSame ==
    ASSUME NEW s, Good(s), NEW k \in DOMAIN s.pipes, NEW r, Closed(r, s, k)
    PROVE  /\ r.cpipe = s.cpipe /\ r.epipe = s.epipe /\ r.flags = s.flags
           /\ r.pendq = s.pendq /\ r.sentq = s.sentq /\ r.released = s.released /\ r.cpu = s.cpu
           /\ DOMAIN r.pipes = DOMAIN s.pipes /\ r.pipes[k] \in {"closing", "closed"}
           /\ \A j \in DOMAIN s.pipes : j # k => r.pipes[j] = s.pipes[j]
<1>1. PICK p : /\ r = [s EXCEPT !.pipes = p] /\ DOMAIN p = DOMAIN s.pipes
               /\ p[k] \in {"closing", "closed"} /\ \A j \in DOMAIN p : j # k => p[j] = s.pipes[j]
  BY DEF Closed
<1>2. /\ r.pipes = p /\ r.cpipe = s.cpipe /\ r.epipe = s.epipe /\ r.flags = s.flags
      /\ r.pendq = s.pendq /\ r.sentq = s.sentq /\ r.released = s.released /\ r.cpu = s.cpu
  BY <1>1 DEF Good, UvType
<1>3. QED
  BY <1>1, <1>2

LEMMA ReconnectOneGood ==
    ASSUME NEW s, Good(s), s.cpipe # NULL, s.pipes[s.cpipe] # "connecting",
           s.sentq = <<>>, s.epipe = NULL,
           NEW then, NEW r, r = media_uv_reconnect_one(s, then)
    PROVE  /\ Good(r) /\ (Paired(s) => Paired(r)) /\ Quiet(r)
           /\ s.cpipe \in DOMAIN r.pipes /\ r.pipes[s.cpipe] # "connecting" /\ r.epipe = NULL
<1>0. s \in UvType /\ s.cpu \in OrNull(Nat) /\ s.cpipe \in DOMAIN s.pipes /\ s.released = 0
  BY NotReleased DEF Good, UvType, Piped
<1>1. CASE s.cpu = NULL \/ s.cpu = Len(world)
  <2>1. PICK t : t = media_uv_clear_queue(s)
    OBVIOUS
  <2>2. PICK u : u = [t EXCEPT !.cpu = NULL]
    OBVIOUS
  <2>3. r = OnConnectFails(u, then)
    BY <1>1, <2>1, <2>2 DEF media_uv_reconnect_one
  <2>4. Good(t) /\ (Paired(s) => Paired(t)) /\ t.pendq = <<>>
    BY <2>1, ClearGood
  <2>5. t.pipes = s.pipes /\ t.cpipe = s.cpipe /\ t.epipe = s.epipe
    BY <1>0, <2>1 DEF media_uv_clear_queue, UvType
  <2>6. NULL \in OrNull(Nat)
    BY DEF OrNull
  <2>7. /\ Good(u) /\ (Paired(t) => Paired(u))
        /\ u.pipes = t.pipes /\ u.cpipe = t.cpipe /\ u.epipe = t.epipe /\ u.pendq = t.pendq
    BY <2>2, <2>4, <2>6, CpuGood
  <2>8. Quiet(u) /\ u.cpipe # NULL
    BY <2>4, <2>5, <2>7 DEF Quiet
  <2>9. Good(r) /\ (Paired(u) => Paired(r)) /\ Quiet(r) /\ Stays(r, u)
    BY <2>3, <2>7, <2>8, ConnectFailsGood
  <2>10. r.pipes = s.pipes /\ r.epipe = NULL
    BY <2>5, <2>7, <2>9 DEF Stays
  <2>11. QED
    BY <1>0, <2>4, <2>7, <2>9, <2>10
<1>2. CASE ~ (s.cpu = NULL \/ s.cpu = Len(world))
  <2>1. PICK t : t = media_uv_close(s, s.cpipe)
    OBVIOUS
  <2>2. PICK c \in OrNull(Nat) : c = t.cpu + 1
    <3>1. t.cpu = s.cpu
      BY <1>0, <2>1 DEF media_uv_close, UvType
    <3>2. s.cpu \in Nat
      BY <1>0, <1>2 DEF OrNull
    <3>3. s.cpu + 1 \in OrNull(Nat)
      BY <3>2 DEF OrNull
    <3>4. QED
      BY <3>1, <3>3
  <2>3. PICK u : u = [t EXCEPT !.cpu = c]
    OBVIOUS
  <2>4. r = media_uv_connect_one(u)
    BY <1>2, <2>1, <2>2, <2>3 DEF media_uv_reconnect_one
  <2>5. Good(t) /\ (Paired(s) => Paired(t)) /\ Closed(t, s, s.cpipe)
    <3>1. s.cpipe # s.epipe
      BY DEF Good, Piped
    <3>2. QED
      BY <1>0, <2>1, <3>1, CloseGood
  <2>6. /\ t.cpipe = s.cpipe /\ t.epipe = s.epipe
        /\ t.sentq = s.sentq /\ t.released = s.released
        /\ DOMAIN t.pipes = DOMAIN s.pipes /\ t.pipes[s.cpipe] \in {"closing", "closed"}
    BY <1>0, <2>5, ClosedSame
  <2>7. /\ Good(u) /\ u.pipes = t.pipes /\ u.cpipe = t.cpipe /\ u.epipe = t.epipe
        /\ u.sentq = t.sentq /\ u.released = t.released
    BY <2>3, <2>5, CpuGood
  <2>8. u.pipes[u.cpipe] = "closing"
    BY <2>6, <2>7 DEF Good, Piped
  <2>9. /\ Good(r) /\ Paired(r) /\ r.flags = u.flags \cup {"CONNECTING"}
        /\ DOMAIN u.pipes \subseteq DOMAIN r.pipes
        /\ \A j \in DOMAIN u.pipes : r.pipes[j] = u.pipes[j] /\ j # r.cpipe
        /\ r.epipe = NULL
    BY <1>0, <2>4, <2>6, <2>7, <2>8, ConnectOneGood
  <2>10. Quiet(r)
    BY <2>9 DEF Quiet
  <2>11. s.cpipe \in DOMAIN r.pipes /\ r.pipes[s.cpipe] # "connecting"
    BY <1>0, <2>6, <2>7, <2>8, <2>9
  <2>12. QED
    BY <2>9, <2>10, <2>11
<1>3. QED
  BY <1>1, <1>2

LEMMA ListenType ==
    ASSUME NEW s \in UvType, NEW p \in Seq(PipeStates), NEW n \in OrNull(Nat)
    PROVE  [s EXCEPT !.pipes = p, !.epipe = n] \in UvType
BY DEF UvType

\* The pipe of a listener is made.
ListenPiped(r, s) == r = [OnPipe(s, "listening") EXCEPT !.epipe = NewPipe(s)]

LEMMA ListenPipeGood ==
    ASSUME NEW s, Good(s), s.epipe = NULL, s.released = 0, "CONNECTING" \notin s.flags,
           NEW r, ListenPiped(r, s)
    PROVE  /\ Good(r) /\ (Paired(s) => Paired(r)) /\ r.flags = s.flags
           /\ r.epipe # NULL /\ r.epipe \in DOMAIN r.pipes /\ r.pipes[r.epipe] = "listening"
           /\ DOMAIN s.pipes \subseteq DOMAIN r.pipes
           /\ \A j \in DOMAIN s.pipes : r.pipes[j] = s.pipes[j] /\ j # r.epipe
           /\ r.cpipe = s.cpipe /\ r.pendq = s.pendq /\ r.sentq = s.sentq
           /\ r.ids = s.ids /\ r.closing = s.closing
<1>0. s \in UvType /\ s.pipes \in Seq(PipeStates)
  BY DEF Good, UvType
<1>1. PICK n : n = Len(s.pipes) + 1
  OBVIOUS
<1>2. PICK p : p = Append(s.pipes, "listening")
  OBVIOUS
<1>3. "listening" \in PipeStates
  BY DEF PipeStates
<1>4. /\ p \in Seq(PipeStates) /\ n \in Nat /\ n \in DOMAIN p /\ n \notin DOMAIN s.pipes /\ p[n] = "listening"
      /\ DOMAIN p = DOMAIN s.pipes \cup {n}
      /\ \A j \in DOMAIN s.pipes : j \in Nat /\ j < n /\ p[j] = s.pipes[j]
  BY <1>0, <1>1, <1>2, <1>3, PipeNew
<1>5. r = [s EXCEPT !.pipes = p, !.epipe = n]
  BY <1>0, <1>1, <1>2 DEF ListenPiped, OnPipe, NewPipe, UvType
<1>6. /\ r.pipes = p /\ r.cpipe = s.cpipe /\ r.epipe = n /\ r.due = s.due
      /\ r.pendq = s.pendq /\ r.sentq = s.sentq /\ r.wire = s.wire /\ r.answers = s.answers
      /\ r.ids = s.ids /\ r.written = s.written /\ r.freed = s.freed
      /\ r.released = s.released /\ r.flags = s.flags /\ r.shutting = s.shutting /\ r.bad = s.bad
      /\ r.closing = s.closing
  BY <1>0, <1>5 DEF UvType
<1>7. r \in UvType
  <2>1. n \in OrNull(Nat)
    BY <1>4 DEF OrNull
  <2>2. [s EXCEPT !.pipes = p, !.epipe = n] \in UvType
    BY <1>0, <1>4, <2>1, ListenType
  <2>3. QED
    BY <1>5, <2>2
<1>8. n # NULL
  BY <1>4, NullAssumption
<1>9. s.cpipe # NULL => s.cpipe \in DOMAIN s.pipes /\ s.cpipe # n /\ p[s.cpipe] = s.pipes[s.cpipe]
  BY <1>4 DEF Good, Piped
<1>10. Piped(r)
  <2>1. ASSUME NEW j \in DOMAIN p, Behind(r, j) PROVE Waiting(r, j)
    <3>1. j \in DOMAIN s.pipes /\ j \in Nat /\ Behind(s, j)
      BY <1>4, <1>6, <1>8, <2>1, NullAssumption DEF Behind
    <3>2. Waiting(s, j)
      BY <3>1 DEF Good, Piped
    <3>3. QED
      BY <1>6, <1>9, <3>2 DEF Waiting
  <2>2. ASSUME NEW j \in DOMAIN p, j # n, j # s.cpipe PROVE p[j] \in {"closing", "closed"}
    <3>1. j \in DOMAIN s.pipes /\ j \in Nat /\ j # s.epipe
      BY <1>4, <2>2, NullAssumption
    <3>2. QED
      BY <1>4, <2>2, <3>1 DEF Good, Piped
  <2>3. \A j \in s.shutting : j \in DOMAIN p /\ j # n /\ p[j] \in {"open", "closing"}
    BY <1>4 DEF Good, Piped
  <2>4. s.cpipe # NULL => s.cpipe \in DOMAIN p /\ s.cpipe # n /\ p[s.cpipe] \in {"connecting", "open", "closing"}
    BY <1>4, <1>9 DEF Good, Piped
  <2>5. s.cpipe = NULL => s.due = <<>>
    BY DEF Good, Piped
  <2>6. QED
    BY <1>4, <1>6, <1>8, <2>1, <2>2, <2>3, <2>4, <2>5 DEF Piped
<1>11. Memory(r) /\ Ordered(r)
  BY <1>6 DEF Good, Memory, Unused, Ordered
<1>12. Linked(r)
  BY <1>6, <1>9 DEF Good, Linked
<1>13. Released(r)
  BY <1>6 DEF Released
<1>14. Paired(s) => Paired(r)
  <2>1. OpenPipe(r) => OpenPipe(s) /\ r.sentq = s.sentq /\ r.answers = s.answers /\ r.wire = s.wire
    BY <1>6, <1>9 DEF OpenPipe
  <2>2. QED
    BY <2>1, PairedSame
<1>15. \A j \in DOMAIN s.pipes : r.pipes[j] = s.pipes[j] /\ j # r.epipe
  BY <1>4, <1>6
<1>16. QED
  BY <1>4, <1>6, <1>7, <1>8, <1>10, <1>11, <1>12, <1>13, <1>14, <1>15 DEF Good

\* media_uv_listen_one
LEMMA ListenOneGood ==
    ASSUME NEW s, Good(s), s.epipe = NULL, s.released = 0, "CONNECTING" \notin s.flags,
           NEW bound, NEW r, r = media_uv_listen_one(s, bound)
    PROVE  /\ Good(r) /\ (Paired(s) => Paired(r))
           /\ r.cpipe = s.cpipe /\ r.pendq = s.pendq
           /\ s.flags \subseteq r.flags /\ r.flags \subseteq s.flags \cup {"LISTENING"}
           /\ DOMAIN s.pipes \subseteq DOMAIN r.pipes
           /\ \A j \in DOMAIN s.pipes : r.pipes[j] = s.pipes[j] /\ j # r.epipe
<1>0. s \in UvType /\ s.flags \in SUBSET Flags
  BY DEF Good, UvType
<1>1. PICK t : t = [OnPipe(s, "listening") EXCEPT !.epipe = NewPipe(s)]
  OBVIOUS
<1>2. /\ Good(t) /\ (Paired(s) => Paired(t)) /\ t.flags = s.flags
      /\ t.epipe # NULL /\ t.epipe \in DOMAIN t.pipes /\ t.pipes[t.epipe] = "listening"
      /\ DOMAIN s.pipes \subseteq DOMAIN t.pipes
      /\ \A j \in DOMAIN s.pipes : t.pipes[j] = s.pipes[j] /\ j # t.epipe
      /\ t.cpipe = s.cpipe /\ t.pendq = s.pendq /\ t.ids = s.ids
  <2>1. ListenPiped(t, s)
    BY <1>1 DEF ListenPiped
  <2>2. QED
    BY <2>1, ListenPipeGood
<1>3. PICK x : x = [t EXCEPT !.ids = @ + 1]
  OBVIOUS
<1>4. PICK w : w = [id |-> s.ids + 1, code |-> "notify"]
  OBVIOUS
<1>5. PICK n : n = media_uv_send_writing(x, w)
  OBVIOUS
<1>6. Good(x) /\ (Paired(t) => Paired(x)) /\ Fresh(x, w)
  <2>1. "notify" \in Codes /\ w = [id |-> t.ids + 1, code |-> "notify"]
    BY <1>2, <1>4 DEF Codes
  <2>2. QED
    BY <1>2, <1>3, <2>1, NewIdGood
<1>7. t \in UvType
  BY <1>2 DEF Good
<1>8. x.flags = t.flags /\ x.pendq = t.pendq /\ x.pipes = t.pipes /\ x.cpipe = t.cpipe /\ x.epipe = t.epipe
  BY <1>3, <1>7 DEF UvType
<1>9. w.code = "notify" /\ ~ Ack(w) /\ ~ Asked(w)
  BY <1>4 DEF Ack, Asked
<1>10. /\ Good(n) /\ (Paired(x) => Paired(n)) /\ Sends(n, x) /\ n.pendq = x.pendq /\ n.flags = x.flags
  <2>1. Above(x.pendq, w)
    BY <1>9 DEF Above
  <2>2. QED
    BY <1>5, <1>6, <1>9, <2>1, SendGood
\* Closing the pipe of y, and telling the application.
<1>11. ASSUME NEW y, Good(y), Paired(s) => Paired(y), y.pipes = t.pipes, y.epipe = t.epipe, y.cpipe = t.cpipe,
              y.flags = t.flags, y.pendq = t.pendq,
              r = [media_uv_close(y, y.epipe) EXCEPT !.failed = TRUE]
       PROVE  /\ Good(r) /\ (Paired(s) => Paired(r))
              /\ r.cpipe = s.cpipe /\ r.pendq = s.pendq /\ r.flags = s.flags
              /\ DOMAIN s.pipes \subseteq DOMAIN r.pipes
              /\ \A j \in DOMAIN s.pipes : r.pipes[j] = s.pipes[j] /\ j # r.epipe
  <2>1. PICK z : z = media_uv_close(y, y.epipe)
    OBVIOUS
  <2>2. y.epipe \in DOMAIN y.pipes /\ y.pipes[y.epipe] = "listening"
    BY <1>2, <1>11
  <2>3. Good(z) /\ (Paired(y) => Paired(z)) /\ Closed(z, y, y.epipe)
    BY <1>11, <2>1, <2>2, CloseGood
  <2>4. /\ z.cpipe = y.cpipe /\ z.epipe = y.epipe /\ z.flags = y.flags
        /\ z.pendq = y.pendq
        /\ DOMAIN z.pipes = DOMAIN y.pipes
        /\ \A j \in DOMAIN y.pipes : j # y.epipe => z.pipes[j] = y.pipes[j]
    BY <1>11, <2>2, <2>3, ClosedSame
  <2>5. z \in UvType
    BY <2>3 DEF Good
  <2>6. Marked(r, z, z.flags)
    <3>1. r = [z EXCEPT !.flags = z.flags, !.closing = z.closing, !.failed = TRUE]
      BY <1>11, <2>1, <2>5 DEF UvType
    <3>2. z.closing \in BOOLEAN
      BY <2>5 DEF UvType
    <3>3. QED
      BY <3>1, <3>2 DEF Marked
  <2>7. z.flags \in SUBSET Flags
    BY <2>5 DEF UvType
  <2>8. /\ Good(r) /\ (Paired(z) => Paired(r)) /\ r.flags = z.flags
        /\ r.pipes = z.pipes /\ r.cpipe = z.cpipe /\ r.epipe = z.epipe /\ r.pendq = z.pendq
    BY <2>3, <2>6, <2>7, MarkGood
  <2>9. \A j \in DOMAIN s.pipes : r.pipes[j] = s.pipes[j] /\ j # r.epipe
    BY <1>2, <1>11, <2>4, <2>8
  <2>10. DOMAIN s.pipes \subseteq DOMAIN r.pipes
    BY <1>2, <1>11, <2>4, <2>8
  <2>11. QED
    BY <1>2, <1>11, <2>3, <2>4, <2>8, <2>9, <2>10
<1>12. CASE ~ bound
  <2>1. r = [media_uv_close(t, t.epipe) EXCEPT !.failed = TRUE]
    BY <1>1, <1>12 DEF media_uv_listen_one
  <2>2. QED
    BY <1>2, <1>11, <2>1
<1>13. n = media_uv_send_writing([t EXCEPT !.ids = @ + 1], [id |-> s.ids + 1, code |-> "notify"])
  BY <1>3, <1>4, <1>5
<1>14. CASE bound /\ n.bad = "no" /\ n.pipes[n.cpipe] # "open"
  <2>1. r = [media_uv_close(n, n.epipe) EXCEPT !.failed = TRUE]
    BY <1>1, <1>13, <1>14 DEF media_uv_listen_one
  <2>2. n.pipes = t.pipes /\ n.epipe = t.epipe /\ n.cpipe = t.cpipe /\ n.flags = t.flags /\ n.pendq = t.pendq
    BY <1>8, <1>10 DEF Sends
  <2>3. Good(n) /\ (Paired(s) => Paired(n))
    BY <1>2, <1>6, <1>10
  <2>4. QED
    BY <1>11, <2>1, <2>2, <2>3
<1>15. CASE bound /\ ~ (n.bad = "no" /\ n.pipes[n.cpipe] # "open")
  <2>1. r = [n EXCEPT !.flags = @ \cup {"LISTENING"}]
    BY <1>1, <1>13, <1>15 DEF media_uv_listen_one
  <2>2. n.pipes = t.pipes /\ n.epipe = t.epipe /\ n.cpipe = t.cpipe /\ n.flags = s.flags /\ n.pendq = t.pendq
    BY <1>2, <1>8, <1>10 DEF Sends
  <2>3. Good(n) /\ (Paired(s) => Paired(n)) /\ n \in UvType
    BY <1>2, <1>6, <1>10 DEF Good
  <2>4. PICK F \in SUBSET Flags : F = s.flags \cup {"LISTENING"}
    BY <1>0 DEF Flags
  <2>5. Marked(r, n, F)
    <3>1. r = [n EXCEPT !.flags = F, !.closing = n.closing, !.failed = n.failed]
      BY <2>1, <2>2, <2>3, <2>4 DEF UvType
    <3>2. n.closing \in BOOLEAN /\ n.failed \in BOOLEAN
      BY <2>3 DEF UvType
    <3>3. QED
      BY <3>1, <3>2 DEF Marked
  <2>6. /\ Good(r) /\ (Paired(n) => Paired(r)) /\ r.flags = F
        /\ r.pipes = n.pipes /\ r.cpipe = n.cpipe /\ r.epipe = n.epipe /\ r.pendq = n.pendq
    <3>1. n.flags \subseteq F /\ ("CONNECTING" \in F => "CONNECTING" \in n.flags)
      BY <2>2, <2>4
    <3>2. QED
      BY <2>3, <2>5, <3>1, MarkGood
  <2>7. \A j \in DOMAIN s.pipes : r.pipes[j] = s.pipes[j] /\ j # r.epipe
    BY <1>2, <2>2, <2>6
  <2>8. QED
    BY <1>2, <2>2, <2>3, <2>4, <2>6, <2>7
<1>16. QED
  BY <1>12, <1>14, <1>15

\* The first answer ends the connecting.
LEMMA ConnectedGood ==
    ASSUME NEW s, Good(s), s.sentq = <<>>, OpenPipe(s),
           NEW r, r = [s EXCEPT !.flags = @ \ {"CONNECTING"}]
    PROVE  /\ Good(r) /\ (Paired(s) => Paired(r)) /\ r.flags = s.flags \ {"CONNECTING"}
           /\ r.pipes = s.pipes /\ r.cpipe = s.cpipe /\ r.epipe = s.epipe
           /\ r.pendq = s.pendq /\ r.sentq = s.sentq /\ r.released = s.released
<1>0. s \in UvType /\ s.flags \in SUBSET Flags
  BY DEF Good, UvType
<1>1. PICK F \in SUBSET Flags : F = s.flags \ {"CONNECTING"}
  BY <1>0
<1>2. r = [s EXCEPT !.flags = F]
  BY <1>1
<1>3. /\ r.pipes = s.pipes /\ r.cpipe = s.cpipe /\ r.epipe = s.epipe /\ r.due = s.due
      /\ r.pendq = s.pendq /\ r.sentq = s.sentq /\ r.wire = s.wire /\ r.answers = s.answers
      /\ r.ids = s.ids /\ r.written = s.written /\ r.freed = s.freed
      /\ r.released = s.released /\ r.flags = F /\ r.shutting = s.shutting /\ r.bad = s.bad
  BY <1>0, <1>2 DEF UvType
<1>4. r \in UvType
  BY <1>0, <1>2 DEF UvType
<1>5. Piped(r)
  <2>1. \A j \in DOMAIN s.pipes : Behind(r, j) => Waiting(r, j)
    BY <1>3 DEF Good, Piped, Behind, Waiting
  <2>2. QED
    BY <1>3, <2>1 DEF Good, Piped
<1>6. Memory(r) /\ Ordered(r)
  BY <1>3 DEF Good, Memory, Unused, Ordered
<1>7. Linked(r)
  <2>1. Len(s.sentq) = 0 /\ 1 .. 0 = {}
    BY EmptyKeeps
  <2>2. \A i \in 1 .. Len(s.sentq) : FALSE
    BY <2>1
  <2>3. QED
    BY <1>1, <1>3, <2>2 DEF Good, Linked, OpenPipe
<1>8. Released(r)
  <2>1. s.released = 0
    BY NotReleased DEF OpenPipe
  <2>2. QED
    BY <1>3, <2>1 DEF Released
<1>9. Paired(s) => Paired(r)
  <2>1. OpenPipe(r) => OpenPipe(s) /\ r.sentq = s.sentq /\ r.answers = s.answers /\ r.wire = s.wire
    BY <1>3 DEF OpenPipe
  <2>2. QED
    BY <2>1, PairedSame
<1>10. QED
  BY <1>1, <1>3, <1>4, <1>5, <1>6, <1>7, <1>8, <1>9 DEF Good

\* A flag that puts something off.
PutOff(r, s, x) == r = [s EXCEPT !.flags = @ \cup {x}]

LEMMA PutOffGood ==
    ASSUME NEW s, Good(s), NEW x \in {"RECONNECT", "LISTENING"}, NEW r, PutOff(r, s, x)
    PROVE  /\ Good(r) /\ (Paired(s) => Paired(r)) /\ Stays(r, s)
           /\ r.sentq = s.sentq /\ r.pendq = s.pendq
<1>0. s \in UvType /\ s.flags \in SUBSET Flags /\ s.closing \in BOOLEAN /\ s.failed \in BOOLEAN
  BY DEF Good, UvType
<1>1. PICK F \in SUBSET Flags : F = s.flags \cup {x}
  BY <1>0 DEF Flags
<1>2. Marked(r, s, F)
  <2>1. r = [s EXCEPT !.flags = F, !.closing = s.closing, !.failed = s.failed]
    BY <1>0, <1>1 DEF PutOff, UvType
  <2>2. QED
    BY <1>0, <2>1 DEF Marked
<1>3. s.flags \subseteq F /\ ("CONNECTING" \in F => "CONNECTING" \in s.flags)
  BY <1>1
<1>4. /\ Good(r) /\ (Paired(s) => Paired(r)) /\ r.flags = F
      /\ r.pipes = s.pipes /\ r.cpipe = s.cpipe /\ r.epipe = s.epipe
      /\ r.pendq = s.pendq /\ r.sentq = s.sentq
  BY <1>2, <1>3, MarkGood
<1>5. Stays(r, s)
  BY <1>1, <1>4 DEF Stays
<1>6. QED
  BY <1>4, <1>5

\* on_receive; the first request is answered while the connection is made.
LEMMA OnReceiveGood ==
    ASSUME NEW s, Good(s), s.cpipe # NULL, NEW w, w.code = "open" => "CONNECTING" \in s.flags,
           NEW ret, NEW then, NEW r, r = OnReceive(s, w, ret, then)
    PROVE  /\ Good(r) /\ (Paired(s) => Paired(r)) /\ Stays(r, s)
           /\ r.sentq = s.sentq /\ r.pendq = s.pendq
<1>0. s \in UvType /\ s.flags \in SUBSET Flags /\ s.failed \in BOOLEAN
  BY DEF Good, UvType
<1>1. Stays(s, s)
  BY DEF Stays
<1>2. CASE w.code = "open" /\ ret < 0
  <2>1. r = s \/ PutOff(r, s, "RECONNECT")
    BY <1>2 DEF OnReceive, media_uv_reconnect, PutOff
  <2>2. QED
    BY <1>1, <2>1, PutOffGood
<1>3. CASE w.code = "open" /\ ~ (ret < 0) /\ then = "listen"
  <2>1. r = s \/ PutOff(r, s, "LISTENING")
    BY <1>3 DEF OnReceive, media_uv_listen, PutOff
  <2>2. QED
    BY <1>1, <2>1, PutOffGood
\* It disconnects, after a mark or at once.
<1>4. ASSUME NEW u, Good(u), Paired(s) => Paired(u), u.flags = s.flags,
             u.pipes = s.pipes, u.cpipe = s.cpipe, u.epipe = s.epipe, u.sentq = s.sentq, u.pendq = s.pendq,
             r = media_uv_disconnect(u)
      PROVE  /\ Good(r) /\ (Paired(s) => Paired(r)) /\ Stays(r, s)
             /\ r.sentq = s.sentq /\ r.pendq = s.pendq
  <2>1. Good(r) /\ (Paired(u) => Paired(r)) /\ Disconnected(r, u)
    BY <1>4, DisconnectGood
  <2>2. Sends(r, u) /\ r.sentq = u.sentq /\ r.pendq = u.pendq
    BY <1>4, <2>1, DisconnectSame
  <2>3. Stays(r, s)
    BY <1>4, <2>2 DEF Sends, Stays
  <2>4. QED
    BY <1>4, <2>1, <2>2, <2>3
<1>5. CASE w.code = "open" /\ ~ (ret < 0) /\ then = "disconnect" /\ ~ s.closing
  <2>1. PICK u : u = [s EXCEPT !.closing = TRUE]
    OBVIOUS
  <2>2. r = media_uv_disconnect(u)
    BY <1>5, <2>1 DEF OnReceive
  <2>3. Marked(u, s, s.flags)
    <3>1. u = [s EXCEPT !.flags = s.flags, !.closing = TRUE, !.failed = s.failed]
      BY <1>0, <2>1 DEF UvType
    <3>2. QED
      BY <1>0, <3>1 DEF Marked
  <2>4. /\ Good(u) /\ (Paired(s) => Paired(u)) /\ u.flags = s.flags
        /\ u.pipes = s.pipes /\ u.cpipe = s.cpipe /\ u.epipe = s.epipe
        /\ u.pendq = s.pendq /\ u.sentq = s.sentq
    BY <1>0, <2>3, MarkGood
  <2>5. QED
    BY <1>4, <2>2, <2>4
<1>6. CASE w.code = "close"
  <2>1. r = media_uv_disconnect(s)
    BY <1>6 DEF OnReceive
  <2>2. QED
    BY <1>4, <2>1
<1>7. CASE /\ w.code # "close" /\ ~ (w.code = "open" /\ ret < 0)
           /\ ~ (w.code = "open" /\ then = "listen")
           /\ ~ (w.code = "open" /\ then = "disconnect" /\ ~ s.closing)
  <2>1. r = s
    BY <1>7 DEF OnReceive
  <2>2. QED
    BY <1>1, <2>1
<1>8. QED
  BY <1>2, <1>3, <1>5, <1>6, <1>7

\* What was put off is put off no more: a server is looked for again.
Retried(r, s) == r = [s EXCEPT !.flags = @ \ {"RECONNECT"}]

LEMMA RetryGood ==
    ASSUME NEW s, Good(s), NEW r, Retried(r, s)
    PROVE  /\ Good(r) /\ (Paired(s) => Paired(r)) /\ r.pipes = s.pipes
           /\ r.cpipe = s.cpipe /\ r.epipe = s.epipe /\ r.sentq = s.sentq
<1>0. s \in UvType /\ s.flags \in SUBSET Flags
  BY DEF Good, UvType
<1>1. PICK F \in SUBSET Flags : F = s.flags \ {"RECONNECT"}
  BY <1>0
<1>2. /\ r.pipes = s.pipes /\ r.cpipe = s.cpipe /\ r.epipe = s.epipe /\ r.due = s.due
      /\ r.pendq = s.pendq /\ r.sentq = s.sentq /\ r.wire = s.wire /\ r.answers = s.answers
      /\ r.ids = s.ids /\ r.written = s.written /\ r.freed = s.freed
      /\ r.released = s.released /\ r.flags = F /\ r.shutting = s.shutting /\ r.bad = s.bad
  BY <1>0, <1>1 DEF Retried, UvType
<1>4. r \in UvType
  BY <1>0, <1>1 DEF Retried, UvType
<1>5. r.bad # "freed" /\ (s.released > 0 => "DISCONNECT" \in r.flags)
  BY <1>1, <1>2 DEF Good, Released
<1>6. "CONNECTING" \in r.flags <=> "CONNECTING" \in s.flags
  BY <1>1, <1>2
<1>7. \A k \in r.shutting : k \in s.shutting
  BY <1>2
<1>8. Good(r) /\ (Paired(s) => Paired(r))
  BY <1>2, <1>4, <1>5, <1>6, <1>7, FlagsGood
<1>9. QED
  BY <1>2, <1>8

\* What media_uv_handle_parcel does after the answer to the first request.
LEMMA AfterFirstGood ==
    ASSUME NEW s, Good(s), Paired(s), "CONNECTING" \in s.flags, s.sentq = <<>>, OpenPipe(s),
           NEW k, k = s.cpipe, NEW bound, NEW then, NEW r, r = AfterFirst(s, k, bound, then)
    PROVE  Good(r) /\ Paired(r) /\ Quiet(r)
<1>1. PICK a : a = [s EXCEPT !.flags = @ \ {"CONNECTING"}]
  OBVIOUS
<1>2. /\ Good(a) /\ Paired(a) /\ a.flags = s.flags \ {"CONNECTING"}
      /\ a.pipes = s.pipes /\ a.cpipe = s.cpipe /\ a.epipe = s.epipe /\ a.sentq = <<>>
  BY <1>1, ConnectedGood
<1>3. a.epipe = NULL /\ a.cpipe = k /\ k # NULL /\ k \in DOMAIN a.pipes /\ a.pipes[k] = "open"
  BY <1>2 DEF Good, Linked, Piped, OpenPipe
<1>4. a.released = 0
  BY <1>2, <1>3, NotReleased
<1>5. PICK b : b = IF a.flags = {"LISTENING"} THEN media_uv_listen_one(a, bound) ELSE a
  OBVIOUS
<1>6. PICK c : c = IF b.flags \cap {"LISTENING", "RECONNECT"} = {}
                   THEN media_uv_delivery_writing(b) ELSE b
  OBVIOUS
<1>7. r = IF "DISCONNECT" \in c.flags THEN media_uv_close(media_uv_delivery_writing(c), k)
          ELSE IF "RECONNECT" \in c.flags
          THEN media_uv_close(media_uv_reconnect_one([c EXCEPT !.flags = @ \ {"RECONNECT"}], then), k)
          ELSE c
  BY <1>1, <1>5, <1>6 DEF AfterFirst
<1>8. /\ Good(c) /\ Paired(c) /\ Quiet(c) /\ "CONNECTING" \notin c.flags
      /\ c.cpipe = k /\ k \in DOMAIN c.pipes /\ c.pipes[k] = "open"
      /\ ("RECONNECT" \in c.flags => c.epipe = NULL /\ c.sentq = <<>>)
  <2>1. CASE a.flags = {"LISTENING"}
    <3>1. b = media_uv_listen_one(a, bound) /\ "CONNECTING" \notin a.flags
      BY <1>5, <2>1
    <3>2. /\ Good(b) /\ Paired(b)
          /\ b.cpipe = a.cpipe
          /\ a.flags \subseteq b.flags /\ b.flags \subseteq a.flags \cup {"LISTENING"}
          /\ DOMAIN a.pipes \subseteq DOMAIN b.pipes
          /\ \A j \in DOMAIN a.pipes : b.pipes[j] = a.pipes[j] /\ j # b.epipe
      BY <1>2, <1>3, <1>4, <3>1, ListenOneGood
    <3>3. b.flags = {"LISTENING"}
      BY <2>1, <3>2
    <3>4. c = b
      BY <1>6, <3>3
    <3>5. QED
      BY <1>3, <3>2, <3>3, <3>4 DEF Quiet
  <2>2. CASE a.flags # {"LISTENING"} /\ a.flags \cap {"LISTENING", "RECONNECT"} = {}
    <3>1. c = media_uv_delivery_writing(a) /\ "CONNECTING" \notin a.flags
      BY <1>2, <1>5, <1>6, <2>2
    <3>2. Good(c) /\ Paired(c) /\ Sends(c, a) /\ c.pendq = <<>>
      BY <1>2, <3>1, DeliveryGood
    <3>3. "RECONNECT" \notin c.flags /\ "CONNECTING" \notin c.flags
      BY <2>2, <3>1, <3>2 DEF Sends
    <3>4. QED
      BY <1>3, <3>2, <3>3 DEF Sends, Quiet
  <2>3. CASE a.flags # {"LISTENING"} /\ a.flags \cap {"LISTENING", "RECONNECT"} # {}
    <3>1. c = a
      BY <1>5, <1>6, <2>3
    <3>2. a.flags # {} /\ "CONNECTING" \notin a.flags
      BY <1>2, <2>3
    <3>3. QED
      BY <1>2, <1>3, <3>1, <3>2 DEF Quiet
  <2>4. QED
    BY <2>1, <2>2, <2>3
<1>9. CASE "DISCONNECT" \in c.flags
  <2>1. PICK d : d = media_uv_delivery_writing(c)
    OBVIOUS
  <2>2. Good(d) /\ Paired(d) /\ Sends(d, c)
    BY <1>8, <2>1, DeliveryGood
  <2>3. "DISCONNECT" \in d.flags /\ d.cpipe = k /\ k \in DOMAIN d.pipes /\ d.pipes[k] = "open" /\ k # d.epipe
    BY <1>3, <1>8, <1>9, <2>2 DEF Sends, Good, Piped
  <2>4. r = media_uv_close(d, k)
    BY <1>7, <1>9, <2>1
  <2>5. Good(r) /\ Paired(r) /\ Closed(r, d, k)
    BY <2>2, <2>3, <2>4, CloseGood
  <2>6. r.flags = d.flags
    BY <2>2, <2>3, <2>5, ClosedSame
  <2>7. QED
    BY <2>3, <2>5, <2>6 DEF Quiet
<1>10. CASE "DISCONNECT" \notin c.flags /\ "RECONNECT" \in c.flags
  <2>1. PICK d : d = [c EXCEPT !.flags = @ \ {"RECONNECT"}]
    OBVIOUS
  <2>2. /\ Good(d) /\ Paired(d) /\ d.pipes = c.pipes
        /\ d.cpipe = c.cpipe /\ d.epipe = c.epipe /\ d.sentq = c.sentq
    <3>1. Retried(d, c)
      BY <2>1 DEF Retried
    <3>2. QED
      BY <1>8, <3>1, RetryGood
  <2>3. PICK e : e = media_uv_reconnect_one(d, then)
    OBVIOUS
  <2>4. d.cpipe # NULL /\ d.pipes[d.cpipe] # "connecting" /\ d.sentq = <<>> /\ d.epipe = NULL
    BY <1>3, <1>8, <1>10, <2>2
  <2>5. /\ Good(e) /\ Paired(e) /\ Quiet(e)
        /\ d.cpipe \in DOMAIN e.pipes /\ e.pipes[d.cpipe] # "connecting" /\ e.epipe = NULL
    BY <2>2, <2>3, <2>4, ReconnectOneGood
  <2>6. r = media_uv_close(e, k)
    BY <1>7, <1>10, <2>1, <2>3
  <2>7. k \in DOMAIN e.pipes /\ e.pipes[k] # "connecting" /\ k # e.epipe
    BY <1>3, <1>8, <2>2, <2>5
  <2>8. Good(r) /\ Paired(r) /\ Closed(r, e, k)
    BY <2>5, <2>6, <2>7, CloseGood
  <2>9. r.flags = e.flags /\ r.pendq = e.pendq
    BY <2>5, <2>7, <2>8, ClosedSame
  <2>10. QED
    BY <2>5, <2>8, <2>9 DEF Quiet
<1>11. CASE "DISCONNECT" \notin c.flags /\ "RECONNECT" \notin c.flags
  <2>1. r = c
    BY <1>7, <1>11
  <2>2. QED
    BY <1>8, <2>1
<1>12. QED
  BY <1>9, <1>10, <1>11


-----------------------------------------------------------------------------
(* 4. Queues and answers                                                   *)

\* A queue of one message.
LEMMA OneMessage ==
    ASSUME NEW w \in Message
    PROVE  \E v \in Seq(Message) : v = Append(<<>>, w) /\ Len(v) = 1 /\ v[1] = w
<1>1. PICK e \in Seq(Message) : e = <<>> /\ Len(e) = 0
  BY EmptyKeeps
<1>2. PICK v : Added(v, e, w)
  BY DEF Added
<1>3. v \in Seq(Message) /\ Len(v) = Len(e) + 1 /\ v[Len(e) + 1] = w
  BY <1>2, AddedKeeps
<1>4. Len(v) = 1 /\ v[1] = w
  BY <1>1, <1>3
<1>5. QED
  BY <1>1, <1>2, <1>3, <1>4 DEF Added

LEMMA HeadConcat ==
    ASSUME NEW w \in Message, NEW d \in Seq(Message), NEW c, c = Append(<<>>, w) \o d
    PROVE  c \in Seq(Message) /\ c # <<>> /\ Head(c) = w /\ Tail(c) = d
<1>1. PICK v \in Seq(Message) : v = Append(<<>>, w) /\ Len(v) = 1 /\ v[1] = w
  BY OneMessage
<1>2. PICK n \in Nat : n = Len(d)
  OBVIOUS
<1>3. c = v \o d
  BY <1>1
<1>4. /\ c \in Seq(Message) /\ Len(c) = 1 + n
      /\ \A i \in 1 .. 1 + n : c[i] = IF i <= 1 THEN v[i] ELSE d[i - 1]
  BY <1>1, <1>2, <1>3, ConcatProperties
<1>5. c # <<>>
  BY <1>2, <1>4, EmptySeq
<1>6. PICK t : t = Tail(c)
  OBVIOUS
<1>7. /\ t \in Seq(Message) /\ Head(c) = c[1] /\ Len(t) = Len(c) - 1
      /\ \A i \in 1 .. Len(c) - 1 : t[i] = c[i + 1]
  BY <1>4, <1>5, <1>6, TailSub
<1>8. c[1] = w
  BY <1>1, <1>2, <1>4
<1>9. \A i \in 1 .. n : i + 1 \in 1 .. 1 + n /\ ~ (i + 1 <= 1) /\ (i + 1) - 1 = i
  BY <1>2
<1>10. Len(t) = n /\ \A i \in 1 .. n : t[i] = d[i]
  BY <1>2, <1>4, <1>7, <1>9
<1>11. t = d
  BY <1>2, <1>7, <1>10, SeqEqual
<1>12. QED
  BY <1>4, <1>5, <1>6, <1>7, <1>8, <1>11

LEMMA HeadTail ==
    ASSUME NEW q \in Seq(Message), q # <<>>
    PROVE  Head(q) \in Message /\ Tail(q) \in Seq(Message) /\ q = Append(<<>>, Head(q)) \o Tail(q)
<1>1. PICK w, t : w = Head(q) /\ t = Tail(q)
  OBVIOUS
<1>2. /\ t \in Seq(Message) /\ w \in Message /\ w = q[1] /\ Len(q) \in Nat /\ Len(t) = Len(q) - 1
      /\ \A i \in 1 .. Len(q) - 1 : t[i] = q[i + 1]
  BY <1>1, TailSub
<1>3. PICK v \in Seq(Message) : v = Append(<<>>, w) /\ Len(v) = 1 /\ v[1] = w
  BY <1>2, OneMessage
<1>4. PICK n \in Nat : n = Len(q)
  BY <1>2
<1>5. PICK c : c = v \o t
  OBVIOUS
<1>6. n # 0
  BY <1>4, EmptySeq
<1>7. /\ c \in Seq(Message) /\ Len(c) = n
      /\ \A i \in 1 .. n : c[i] = IF i <= 1 THEN v[i] ELSE t[i - 1]
  <2>1. /\ c \in Seq(Message) /\ Len(c) = Len(v) + Len(t)
        /\ \A i \in 1 .. Len(v) + Len(t) : c[i] = IF i <= Len(v) THEN v[i] ELSE t[i - Len(v)]
    BY <1>2, <1>5, ConcatProperties
  <2>2. Len(v) + Len(t) = n
    BY <1>2, <1>3, <1>4
  <2>3. QED
    BY <1>3, <2>1, <2>2
<1>8. ASSUME NEW i \in 1 .. n PROVE c[i] = q[i]
  <2>1. CASE i = 1
    BY <1>2, <1>3, <1>7, <2>1
  <2>2. CASE i # 1
    <3>1. i - 1 \in 1 .. Len(q) - 1 /\ (i - 1) + 1 = i
      BY <1>4, <2>2
    <3>2. t[i - 1] = q[i]
      BY <1>2, <3>1
    <3>3. QED
      BY <1>7, <2>2, <3>2
  <2>3. QED
    BY <2>1, <2>2
<1>9. c = q
  BY <1>4, <1>7, <1>8, SeqEqual
<1>10. QED
  BY <1>1, <1>2, <1>3, <1>5, <1>9

LEMMA TailConcat ==
    ASSUME NEW a \in Seq(Message), NEW b \in Seq(Message), a # <<>>
    PROVE  /\ a \o b \in Seq(Message) /\ a \o b # <<>> /\ Head(a \o b) = Head(a)
           /\ Tail(a) \in Seq(Message) /\ Tail(a \o b) = Tail(a) \o b
<1>1. PICK w \in Message, t \in Seq(Message) : w = Head(a) /\ t = Tail(a) /\ a = Append(<<>>, w) \o t
  BY HeadTail
<1>2. PICK v \in Seq(Message) : v = Append(<<>>, w)
  BY OneMessage
<1>3. a \o b = v \o (t \o b)
  BY <1>1, <1>2, ConcatAssociative
<1>4. PICK d \in Seq(Message) : d = t \o b
  BY ConcatProperties
<1>5. PICK c : c = a \o b
  OBVIOUS
<1>6. c = Append(<<>>, w) \o d
  BY <1>2, <1>3, <1>4, <1>5
<1>7. c \in Seq(Message) /\ c # <<>> /\ Head(c) = w /\ Tail(c) = d
  BY <1>6, HeadConcat
<1>8. QED
  BY <1>1, <1>4, <1>5, <1>7

\* A queue around one of its messages.
LEMMA Split ==
    ASSUME NEW q \in Seq(Message), NEW p \in 1 .. Len(q)
    PROVE  \E a \in Seq(Message), b \in Seq(Message) : q = Append(a, q[p]) \o b /\ Cut(q, p) = a \o b
<1>0. q[p] \in Message /\ Len(q) \in Nat /\ p \in Nat /\ 1 <= p /\ p <= Len(q)
  OBVIOUS
<1>1. PICK a : a = SubSeq(q, 1, p - 1)
  OBVIOUS
<1>2. PICK b : b = SubSeq(q, p + 1, Len(q))
  OBVIOUS
<1>3. a \in Seq(Message)
  <2>1. \A i \in 1 .. p - 1 : q[i] \in Message
    BY <1>0
  <2>2. QED
    BY <1>0, <1>1, <2>1, SubSeqProperties
<1>4. b \in Seq(Message)
  <2>1. \A i \in p + 1 .. Len(q) : q[i] \in Message
    BY <1>0
  <2>2. QED
    BY <1>0, <1>2, <2>1, SubSeqProperties
<1>5. SubSeq(q, 1, p) = Append(a, q[p])
  <2>1. 1 \in 1 .. Len(q) /\ p \in 1 .. Len(q)
    BY <1>0
  <2>2. SubSeq(q, 1, p) = SubSeq(q, 1, p - 1) \o <<q[p]>>
    BY <2>1, SubSeqRecursiveSecond
  <2>3. Append(a, q[p]) = a \o <<q[p]>>
    BY <1>0, <1>3, AppendIsConcat
  <2>4. QED
    BY <1>1, <2>2, <2>3
<1>6. SubSeq(q, 1, p) \o SubSeq(q, p + 1, Len(q)) = q
  <2>1. 1 \in 1 .. Len(q) + 1 /\ p \in 1 - 1 .. Len(q) /\ Len(q) \in p .. Len(q)
    BY <1>0
  <2>2. SubSeq(q, 1, p) \o SubSeq(q, p + 1, Len(q)) = SubSeq(q, 1, Len(q))
    BY <2>1, ConcatAdjacentSubSeq
  <2>3. SubSeq(q, 1, Len(q)) = q
    BY SubSeqFull
  <2>4. QED
    BY <2>2, <2>3
<1>7. q = Append(a, q[p]) \o b
  BY <1>2, <1>5, <1>6
<1>8. Cut(q, p) = a \o b
  BY <1>1, <1>2 DEF Cut
<1>9. QED
  BY <1>3, <1>4, <1>7, <1>8

\* Only messages with an acknowledgement are left.
LEMMA AckedAcks ==
    ASSUME NEW q \in Seq(Message)
    PROVE  Acked(q) \in Seq(Message) /\ \A i \in 1 .. Len(Acked(q)) : Ack(Acked(q)[i])
<1> DEFINE Holds(c) == \A i \in 1 .. Len(Acked(c)) : Ack(Acked(c)[i])
           S == {n \in Nat : \E c \in Seq(Message) : Len(c) = n /\ ~ Holds(c)}
<1>0. Acked(q) \in Seq(Message)
  BY AckedType
<1>1. SUFFICES ASSUME ~ Holds(q) PROVE FALSE
  BY <1>0
<1>2. Len(q) \in S
  BY <1>1
<1>3. PICK n \in S : \A y \in S : n <= y
  BY <1>2, LeastNat
<1>4. PICK c \in Seq(Message) : Len(c) = n /\ ~ Holds(c)
  OBVIOUS
<1>5. CASE c = <<>>
  <2>1. Acked(c) = <<>> /\ Len(<<>>) = 0
    BY <1>5, AckedNone, EmptyKeeps
  <2>2. Len(Acked(c)) = 0
    BY <2>1
  <2>3. QED
    BY <1>4, <2>2
<1>6. CASE c # <<>>
  <2>1. PICK d \in Seq(Message), w \in Message : c = Append(d, w)
    BY <1>6, SequenceEmptyOrAppend
  <2>2. Len(d) \in Nat /\ Len(c) = Len(d) + 1
    BY <2>1, Appended
  <2>3. Len(d) \notin S
    <3>1. n \in Nat /\ ~ (n <= Len(d))
      BY <1>4, <2>2
    <3> HIDE DEF S
    <3>2. QED
      BY <1>3, <3>1
  <2>4. Holds(d)
    BY <2>2, <2>3
  <2>5. PICK x \in Seq(Message) : x = Acked(d)
    BY AckedType
  <2>6. PICK y : y = Acked(c)
    OBVIOUS
  <2>7. IF Ack(w) THEN Added(y, x, w) ELSE y = x
    BY <2>1, <2>5, <2>6, AckedAppend DEF Added
  <2>8. \A i \in 1 .. Len(x) : Ack(x[i])
    BY <2>4, <2>5
  <2>9. \A i \in 1 .. Len(y) : Ack(y[i])
    <3>1. CASE Ack(w)
      <4>1. Added(y, x, w)
        BY <2>7, <3>1
      <4>2. /\ Len(x) \in Nat /\ Len(y) = Len(x) + 1
            /\ y[Len(x) + 1] = w /\ \A i \in 1 .. Len(x) : y[i] = x[i]
        BY <4>1, AddedKeeps
      <4>3. ASSUME NEW i \in 1 .. Len(y) PROVE i = Len(x) + 1 \/ i \in 1 .. Len(x)
        BY <4>2
      <4>4. QED
        BY <2>8, <3>1, <4>2, <4>3
    <3>2. CASE ~ Ack(w)
      BY <2>7, <2>8, <3>2
    <3>3. QED
      BY <3>1, <3>2
  <2>10. QED
    BY <1>4, <2>6, <2>9
<1>7. QED
  BY <1>5, <1>6

\* The one message w is taken out.
Around(c, d, w, e) == c = Append(d, w) \o e

LEMMA RemoveMiddle ==
    ASSUME NEW d \in Seq(Message), NEW w \in Message, NEW e \in Seq(Message),
           NEW c, Around(c, d, w, e), Distinct(c)
    PROVE  RemoveFirst(c, w) = d \o e
<1>1. PICK v : Added(v, d, w)
  BY DEF Added
<1>2. /\ v \in Seq(Message) /\ Len(d) \in Nat /\ Len(v) = Len(d) + 1
      /\ v[Len(d) + 1] = w /\ \A i \in 1 .. Len(d) : v[i] = d[i]
  BY <1>1, AddedKeeps
<1>3. c = v \o e
  BY <1>1 DEF Added, Around
<1>4. PICK m \in Nat, n \in Nat : m = Len(d) /\ n = Len(e)
  OBVIOUS
<1>5. /\ c \in Seq(Message) /\ Len(c) = m + 1 + n
      /\ \A i \in 1 .. m + 1 + n : c[i] = IF i <= m + 1 THEN v[i] ELSE e[i - (m + 1)]
  <2>1. /\ c \in Seq(Message) /\ Len(c) = Len(v) + Len(e)
        /\ \A i \in 1 .. Len(v) + Len(e) : c[i] = IF i <= Len(v) THEN v[i] ELSE e[i - Len(v)]
    <3>1. v \in Seq(Message)
      BY <1>2
    <3>2. QED
      BY <1>3, <3>1, ConcatProperties
  <2>2. Len(v) = m + 1 /\ Len(v) + Len(e) = m + 1 + n
    BY <1>2, <1>4
  <2>3. QED
    BY <2>1, <2>2
<1>6. m + 1 \in 1 .. Len(c) /\ c[m + 1] = w
  <2>1. v[m + 1] = w /\ m + 1 <= m + 1 /\ m + 1 \in 1 .. m + 1 + n
    BY <1>2, <1>4
  <2>2. QED
    BY <1>5, <2>1
<1>7. PICK p \in 1 .. Len(c) : c[p] = w /\ RemoveFirst(c, w) = Cut(c, p)
  BY <1>5, <1>6, RemoveFirstCuts
<1>8. p = m + 1
  BY <1>6, <1>7 DEF Distinct
<1>9. PICK x : x = Cut(c, p)
  OBVIOUS
<1>10. /\ x \in Seq(Message) /\ Len(x) = m + n
       /\ \A i \in 1 .. m + n : x[i] = IF i < m + 1 THEN c[i] ELSE c[i + 1]
  <2>1. /\ x \in Seq(Message) /\ Len(x) = Len(c) - 1
        /\ \A i \in 1 .. Len(c) - 1 : x[i] = IF i < p THEN c[i] ELSE c[i + 1]
    BY <1>5, <1>9, CutElements
  <2>2. Len(c) - 1 = m + n
    BY <1>4, <1>5
  <2>3. QED
    BY <1>8, <2>1, <2>2
<1>11. PICK y : y = d \o e
  OBVIOUS
<1>12. /\ y \in Seq(Message) /\ Len(y) = m + n
       /\ \A i \in 1 .. m + n : y[i] = IF i <= m THEN d[i] ELSE e[i - m]
  BY <1>4, <1>11, ConcatProperties
<1>13. ASSUME NEW i \in 1 .. m + n PROVE x[i] = y[i]
  <2>1. CASE i <= m
    <3>1. i < m + 1 /\ i <= m + 1 /\ i \in 1 .. m + 1 + n /\ i \in 1 .. m
      BY <1>4, <2>1
    <3>2. QED
      BY <1>2, <1>4, <1>5, <1>10, <1>12, <2>1, <3>1
  <2>2. CASE ~ (i <= m)
    <3>1. ~ (i < m + 1) /\ i + 1 \in 1 .. m + 1 + n /\ ~ (i + 1 <= m + 1) /\ (i + 1) - (m + 1) = i - m
      BY <1>4, <2>2
    <3>2. x[i] = c[i + 1] /\ c[i + 1] = e[(i + 1) - (m + 1)] /\ y[i] = e[i - m]
      BY <1>5, <1>10, <1>12, <2>2, <3>1
    <3>3. QED
      BY <3>1, <3>2
  <2>3. QED
    BY <2>1, <2>2
<1>14. x = y
  BY <1>10, <1>12, <1>13, SeqEqual
<1>15. QED
  BY <1>7, <1>9, <1>11, <1>14

\* c is a and then b.
Cat(c, a, b) == a \in Seq(Message) /\ b \in Seq(Message) /\ c = a \o b

LEMMA CatExists ==
    ASSUME NEW a \in Seq(Message), NEW b \in Seq(Message)
    PROVE  \E c \in Seq(Message) : Cat(c, a, b)
BY ConcatProperties DEF Cat

LEMMA CatSame ==
    ASSUME NEW a, NEW b, NEW c, NEW d, Cat(c, a, b), Cat(d, a, b)
    PROVE  c = d
BY DEF Cat

LEMMA CatLeft ==
    ASSUME NEW x, NEW a, NEW b, NEW d, NEW e, NEW f, Cat(f, a, b), Cat(d, x, a), Cat(e, x, f)
    PROVE  Cat(e, d, b)
<1>1. x \in Seq(Message) /\ a \in Seq(Message) /\ b \in Seq(Message) /\ d = x \o a /\ f = a \o b /\ e = x \o f
  BY DEF Cat
<1>2. d \in Seq(Message)
  BY <1>1, ConcatProperties
<1>3. (x \o a) \o b = x \o (a \o b)
  BY <1>1, ConcatAssociative
<1>4. QED
  BY <1>1, <1>2, <1>3 DEF Cat

LEMMA CatRight ==
    ASSUME NEW x, NEW a, NEW b, NEW d, NEW e, NEW f, Cat(f, a, b), Cat(d, x, a), Cat(e, d, b)
    PROVE  Cat(e, x, f)
<1>1. x \in Seq(Message) /\ a \in Seq(Message) /\ b \in Seq(Message) /\ d = x \o a /\ f = a \o b /\ e = d \o b
  BY DEF Cat
<1>2. f \in Seq(Message)
  BY <1>1, ConcatProperties
<1>3. (x \o a) \o b = x \o (a \o b)
  BY <1>1, ConcatAssociative
<1>4. QED
  BY <1>1, <1>2, <1>3 DEF Cat

LEMMA CatAdded ==
    ASSUME NEW a, NEW b, NEW c, NEW w \in Message, NEW y, NEW z, Cat(c, a, b), Added(y, b, w), Added(z, c, w)
    PROVE  Cat(z, a, y)
<1>1. a \in Seq(Message) /\ b \in Seq(Message) /\ c = a \o b /\ y = Append(b, w) /\ z = Append(c, w)
  BY DEF Cat, Added
<1>2. a \o Append(b, w) = Append(a \o b, w) /\ Append(b, w) \in Seq(Message)
  BY <1>1, ConcatAppend
<1>3. QED
  BY <1>1, <1>2 DEF Cat

LEMMA CatEmpty ==
    ASSUME NEW a \in Seq(Message)
    PROVE  Cat(a, a, <<>>)
BY ConcatEmptySeq, EmptyKeeps DEF Cat

\* a is what the server is still to answer of q.
Owed(a, q) == a \in Seq(Message) /\ q \in Seq(Message) /\ a = Acked(q)

LEMMA OwedExists ==
    ASSUME NEW q \in Seq(Message)
    PROVE  \E a \in Seq(Message) : Owed(a, q)
BY AckedType DEF Owed

LEMMA OwedCat ==
    ASSUME NEW a, NEW b, NEW c, NEW x, NEW y, Cat(c, a, b), Owed(x, a), Owed(y, b)
    PROVE  \E z \in Seq(Message) : Owed(z, c) /\ Cat(z, x, y)
<1>1. /\ a \in Seq(Message) /\ b \in Seq(Message) /\ c = a \o b
      /\ x \in Seq(Message) /\ y \in Seq(Message) /\ x = Acked(a) /\ y = Acked(b)
  BY DEF Cat, Owed
<1>2. c \in Seq(Message)
  BY <1>1, ConcatProperties
<1>3. Acked(a \o b) = Acked(a) \o Acked(b)
  BY <1>1, AckedConcat
<1>4. PICK z \in Seq(Message) : z = Acked(c)
  BY <1>2, AckedType
<1>5. QED
  BY <1>1, <1>2, <1>3, <1>4 DEF Cat, Owed

LEMMA OwedAdded ==
    ASSUME NEW a, NEW x, NEW w \in Message, NEW q, Owed(a, q), Added(x, q, w)
    PROVE  \E b \in Seq(Message) : Owed(b, x) /\ IF Ack(w) THEN Added(b, a, w) ELSE b = a
<1>1. q \in Seq(Message) /\ a = Acked(q) /\ x = Append(q, w)
  BY DEF Owed, Added
<1>2. x \in Seq(Message)
  BY <1>1, AppendProperties
<1>3. PICK b \in Seq(Message) : b = Acked(x)
  BY <1>2, AckedType
<1>4. Acked(Append(q, w)) = IF Ack(w) THEN Append(Acked(q), w) ELSE Acked(q)
  BY <1>1, AckedAppend
<1>5. b = IF Ack(w) THEN Append(a, w) ELSE a
  BY <1>1, <1>3, <1>4
<1>6. QED
  BY <1>2, <1>3, <1>5 DEF Owed, Added

\* sentq holds q, and what the server is still to answer.
Pairs(S, q, X) == \E a : Owed(a, X) /\ Cat(S, q, a)

LEMMA PairsPlain ==
    ASSUME NEW S, NEW q \in Seq(Message), NEW X \in Seq(Message)
    PROVE  Pairs(S, q, X) <=> S = q \o Acked(X)
BY AckedType DEF Pairs, Owed, Cat

\* The server answers the first message on the wire.
LEMMA ServedPairs ==
    ASSUME NEW S, NEW q \in Seq(Message), NEW X \in Seq(Message), X # <<>>, Pairs(S, q, X),
           NEW x, IF Ack(Head(X)) THEN Added(x, q, Head(X)) ELSE x = q
    PROVE  Pairs(S, x, Tail(X))
<1>1. PICK h \in Message, t \in Seq(Message) : h = Head(X) /\ t = Tail(X) /\ X = Append(<<>>, h) \o t
  BY HeadTail
<1>2. PICK v \in Seq(Message) : Added(v, <<>>, h)
  BY <1>1, OneMessage DEF Added
<1>3. Cat(X, v, t)
  BY <1>1, <1>2 DEF Cat, Added
<1>4. Owed(<<>>, <<>>)
  BY AckedNone, EmptyKeeps DEF Owed
<1>5. PICK a \in Seq(Message) : Owed(a, v) /\ IF Ack(h) THEN Added(a, <<>>, h) ELSE a = <<>>
  BY <1>2, <1>4, OwedAdded
<1>6. PICK b \in Seq(Message) : Owed(b, t)
  BY OwedExists
<1>7. PICK c \in Seq(Message) : Owed(c, X) /\ Cat(c, a, b)
  BY <1>3, <1>5, <1>6, OwedCat
<1>8. Cat(S, q, c)
  BY <1>7 DEF Pairs, Owed
<1>9. Cat(x, q, a)
  <2>1. Cat(q, q, <<>>)
    BY CatEmpty
  <2>2. CASE Ack(h)
    <3>1. Added(a, <<>>, h) /\ Added(x, q, h)
      BY <1>1, <1>5, <2>2
    <3>2. QED
      BY <2>1, <3>1, CatAdded
  <2>3. CASE ~ Ack(h)
    BY <1>1, <1>5, <2>1, <2>3
  <2>4. QED
    BY <2>2, <2>3
<1>10. Cat(S, x, b)
  BY <1>7, <1>8, <1>9, CatLeft
<1>11. QED
  BY <1>1, <1>6, <1>10 DEF Pairs

\* A message that could not be written leaves sentq as it leaves the wire.
LEMMA RemovePairs ==
    ASSUME NEW q \in Seq(Message), \A i \in 1 .. Len(q) : Ack(q[i]), NEW X \in Seq(Message),
           NEW w, w \in ToSet(X), NEW S \in Seq(Message), Pairs(S, q, X), Distinct(S)
    PROVE  Pairs(RemoveFirst(S, w), q, RemoveFirst(X, w))
<1>1. PICK i0 \in 1 .. Len(X) : w = X[i0]
  BY DEF ToSet
<1>2. w \in Message
  BY <1>1
<1>3. PICK p \in 1 .. Len(X) : X[p] = w /\ RemoveFirst(X, w) = Cut(X, p)
  BY <1>1, RemoveFirstCuts
<1>4. PICK a \in Seq(Message), b \in Seq(Message) : X = Append(a, w) \o b /\ Cut(X, p) = a \o b
  BY <1>3, Split
<1>5. PICK v : Added(v, a, w)
  BY DEF Added
<1>6. v \in Seq(Message)
  BY <1>2, <1>5, AddedKeeps
<1>7. PICK Y : Y = RemoveFirst(X, w)
  OBVIOUS
<1>8. Cat(X, v, b) /\ Cat(Y, a, b)
  BY <1>3, <1>4, <1>5, <1>6, <1>7 DEF Cat, Added
<1>9. PICK x \in Seq(Message), y \in Seq(Message) : Owed(x, a) /\ Owed(y, b)
  BY OwedExists
<1>10. PICK z \in Seq(Message) : Owed(z, v) /\ IF Ack(w) THEN Added(z, x, w) ELSE z = x
  BY <1>2, <1>5, <1>9, OwedAdded
<1>11. PICK A \in Seq(Message) : Owed(A, X) /\ Cat(A, z, y)
  BY <1>8, <1>9, <1>10, OwedCat
<1>12. PICK B \in Seq(Message) : Owed(B, Y) /\ Cat(B, x, y)
  BY <1>8, <1>9, OwedCat
<1>13. Cat(S, q, A)
  BY <1>11 DEF Pairs, Owed
<1>14. PICK R \in Seq(Message) : R = RemoveFirst(S, w)
  BY RemoveSub
<1>15. CASE Ack(w)
  <2>1. PICK d \in Seq(Message) : Cat(d, q, x)
    BY CatExists
  <2>2. PICK g : Added(g, d, w)
    BY DEF Added
  <2>3. Added(z, x, w)
    BY <1>10, <1>15
  <2>4. Cat(g, q, z)
    BY <1>2, <2>1, <2>2, <2>3, CatAdded
  <2>5. Cat(S, g, y)
    BY <1>11, <1>13, <2>4, CatLeft
  <2>6. Around(S, d, w, y)
    BY <2>2, <2>5 DEF Around, Added, Cat
  <2>7. R = d \o y
    BY <1>2, <1>14, <2>6, RemoveMiddle
  <2>8. Cat(R, d, y)
    BY <2>7 DEF Cat
  <2>9. Cat(R, q, B)
    BY <1>12, <2>1, <2>8, CatRight
  <2>10. QED
    BY <1>7, <1>12, <1>14, <2>9 DEF Pairs
<1>16. CASE ~ Ack(w)
  <2>1. z = x
    BY <1>10, <1>16
  <2>2. A = B
    BY <1>11, <1>12, <2>1, CatSame
  <2>3. \A i \in 1 .. Len(A) : Ack(A[i])
    BY <1>11, AckedAcks DEF Owed
  <2>4. PICK m \in Nat, n \in Nat : m = Len(q) /\ n = Len(A)
    OBVIOUS
  <2>5. /\ Len(S) = m + n
        /\ \A i \in 1 .. m + n : S[i] = IF i <= m THEN q[i] ELSE A[i - m]
    <3>1. S = q \o A
      BY <1>13 DEF Cat
    <3>2. /\ Len(S) = Len(q) + Len(A)
          /\ \A i \in 1 .. Len(q) + Len(A) : S[i] = IF i <= Len(q) THEN q[i] ELSE A[i - Len(q)]
      BY <3>1, ConcatProperties
    <3>3. QED
      BY <2>4, <3>2
  <2>6. ASSUME NEW i \in 1 .. Len(S) PROVE Ack(S[i])
    <3>1. CASE i <= m
      BY <2>4, <2>5, <3>1
    <3>2. CASE ~ (i <= m)
      <4>1. i \in 1 .. m + n
        BY <2>5
      <4>2. i - m \in 1 .. n
        BY <2>4, <3>2, <4>1
      <4>3. S[i] = A[i - m]
        BY <2>5, <3>2, <4>1
      <4>4. QED
        BY <2>3, <2>4, <4>2, <4>3
    <3>3. QED
      BY <3>1, <3>2
  <2>7. \A i \in 1 .. Len(S) : S[i] # w
    BY <1>16, <2>6
  <2>8. R = S
    BY <1>14, <2>7, RemoveFirstCuts
  <2>9. QED
    BY <1>7, <1>12, <1>13, <1>14, <2>2, <2>8 DEF Pairs
<1>17. QED
  BY <1>15, <1>16

\* sentq after an answer was read.
LEMMA AnswerPaired ==
    ASSUME NEW S \in Seq(Message), NEW q \in Seq(Message), NEW A \in Seq(Answer), Matches(q, A), A # <<>>,
           NEW X \in Seq(Message), Pairs(S, q, X)
    PROVE  /\ S # <<>>
           /\ \E x \in Seq(Message) : Matches(x, Tail(A)) /\ Pairs(Tail(S), x, X)
<1>1. Len(A) \in Nat \ {0} /\ Len(q) = Len(A) /\ \A i \in 1 .. Len(q) : Ack(q[i]) /\ q[i].id = A[i].id
  BY EmptySeq DEF Matches
<1>2. q # <<>>
  <2>1. Len(q) # 0
    BY <1>1
  <2>2. QED
    BY <2>1, EmptyKeeps
<1>3. PICK a \in Seq(Message) : a = Acked(X)
  BY AckedType
<1>4. PICK x : x = Tail(q)
  OBVIOUS
<1>5. S # <<>> /\ x \in Seq(Message) /\ Tail(S) = x \o a
  <2>1. S = q \o a
    <3>1. S = q \o Acked(X)
      BY PairsPlain, Zenon
    <3>2. QED
      BY <1>3, <3>1
  <2>2. QED
    BY <1>2, <1>4, <2>1, TailConcat
<1>6. PICK n \in Nat : n = Len(q)
  OBVIOUS
<1>7. Len(x) = n - 1 /\ \A i \in 1 .. n - 1 : x[i] = q[i + 1]
  BY <1>2, <1>4, <1>6, TailSub
<1>8. PICK B : B = Tail(A)
  OBVIOUS
<1>9. Len(B) = n - 1 /\ \A i \in 1 .. n - 1 : B[i] = A[i + 1]
  BY <1>1, <1>6, <1>8, HeadTailProperties
<1>10. \A i \in 1 .. n - 1 : i + 1 \in 1 .. n
  BY <1>6
<1>11. Matches(x, B)
  BY <1>1, <1>6, <1>7, <1>9, <1>10 DEF Matches
<1>12. QED
  <2>1. Pairs(x \o a, x, X)
    BY <1>3, <1>5, PairsPlain
  <2>2. QED
    BY <1>5, <1>8, <1>11, <2>1

LEMMA PairedElim ==
    ASSUME NEW s \in UvType, Paired(s), OpenPipe(s)
    PROVE  \E q \in Seq(Message) : Matches(q, s.answers) /\ Pairs(s.sentq, q, s.wire)
<1>1. PICK q \in Seq(Message) : Matches(q, s.answers) /\ s.sentq = q \o Acked(s.wire)
  BY DEF Paired, OpenPipe
<1>2. s.wire \in Seq(Message)
  BY DEF UvType
<1>3. Pairs(s.sentq, q, s.wire)
  BY <1>1, <1>2, PairsPlain, Zenon
<1>4. QED
  BY <1>1, <1>3

LEMMA PairedIntro ==
    ASSUME NEW s \in UvType, NEW q \in Seq(Message), Matches(q, s.answers), Pairs(s.sentq, q, s.wire)
    PROVE  Paired(s)
<1>1. s.wire \in Seq(Message)
  BY DEF UvType
<1>2. s.sentq = q \o Acked(s.wire)
  BY <1>1, PairsPlain, Zenon
<1>3. QED
  BY <1>2 DEF Paired

-----------------------------------------------------------------------------
(* 5. What the callbacks keep                                              *)

\* An answer and the message it is of are taken out.
Answered(r, s) == r = [s EXCEPT !.sentq = Tail(@), !.answers = Tail(@)]

LEMMA AnswersType ==
    ASSUME NEW s \in UvType, NEW q \in Seq(Message), NEW a \in Seq(Answer)
    PROVE  [s EXCEPT !.sentq = q, !.answers = a] \in UvType
BY DEF UvType, Answer

LEMMA AnsweredGood ==
    ASSUME NEW s, Good(s), Paired(s), OpenPipe(s), s.answers # <<>>, NEW r, Answered(r, s)
    PROVE  /\ s.sentq # <<>> /\ Good(r) /\ Paired(r) /\ Stays(r, s) /\ r.flags = s.flags
           /\ r.pendq = s.pendq /\ r.sentq = Tail(s.sentq)
<1>0. s \in UvType /\ s.sentq \in Seq(Message) /\ s.answers \in Seq(Answer) /\ s.wire \in Seq(Message)
  BY DEF Good, UvType, Answer
<1>1. PICK q \in Seq(Message) : Matches(q, s.answers) /\ Pairs(s.sentq, q, s.wire)
  BY <1>0, PairedElim
<1>2. /\ s.sentq # <<>>
      /\ \E x \in Seq(Message) : Matches(x, Tail(s.answers)) /\ Pairs(Tail(s.sentq), x, s.wire)
  BY <1>0, <1>1, AnswerPaired
<1>3. PICK Q : Q = Tail(s.sentq)
  OBVIOUS
<1>4. PICK A : A = Tail(s.answers)
  OBVIOUS
<1>5. Q \in Seq(Message) /\ Sub(Q, s.sentq)
  BY <1>0, <1>2, <1>3, TailSub
<1>6. A \in Seq(Answer)
  BY <1>0, <1>4, HeadTailProperties
<1>7. r = [s EXCEPT !.sentq = Q, !.answers = A]
  BY <1>0, <1>3, <1>4 DEF Answered, UvType
<1>8. r \in UvType
  BY <1>0, <1>5, <1>6, <1>7, AnswersType
<1>9. /\ r.pipes = s.pipes /\ r.cpipe = s.cpipe /\ r.epipe = s.epipe /\ r.due = s.due
      /\ r.pendq = s.pendq /\ r.sentq = Q /\ r.wire = s.wire /\ r.answers = A
      /\ r.ids = s.ids /\ r.written = s.written /\ r.freed = s.freed
      /\ r.released = s.released /\ r.flags = s.flags /\ r.shutting = s.shutting /\ r.bad = s.bad
  BY <1>0, <1>7 DEF UvType
<1>10. Good(r)
  <2>1. Sub(s.pendq, s.pendq) /\ Sub(s.due, s.due) /\ Sub(s.wire, s.wire)
    BY SubSame
  <2>2. \A n \in r.written \cup r.freed : n \in s.written \cup s.freed
    BY <1>9
  <2>3. Sub(r.pendq, s.pendq) /\ Sub(r.sentq, s.sentq) /\ Sub(r.due, s.due) /\ Sub(r.wire, s.wire)
    BY <1>5, <1>9, <2>1
  <2>4. QED
    BY <1>8, <1>9, <2>2, <2>3, LessGood
<1>11. Paired(r)
  <2>1. PICK x \in Seq(Message) : Matches(x, r.answers) /\ Pairs(r.sentq, x, r.wire)
    BY <1>2, <1>3, <1>4, <1>9
  <2>2. QED
    BY <1>8, <2>1, PairedIntro
<1>12. Stays(r, s)
  BY <1>9 DEF Stays
<1>13. QED
  BY <1>2, <1>3, <1>9, <1>10, <1>11, <1>12

\* MEDIA_MSGFLAG_RESPONSED
Responded(r, s, w) == r = [s EXCEPT !.responsed = @ \cup {w.id}]

LEMMA RespondedGood ==
    ASSUME NEW s, Good(s), NEW w \in Message, NEW r, Responded(r, s, w)
    PROVE  /\ Good(r) /\ (Paired(s) => Paired(r)) /\ r.flags = s.flags /\ r.pipes = s.pipes
           /\ r.cpipe = s.cpipe /\ r.pendq = s.pendq /\ r.sentq = s.sentq
<1>0. s \in UvType /\ w.id \in Nat \ {0}
  BY DEF Good, Message
<1>1. PICK R \in SUBSET (Nat \ {0}) : R = s.responsed \cup {w.id}
  BY <1>0 DEF UvType
<1>2. r = [s EXCEPT !.responsed = R]
  BY <1>0, <1>1 DEF Responded, UvType
<1>3. /\ r.pipes = s.pipes /\ r.cpipe = s.cpipe /\ r.epipe = s.epipe /\ r.due = s.due
      /\ r.pendq = s.pendq /\ r.sentq = s.sentq /\ r.wire = s.wire /\ r.answers = s.answers
      /\ r.ids = s.ids /\ r.written = s.written /\ r.freed = s.freed
      /\ r.released = s.released /\ r.flags = s.flags /\ r.shutting = s.shutting /\ r.bad = s.bad
  BY <1>0, <1>2 DEF UvType
<1>4. r \in UvType
  BY <1>0, <1>2 DEF UvType
<1>5. r.bad # "freed" /\ (s.released > 0 => "DISCONNECT" \in r.flags)
  BY <1>3 DEF Good, Released
<1>6. \A k \in r.shutting : k \in s.shutting
  BY <1>3
<1>7. Good(r) /\ (Paired(s) => Paired(r))
  BY <1>3, <1>4, <1>5, <1>6, FlagsGood
<1>8. QED
  BY <1>3, <1>7

\* media_uv_free_writing leaves everything but the freed messages.
LEMMA FreeingGood ==
    ASSUME NEW s, Good(s), NEW w \in Message, NEW r, r = media_uv_free_writing(s, w)
    PROVE  /\ Good(r) /\ (Paired(s) => Paired(r)) /\ r.flags = s.flags /\ r.pipes = s.pipes
           /\ r.cpipe = s.cpipe /\ r.epipe = s.epipe /\ r.pendq = s.pendq /\ r.sentq = s.sentq
<1>1. Good(r) /\ (Paired(s) => Paired(r)) /\ \E G : r = [s EXCEPT !.freed = G]
  BY FreeWritingGood
<1>2. s \in UvType
  BY DEF Good
<1>3. PICK G : r = [s EXCEPT !.freed = G]
  BY <1>1
<1>4. QED
  BY <1>1, <1>2, <1>3 DEF UvType

\* media_uv_handle_parcel
LEMMA HandleGood ==
    ASSUME NEW s, Good(s), Paired(s), Quiet(s), OpenPipe(s), s.answers # <<>>,
           NEW k, k = s.cpipe, NEW bound, NEW then, NEW r, r = media_uv_handle_parcel(s, k, bound, then)
    PROVE  Good(r) /\ Paired(r) /\ Quiet(r)
<1>0. s \in UvType /\ s.sentq \in Seq(Message)
  BY DEF Good, UvType
<1>1. PICK a : Answered(a, s)
  BY DEF Answered
<1>2. /\ s.sentq # <<>> /\ Good(a) /\ Paired(a) /\ Stays(a, s) /\ a.flags = s.flags
      /\ a.pendq = s.pendq /\ a.sentq = Tail(s.sentq)
  BY <1>1, AnsweredGood
<1>3. PICK w, ret : w = Head(s.sentq) /\ ret = Head(s.answers).ret
  OBVIOUS
<1>4. w \in Message /\ w = s.sentq[1] /\ 1 \in 1 .. Len(s.sentq)
      /\ Len(s.sentq) \in Nat /\ a.sentq \in Seq(Message) /\ Len(a.sentq) = Len(s.sentq) - 1
  BY <1>0, <1>2, <1>3, TailSub
<1>5. PICK o : o = OnReceive(a, w, ret, then)
  OBVIOUS
<1>6. Good(o) /\ Paired(o) /\ Stays(o, a) /\ o.sentq = a.sentq /\ o.pendq = a.pendq
  <2>1. w.code = "open" => "CONNECTING" \in a.flags
    BY <1>2, <1>4 DEF Good, Linked
  <2>2. a.cpipe # NULL
    BY <1>2 DEF Stays, OpenPipe
  <2>3. QED
    BY <1>2, <1>5, <2>1, <2>2, OnReceiveGood
<1>7. PICK p : Responded(p, o, w)
  BY DEF Responded
<1>8. /\ Good(p) /\ Paired(p) /\ p.flags = o.flags /\ p.pipes = o.pipes
      /\ p.cpipe = o.cpipe /\ p.pendq = o.pendq /\ p.sentq = o.sentq
  BY <1>4, <1>6, <1>7, RespondedGood
<1>9. PICK t : t = media_uv_free_writing(p, w)
  OBVIOUS
<1>10. /\ Good(t) /\ (Paired(p) => Paired(t)) /\ t.flags = p.flags /\ t.pipes = p.pipes
       /\ t.cpipe = p.cpipe /\ t.pendq = p.pendq /\ t.sentq = p.sentq
  <2>1. Good(p) /\ w \in Message
    BY <1>4, <1>8
  <2>2. QED
    BY <1>9, <2>1, FreeingGood
<1>11. Paired(t)
  BY <1>8, <1>10
<1>12. r = IF "CONNECTING" \in t.flags THEN AfterFirst(t, k, bound, then) ELSE t
  BY <1>1, <1>2, <1>3, <1>5, <1>7, <1>9 DEF media_uv_handle_parcel, Answered, Responded
<1>13. t.cpipe = s.cpipe /\ t.pipes = s.pipes /\ s.flags \subseteq t.flags /\ t.pendq = s.pendq /\ t.sentq = a.sentq
       /\ ("CONNECTING" \in t.flags => "CONNECTING" \in s.flags)
  BY <1>2, <1>6, <1>8, <1>10 DEF Stays
<1>14. CASE "CONNECTING" \in t.flags
  <2>1. Len(s.sentq) <= 1
    BY <1>13, <1>14 DEF Good, Linked
  <2>2. t.sentq = <<>>
    <3>1. PICK n \in Nat : n = Len(s.sentq)
      BY <1>4
    <3>2. PICK m \in Nat : m = Len(a.sentq)
      BY <1>4, LenProperties
    <3>3. 1 <= n /\ n <= 1 /\ m = n - 1
      BY <1>4, <2>1, <3>1, <3>2
    <3>4. Len(a.sentq) = 0
      BY <3>2, <3>3
    <3>5. QED
      BY <1>4, <1>13, <3>4, EmptySeq
  <2>3. OpenPipe(t) /\ k = t.cpipe
    BY <1>13 DEF OpenPipe
  <2>4. r = AfterFirst(t, k, bound, then)
    BY <1>12, <1>14
  <2>5. QED
    BY <1>10, <1>11, <1>14, <2>2, <2>3, <2>4, AfterFirstGood
<1>15. CASE "CONNECTING" \notin t.flags
  <2>1. r = t
    BY <1>12, <1>15
  <2>2. t.flags = {} => s.flags = {}
    BY <1>13
  <2>3. QED
    BY <1>10, <1>11, <1>13, <2>1, <2>2 DEF Quiet
<1>16. QED
  BY <1>14, <1>15

-----------------------------------------------------------------------------
(* 6. The steps                                                            *)

\* A proxy with a pipe that is not closed is not released.
LEMMA AliveGood ==
    ASSUME NEW s, Good(s), NEW k \in DOMAIN s.pipes, s.pipes[k] # "closed"
    PROVE  s.released = 0
<1>1. s.released \in 0 .. 1
  BY DEF Good, UvType
<1>2. ~ (s.released > 0)
  BY DEF Good, Released
<1>3. QED
  BY <1>1, <1>2

\* Only the command pipe connects, before the first request.
LEMMA ConnectingPipe ==
    ASSUME NEW s, Good(s), NEW k \in DOMAIN s.pipes, s.pipes[k] = "connecting"
    PROVE  /\ k = s.cpipe /\ s.cpipe # NULL /\ "CONNECTING" \in s.flags /\ s.epipe = NULL
           /\ s.sentq = <<>> /\ s.wire = <<>> /\ s.answers = <<>>
<1>1. k \in Nat
  BY DEF Good, UvType
<1>2. k = s.cpipe /\ s.cpipe # NULL
  BY <1>1, NullAssumption DEF Good, Piped
<1>3. QED
  BY <1>2 DEF Good, Linked

\* What the pipe k replaced is closed before k is polled.
LEMMA NoneBehind ==
    ASSUME Good(uv), NEW k \in DOMAIN uv.pipes, Polled(k),
           uv.pipes[k] = "connecting" \/ (k = uv.epipe /\ uv.pipes[k] \in {"open", "listening"}),
           NEW j \in DOMAIN uv.pipes
    PROVE  ~ Behind(uv, j)
<1>1. j \in Nat \ {0} /\ k \in Nat
  BY DEF Good, UvType
<1>2. SUFFICES ASSUME Behind(uv, j) PROVE FALSE
  OBVIOUS
<1>3. Waiting(uv, j) /\ uv.pipes[j] = "closing" /\ j \notin {uv.cpipe, uv.epipe}
  BY <1>2 DEF Good, Piped, Behind
<1>4. ~ (j < k)
  BY <1>1, <1>3 DEF Polled
<1>5. CASE uv.cpipe # NULL /\ j < uv.cpipe /\ uv.pipes[uv.cpipe] = "connecting"
  <2>1. uv.cpipe \in DOMAIN uv.pipes
    BY <1>5 DEF Good, Piped
  <2>2. uv.epipe = NULL
    BY <1>5, <2>1, ConnectingPipe
  <2>3. k # uv.epipe
    BY <1>1, <2>2, NullAssumption
  <2>4. k = uv.cpipe
    BY <2>3, ConnectingPipe
  <2>5. QED
    BY <1>4, <1>5, <2>4
<1>6. CASE uv.epipe # NULL /\ j < uv.epipe /\ uv.pipes[uv.epipe] = "open"
  <2>1. uv.pipes[k] # "connecting"
    BY <1>6, ConnectingPipe
  <2>2. QED
    BY <1>4, <1>6, <2>1
<1>7. QED
  BY <1>3, <1>5, <1>6 DEF Waiting

\* A callback finds the proxy there.
LEMMA StepGood ==
    ASSUME NEW r, Good(r), Paired(r), Quiet(r), uv' = r
    PROVE  UvInv'
BY DEF UvInv

Opened(r, s, k) == r = [s EXCEPT !.pipes = [@ EXCEPT ![k] = "open"]]

\* A connection is made.
LEMMA OpenGood ==
    ASSUME NEW s, Good(s), NEW k \in DOMAIN s.pipes, s.pipes[k] = "connecting",
           \A j \in DOMAIN s.pipes : ~ Behind(s, j), NEW r, Opened(r, s, k)
    PROVE  /\ Good(r) /\ Paired(r) /\ OpenPipe(r) /\ "CONNECTING" \in r.flags
           /\ r.flags = s.flags /\ r.sentq = <<>> /\ r.cpu = s.cpu /\ r.pendq = s.pendq /\ r.ids = s.ids
<1>1. /\ k = s.cpipe /\ s.cpipe # NULL /\ "CONNECTING" \in s.flags /\ s.epipe = NULL
      /\ s.sentq = <<>> /\ s.wire = <<>> /\ s.answers = <<>>
  BY ConnectingPipe
<1>2. s \in UvType /\ s.pipes \in Seq(PipeStates)
  BY DEF Good, UvType
<1>3. PICK p : p = [s.pipes EXCEPT ![k] = "open"]
  OBVIOUS
<1>4. /\ p \in Seq(PipeStates) /\ Len(p) = Len(s.pipes) /\ DOMAIN p = DOMAIN s.pipes /\ p[k] = "open"
      /\ \A j \in DOMAIN s.pipes : j # k => p[j] = s.pipes[j]
  BY <1>2, <1>3, PipeSet DEF PipeStates
<1>5. r = [s EXCEPT !.pipes = p]
  BY <1>2, <1>3 DEF Opened, UvType
<1>6. /\ r.pipes = p /\ r.cpipe = s.cpipe /\ r.epipe = s.epipe /\ r.due = s.due
      /\ r.pendq = s.pendq /\ r.sentq = s.sentq /\ r.wire = s.wire /\ r.answers = s.answers
      /\ r.ids = s.ids /\ r.written = s.written /\ r.freed = s.freed /\ r.cpu = s.cpu
      /\ r.released = s.released /\ r.flags = s.flags /\ r.shutting = s.shutting /\ r.bad = s.bad
  BY <1>2, <1>5 DEF UvType
<1>7. r \in UvType
  BY <1>2, <1>4, <1>5 DEF UvType
<1>8. Piped(r)
  <2>1. \A j \in DOMAIN p : ~ Behind(r, j)
    BY <1>1, <1>4, <1>6 DEF Behind
  <2>2. QED
    BY <1>1, <1>4, <1>6, <2>1 DEF Good, Piped
<1>9. Memory(r) /\ Ordered(r)
  BY <1>6 DEF Good, Memory, Unused, Ordered
<1>10. Linked(r)
  BY <1>1, <1>4, <1>6 DEF Good, Linked
<1>11. Released(r)
  <2>1. s.released = 0
    BY AliveGood
  <2>2. QED
    BY <1>6, <2>1 DEF Released
<1>12. Paired(r)
  <2>1. Matches(<<>>, r.answers) /\ <<>> \in Seq(Message)
    BY <1>1, <1>6 DEF Matches
  <2>2. r.sentq = <<>> \o Acked(r.wire)
    BY <1>1, <1>6, AckedNone
  <2>3. QED
    BY <2>1, <2>2 DEF Paired
<1>13. Good(r)
  BY <1>6, <1>7, <1>8, <1>9, <1>10, <1>11 DEF Good
<1>14. QED
  BY <1>1, <1>4, <1>6, <1>12, <1>13 DEF OpenPipe

LEMMA OpenedType ==
    ASSUME NEW s \in UvType, NEW Q \in Seq(Message), NEW D \in Seq(Message), NEW X \in Seq(Message)
    PROVE  [s EXCEPT !.sentq = Q, !.due = D, !.wire = X] \in UvType
BY DEF UvType

\* The first request on the pipe o: r is o with a message of its own in
\* sentq, due and wire.
FirstSent(r, o, w) ==
    r = [o EXCEPT !.ids = @ + 1, !.sentq = Append(@, w), !.due = Append(@, w), !.wire = Append(@, w)]

LEMMA FirstSentGood ==
    ASSUME NEW o, Good(o), Paired(o), OpenPipe(o), "CONNECTING" \in o.flags, o.sentq = <<>>,
           NEW w, w = [id |-> o.ids + 1, code |-> "open"], NEW r, FirstSent(r, o, w)
    PROVE  Good(r) /\ Paired(r) /\ r.flags = o.flags
<1>1. PICK n : n = [o EXCEPT !.ids = @ + 1]
  OBVIOUS
<1>2. o \in UvType
  BY DEF Good
<1>3. Good(n) /\ Paired(n) /\ Fresh(n, w) /\ Ack(w) /\ w.code = "open"
  <2>1. "open" \in Codes /\ Ack(w) /\ w.code = "open"
    BY DEF Codes, Ack
  <2>2. QED
    BY <1>1, <2>1, NewIdGood
<1>4. n \in UvType /\ w \in Message
  BY <1>3 DEF Good, Fresh
<1>5. n.sentq \in Seq(Message) /\ n.due \in Seq(Message) /\ n.wire \in Seq(Message)
  BY <1>4 DEF UvType
<1>6. PICK Q, D, X : Added(Q, n.sentq, w) /\ Added(D, n.due, w) /\ Added(X, n.wire, w)
  BY DEF Added
<1>7. Q \in Seq(Message) /\ D \in Seq(Message) /\ X \in Seq(Message)
  BY <1>4, <1>5, <1>6, AddedKeeps
<1>8. r = [n EXCEPT !.sentq = Q, !.due = D, !.wire = X]
  <2>1. n.sentq = o.sentq /\ n.due = o.due /\ n.wire = o.wire
    BY <1>1, <1>2 DEF UvType
  <2>2. Q = Append(o.sentq, w) /\ D = Append(o.due, w) /\ X = Append(o.wire, w)
    BY <1>6, <2>1 DEF Added
  <2>3. r = [[o EXCEPT !.ids = @ + 1] EXCEPT !.sentq = Q, !.due = D, !.wire = X]
    BY <1>2, <2>2 DEF FirstSent, UvType
  <2>4. QED
    BY <1>1, <2>3
<1>9. r \in UvType
  BY <1>4, <1>7, <1>8, OpenedType
<1>10. /\ r.pipes = n.pipes /\ r.cpipe = n.cpipe /\ r.epipe = n.epipe /\ r.shutting = n.shutting
       /\ r.flags = n.flags /\ r.ids = n.ids /\ r.released = n.released /\ r.bad = n.bad
       /\ r.pendq = n.pendq /\ r.answers = n.answers /\ r.written = n.written /\ r.freed = n.freed
       /\ r.sentq = Q /\ r.due = D /\ r.wire = X
  BY <1>4, <1>8 DEF UvType
<1>11. n.flags = o.flags /\ n.sentq = <<>> /\ n.pipes = o.pipes /\ n.cpipe = o.cpipe
  BY <1>1, <1>2 DEF UvType
<1>12. OpenPipe(n) /\ Above(n.pendq, w) /\ "CONNECTING" \in n.flags
  BY <1>3, <1>11 DEF OpenPipe, Above, Asked
<1>13. /\ IF Ack(w) THEN Added(r.sentq, n.sentq, w) ELSE r.sentq = n.sentq
       /\ Added(r.due, n.due, w) /\ Added(r.wire, n.wire, w)
  BY <1>3, <1>6, <1>10
<1>14. Good(r) /\ (Paired(n) => Paired(r))
  BY <1>3, <1>9, <1>10, <1>11, <1>12, <1>13, SentGood
<1>15. QED
  BY <1>3, <1>10, <1>11, <1>14

\* The flags while on_connect runs do not last.
SentNow(r, o, F, n, Q, D, X) ==
    r = [o EXCEPT !.flags = F, !.ids = n, !.sentq = Q, !.due = D, !.wire = X]

LEMMA SentNowFlags ==
    ASSUME NEW o \in UvType, NEW F, NEW n, NEW Q, NEW D, NEW X, NEW t, SentNow(t, o, {}, n, Q, D, X),
           NEW r, r = [t EXCEPT !.flags = F]
    PROVE  SentNow(r, o, F, n, Q, D, X)
BY DEF UvType, SentNow

\* on_connect of a connection that is made sends the first request.
LEMMA ConnectedStep ==
    ASSUME NEW s, Good(s), NEW k \in DOMAIN s.pipes, s.pipes[k] = "connecting",
           \A j \in DOMAIN s.pipes : ~ Behind(s, j), NEW t, NEW r,
           t = media_uv_send([s EXCEPT !.flags = {}, !.pipes[k] = "open"], "open"),
           r = [t EXCEPT !.flags = @ \cup s.flags]
    PROVE  Good(r) /\ Paired(r) /\ Quiet(r)
<1>1. PICK o : Opened(o, s, k)
  BY DEF Opened
<1>2. /\ Good(o) /\ Paired(o) /\ OpenPipe(o) /\ "CONNECTING" \in o.flags
      /\ o.flags = s.flags /\ o.sentq = <<>> /\ o.cpu = s.cpu /\ o.pendq = s.pendq /\ o.ids = s.ids
  BY <1>1, OpenGood
<1>3. o \in UvType /\ s \in UvType
  BY <1>2 DEF Good
<1>4. PICK u : u = [o EXCEPT !.flags = {}]
  OBVIOUS
<1>5. /\ u.flags = {} /\ u.cpu = o.cpu /\ u.ids = o.ids /\ u.cpipe = o.cpipe /\ u.pipes = o.pipes
      /\ u.sentq = o.sentq /\ u.due = o.due /\ u.wire = o.wire
  BY <1>3, <1>4 DEF UvType
<1>6. u = [s EXCEPT !.flags = {}, !.pipes[k] = "open"]
  BY <1>1, <1>3, <1>4 DEF Opened, UvType
<1>7. t = media_uv_send(u, "open")
  BY <1>6
<1>8. CASE Refuses(u)
  <2>1. t = u
    BY <1>7, <1>8 DEF media_uv_send
  <2>2. r = o
    <3>1. r = [u EXCEPT !.flags = {} \cup s.flags]
      BY <1>5, <2>1
    <3>2. {} \cup s.flags = o.flags
      BY <1>2
    <3>3. PICK F : F = o.flags
      OBVIOUS
    <3>4. r = [u EXCEPT !.flags = F]
      BY <3>1, <3>2, <3>3
    <3>5. r = [o EXCEPT !.flags = F]
      BY <1>3, <1>4, <3>4 DEF UvType
    <3>6. QED
      BY <1>3, <3>3, <3>5 DEF UvType
  <2>3. QED
    BY <1>2, <2>2 DEF Quiet
<1>9. CASE ~ Refuses(u)
  <2>1. PICK w : w = [id |-> o.ids + 1, code |-> "open"]
    OBVIOUS
  <2>2. PICK v : v = [u EXCEPT !.ids = @ + 1]
    OBVIOUS
  <2>3. t = Queue(v, w)
    BY <1>5, <1>7, <1>9, <2>1, <2>2 DEF media_uv_send
  <2>4. /\ v.flags = {} /\ v.cpipe = o.cpipe /\ v.pipes = o.pipes
        /\ v.sentq = o.sentq /\ v.due = o.due /\ v.wire = o.wire
    BY <1>3, <1>4, <2>2 DEF UvType
  <2>5. t = media_uv_send_writing(v, w)
    BY <2>3, <2>4 DEF Queue
  <2>6. t = [v EXCEPT !.sentq = Append(@, w), !.due = Append(@, w), !.wire = Append(@, w)]
    <3>1. Ack(w)
      BY <2>1 DEF Ack
    <3>2. v.cpipe # NULL /\ v.pipes[v.cpipe] = "open"
      BY <1>2, <2>4 DEF OpenPipe
    <3>3. t = [[v EXCEPT !.sentq = Append(@, w)] EXCEPT !.due = Append(@, w), !.wire = Append(@, w)]
      BY <2>5, <3>1, <3>2, <2>4 DEF media_uv_send_writing
    <3>4. QED
      BY <1>3, <1>4, <2>2, <3>3 DEF UvType
  <2>7. FirstSent(r, o, w)
    <3>1. r = [t EXCEPT !.flags = {} \cup s.flags]
      BY <1>3, <1>4, <2>2, <2>6 DEF UvType
    <3>2. {} \cup s.flags = o.flags
      BY <1>2
    <3>3. PICK F : F = o.flags
      OBVIOUS
    <3>4. r = [t EXCEPT !.flags = F]
      BY <3>1, <3>2, <3>3
    <3>5. PICK n, Q, D, X : n = o.ids + 1 /\ Q = Append(o.sentq, w) /\ D = Append(o.due, w) /\ X = Append(o.wire, w)
      OBVIOUS
    <3>6. v = [u EXCEPT !.ids = n]
      BY <1>3, <1>4, <2>2, <3>5 DEF UvType
    <3>7. t = [v EXCEPT !.sentq = Q, !.due = D, !.wire = X]
      BY <1>3, <1>4, <2>2, <2>4, <2>6, <3>5 DEF UvType
    <3>8. r = [o EXCEPT !.ids = n, !.sentq = Q, !.due = D, !.wire = X]
      <4>1. v = [o EXCEPT !.flags = {}, !.ids = n]
        BY <1>3, <1>4, <3>6 DEF UvType
      <4>2. t = [o EXCEPT !.flags = {}, !.ids = n, !.sentq = Q, !.due = D, !.wire = X]
        BY <1>3, <3>7, <4>1 DEF UvType
      <4>3. r = [o EXCEPT !.flags = F, !.ids = n, !.sentq = Q, !.due = D, !.wire = X]
        <5>1. o \in UvType
          BY <1>3
        <5>2. SentNow(t, o, {}, n, Q, D, X)
          BY <4>2 DEF SentNow
        <5>3. SentNow(r, o, F, n, Q, D, X)
          BY <3>4, <5>1, <5>2, SentNowFlags
        <5>4. QED
          BY <5>3 DEF SentNow
      <4>4. QED
        BY <1>3, <3>3, <4>3 DEF UvType
    <3>9. QED
      BY <1>3, <3>5, <3>8 DEF UvType, FirstSent
  <2>8. Good(r) /\ Paired(r) /\ r.flags = o.flags
    BY <1>2, <2>1, <2>7, FirstSentGood
  <2>9. QED
    BY <1>2, <2>8 DEF Quiet
<1>10. QED
  BY <1>8, <1>9

LEMMA ConnectStep ==
    ASSUME UvInv, ~ EarlyConnect, NEW k \in DOMAIN uv.pipes, NEW then, media_uv_connect_one_cb(k, then)
    PROVE  UvInv'
<1>1. Good(uv) /\ Paired(uv) /\ Quiet(uv)
  BY DEF UvInv
<1>2. uv.pipes[k] = "connecting" /\ Polled(k)
  BY DEF media_uv_connect_one_cb
<1>3. uv.released = 0
  BY <1>1, <1>2, AliveGood
<1>4. \A j \in DOMAIN uv.pipes : ~ Behind(uv, j)
  BY <1>1, <1>2, NoneBehind
<1>5. k = uv.cpipe /\ uv.cpipe # NULL /\ "CONNECTING" \in uv.flags
  BY <1>1, <1>2, ConnectingPipe
<1>6. CASE Unreachable \/ "DISCONNECT" \in uv.flags
  <2>1. PICK f : f = OnConnectFails(uv, then)
    OBVIOUS
  <2>2. PICK r : r = media_uv_close(f, k)
    OBVIOUS
  <2>3. Good(f) /\ Paired(f) /\ Quiet(f) /\ Stays(f, uv)
    BY <1>1, <1>5, <2>1, ConnectFailsGood
  <2>4. /\ k \in DOMAIN f.pipes /\ f.pipes = uv.pipes
        /\ \A j \in DOMAIN f.pipes : ~ Behind(f, j)
    BY <1>4, <2>3 DEF Stays, Behind
  <2>5. Good(r) /\ (Paired(f) => Paired(r)) /\ Closed(r, f, k)
    BY <2>2, <2>3, <2>4, CloseGood
  <2>6. "CONNECTING" \in r.flags
    <3>1. r.flags = f.flags
      BY <2>3, <2>4, <2>5, ClosedSame
    <3>2. QED
      BY <1>5, <2>3, <3>1 DEF Stays
  <2>7. uv' = r
    BY <1>3, <1>6, <2>1, <2>2 DEF media_uv_connect_one_cb, Callback
  <2>8. QED
    BY <2>3, <2>5, <2>6, <2>7, StepGood DEF Quiet
<1>7. CASE ~ (Unreachable \/ "DISCONNECT" \in uv.flags)
  <2>1. PICK t : t = media_uv_send([uv EXCEPT !.flags = {}, !.pipes[k] = "open"], "open")
    OBVIOUS
  <2>2. PICK r : r = [t EXCEPT !.flags = @ \cup uv.flags]
    OBVIOUS
  <2>3. Good(r) /\ Paired(r) /\ Quiet(r)
    BY <1>1, <1>2, <1>4, <2>1, <2>2, ConnectedStep
  <2>4. uv' = r
    BY <1>3, <1>7, <2>1, <2>2 DEF media_uv_connect_one_cb, Callback
  <2>5. QED
    BY <2>3, <2>4, StepGood
<1>8. QED
  BY <1>6, <1>7

LEMMA AnswerStep ==
    ASSUME UvInv, NEW k \in DOMAIN uv.pipes, NEW bound, NEW then, ReadAnswer(k, bound, then)
    PROVE  UvInv'
<1>1. Good(uv) /\ Paired(uv) /\ Quiet(uv)
  BY DEF UvInv
<1>2. k = uv.cpipe /\ uv.pipes[k] = "open" /\ uv.answers # <<>>
  BY DEF ReadAnswer
<1>3. uv.released = 0
  BY <1>1, <1>2, AliveGood
<1>4. OpenPipe(uv)
  <2>1. k \in Nat
    BY <1>1 DEF Good, UvType
  <2>2. QED
    BY <1>2, <2>1, NullAssumption DEF OpenPipe
<1>5. PICK r : r = media_uv_handle_parcel(uv, k, bound, then)
  OBVIOUS
<1>6. Good(r) /\ Paired(r) /\ Quiet(r)
  BY <1>1, <1>2, <1>4, <1>5, HandleGood
<1>7. uv' = r
  BY <1>3, <1>5 DEF ReadAnswer, Callback
<1>8. QED
  BY <1>6, <1>7, StepGood

LEMMA EventStep ==
    ASSUME UvInv, NEW k \in DOMAIN uv.pipes, ReadEvent(k)
    PROVE  UvInv'
<1>1. Good(uv) /\ Paired(uv) /\ Quiet(uv)
  BY DEF UvInv
<1>2. uv.pipes[k] = "open"
  BY DEF ReadEvent
<1>3. uv.released = 0
  BY <1>1, <1>2, AliveGood
<1>4. uv' = uv
  BY <1>3 DEF ReadEvent, Callback
<1>5. QED
  BY <1>1, <1>4, StepGood

\* Closing a pipe keeps what is put off.
LEMMA CloseStep ==
    ASSUME NEW s, Good(s), Paired(s), Quiet(s), NEW k \in DOMAIN s.pipes,
           s.pipes[k] = "connecting" \/ (k = s.epipe /\ s.pipes[k] = "open") => \A j \in DOMAIN s.pipes : ~ Behind(s, j),
           NEW r, r = media_uv_close(s, k)
    PROVE  Good(r) /\ Paired(r) /\ Quiet(r)
<1>1. Good(r) /\ (Paired(s) => Paired(r)) /\ Closed(r, s, k)
  BY CloseGood
<1>2. r.flags = s.flags /\ r.pendq = s.pendq
  BY <1>1, ClosedSame
<1>3. QED
  BY <1>1, <1>2 DEF Quiet

LEMMA EofStep ==
    ASSUME UvInv, NEW k \in DOMAIN uv.pipes, ReadEof(k)
    PROVE  UvInv'
<1>1. Good(uv) /\ Paired(uv) /\ Quiet(uv)
  BY DEF UvInv
<1>2. uv.pipes[k] = "open" /\ Polled(k)
  BY DEF ReadEof
<1>3. uv.released = 0
  BY <1>1, <1>2, AliveGood
<1>4. PICK r : r = media_uv_close(uv, k)
  OBVIOUS
<1>5. k = uv.epipe => \A j \in DOMAIN uv.pipes : ~ Behind(uv, j)
  BY <1>1, <1>2, NoneBehind
<1>6. Good(r) /\ Paired(r) /\ Quiet(r)
  BY <1>1, <1>2, <1>4, <1>5, CloseStep
<1>7. uv' = r
  BY <1>3, <1>4 DEF ReadEof, Callback
<1>8. QED
  BY <1>6, <1>7, StepGood

\* The shutdown of a pipe is done: k is no longer in shutting.
ShutDone(r, s, k) == r = [s EXCEPT !.shutting = @ \ {k}]

LEMMA ShutDoneGood ==
    ASSUME NEW s, Good(s), NEW k, NEW r, ShutDone(r, s, k)
    PROVE  /\ Good(r) /\ (Paired(s) => Paired(r)) /\ r.flags = s.flags /\ r.pendq = s.pendq
           /\ r.pipes = s.pipes /\ r.epipe = s.epipe /\ r.cpipe = s.cpipe
<1>1. s \in UvType
  BY DEF Good
<1>2. PICK H : H = s.shutting \ {k}
  OBVIOUS
<1>3. r = [s EXCEPT !.shutting = H]
  BY <1>1, <1>2 DEF ShutDone, UvType
<1>4. H \in SUBSET Nat
  BY <1>1, <1>2 DEF UvType
<1>5. /\ r.pipes = s.pipes /\ r.cpipe = s.cpipe /\ r.epipe = s.epipe /\ r.due = s.due
      /\ r.pendq = s.pendq /\ r.sentq = s.sentq /\ r.wire = s.wire /\ r.answers = s.answers
      /\ r.ids = s.ids /\ r.written = s.written /\ r.freed = s.freed
      /\ r.released = s.released /\ r.flags = s.flags /\ r.shutting = H /\ r.bad = s.bad
  BY <1>1, <1>3 DEF UvType
<1>6. r \in UvType
  BY <1>1, <1>3, <1>4 DEF UvType
<1>7. r.bad # "freed" /\ (s.released > 0 => "DISCONNECT" \in r.flags)
  BY <1>5 DEF Good, Released
<1>8. \A j \in r.shutting : j \in s.shutting
  BY <1>2, <1>5
<1>9. Good(r) /\ (Paired(s) => Paired(r))
  BY <1>5, <1>6, <1>7, <1>8, FlagsGood
<1>10. QED
  BY <1>5, <1>9

LEMMA ShutdownStep ==
    ASSUME UvInv, NEW k, media_uv_shutdown_cb(k)
    PROVE  UvInv'
<1>1. Good(uv) /\ Paired(uv) /\ Quiet(uv)
  BY DEF UvInv
<1>2. k \in DOMAIN uv.pipes /\ k # uv.epipe /\ uv.pipes[k] \in {"open", "closing"}
  BY <1>1 DEF media_uv_shutdown_cb, Good, Piped
<1>3. uv.released = 0
  BY <1>1, <1>2, AliveGood
<1>4. PICK h : ShutDone(h, uv, k)
  BY DEF ShutDone
<1>5. PICK r : r = media_uv_close(h, k)
  OBVIOUS
<1>6. /\ Good(h) /\ Paired(h) /\ h.flags = uv.flags /\ h.pendq = uv.pendq
      /\ h.pipes = uv.pipes /\ h.epipe = uv.epipe /\ h.cpipe = uv.cpipe
  BY <1>1, <1>4, ShutDoneGood
<1>7. Quiet(h)
  BY <1>1, <1>6 DEF Quiet
<1>8. k \in DOMAIN h.pipes /\ h.pipes[k] # "connecting" /\ k # h.epipe
  BY <1>2, <1>6
<1>9. Good(r) /\ Paired(r) /\ Quiet(r)
  BY <1>5, <1>6, <1>7, <1>8, CloseStep
<1>10. uv' = r
  BY <1>3, <1>4, <1>5 DEF media_uv_shutdown_cb, Callback, ShutDone
<1>11. QED
  BY <1>9, <1>10, StepGood

Written(r, s, Q, D, X, V, R) ==
    r = [s EXCEPT !.sentq = Q, !.due = D, !.wire = X, !.written = V, !.responsed = R]

FirstDue(s, w, D, V) ==
    s.due # <<>> /\ w = Head(s.due) /\ D = Tail(s.due) /\ V = s.written \cup {w.id}

LEMMA WriteType ==
    ASSUME NEW s \in UvType, NEW Q \in Seq(Message), NEW D \in Seq(Message), NEW X \in Seq(Message),
           NEW V \in SUBSET (Nat \ {0}), NEW R \in SUBSET (Nat \ {0}),
           NEW r, Written(r, s, Q, D, X, V, R)
    PROVE  r \in UvType
BY DEF UvType, Written

\* MEDIA_MSGFLAG_WRITTEN of the first message that is due, and what a
\* failure takes out with it.
LEMMA WrittenGood ==
    ASSUME NEW s, Good(s), NEW w, NEW D, NEW V, FirstDue(s, w, D, V),
           NEW Q \in Seq(Message), Sub(Q, s.sentq), NEW X \in Seq(Message), Sub(X, s.wire),
           NEW R \in SUBSET (Nat \ {0}),
           NEW r, Written(r, s, Q, D, X, V, R)
    PROVE  /\ Good(r) /\ r.flags = s.flags /\ r.pendq = s.pendq /\ r.cpipe = s.cpipe /\ r.pipes = s.pipes
           /\ r.sentq = Q /\ r.wire = X /\ r.answers = s.answers
<1>1. s \in UvType /\ s.due \in Seq(Message)
  BY DEF Good, UvType
<1>2. s.due # <<>> /\ w = Head(s.due) /\ D = Tail(s.due) /\ V = s.written \cup {w.id}
  BY DEF FirstDue
<1>3. /\ D \in Seq(Message) /\ w \in Message /\ w = s.due[1] /\ 1 \in 1 .. Len(s.due)
      /\ Len(s.due) \in Nat /\ Len(D) = Len(s.due) - 1
      /\ \A i \in 1 .. Len(s.due) - 1 : D[i] = s.due[i + 1]
      /\ Sub(D, s.due)
  BY <1>1, <1>2, TailSub
<1>5. V \in SUBSET (Nat \ {0})
  BY <1>1, <1>2, <1>3 DEF UvType, Message
<1>7. r \in UvType
  BY <1>1, <1>3, <1>5, WriteType
<1>8. /\ r.pipes = s.pipes /\ r.cpipe = s.cpipe /\ r.epipe = s.epipe /\ r.due = D
      /\ r.pendq = s.pendq /\ r.sentq = Q /\ r.wire = X /\ r.answers = s.answers
      /\ r.ids = s.ids /\ r.written = V /\ r.freed = s.freed
      /\ r.released = s.released /\ r.flags = s.flags /\ r.shutting = s.shutting /\ r.bad = s.bad
  BY <1>1 DEF UvType, Written
<1>9. w.id <= s.ids /\ NotIn(s.pendq, w.id) /\ NotIn(D, w.id)
  <2>0. Memory(s)
    BY DEF Good
  <2>1. w.id <= s.ids
    BY <1>3, <2>0 DEF Memory, UpTo
  <2>2. NotIn(s.pendq, w.id)
    BY <1>3, <2>0 DEF Memory, Unused, NotIn
  <2>3. Distinct(s.due)
    BY <2>0 DEF Memory
  <2>4. ASSUME NEW i \in 1 .. Len(D), D[i].id = w.id PROVE FALSE
    <3>1. PICK n \in Nat : n = Len(s.due)
      BY <1>3
    <3>2. i \in 1 .. n - 1 /\ i + 1 \in 1 .. n /\ i + 1 # 1 /\ 1 \in 1 .. n
      BY <1>3, <3>1
    <3>3. s.due[i + 1].id = s.due[1].id
      BY <1>3, <2>4, <3>1, <3>2
    <3>4. QED
      BY <2>3, <3>1, <3>2, <3>3 DEF Distinct
  <2>5. QED
    BY <2>1, <2>2, <2>4 DEF NotIn
<1>10. \A n \in r.written \cup r.freed :
          n \in s.written \cup s.freed \/ (n <= s.ids /\ NotIn(r.pendq, n) /\ NotIn(r.due, n))
  BY <1>2, <1>8, <1>9
<1>11. Sub(r.pendq, s.pendq) /\ Sub(r.sentq, s.sentq) /\ Sub(r.due, s.due) /\ Sub(r.wire, s.wire)
  BY <1>3, <1>8, SubSame
<1>12. Good(r)
  BY <1>7, <1>8, <1>10, <1>11, LessGood
<1>13. QED
  BY <1>8, <1>12

\* A message that could not be written leaves the wire and sentq.
LEMMA TakenPaired ==
    ASSUME NEW s, Good(s), Paired(s), NEW w, w \in ToSet(s.wire), NEW r, r \in UvType,
           r.pipes = s.pipes, r.cpipe = s.cpipe, r.answers = s.answers,
           r.sentq = RemoveFirst(s.sentq, w), r.wire = RemoveFirst(s.wire, w)
    PROVE  Paired(r)
<1>1. CASE OpenPipe(r)
  <2>1. s \in UvType /\ s.sentq \in Seq(Message) /\ s.wire \in Seq(Message)
    BY DEF Good, UvType
  <2>2. OpenPipe(s)
    BY <1>1 DEF OpenPipe
  <2>3. PICK q \in Seq(Message) : Matches(q, s.answers) /\ Pairs(s.sentq, q, s.wire)
    BY <2>1, <2>2, PairedElim
  <2>4. (\A i \in 1 .. Len(q) : Ack(q[i])) /\ Distinct(s.sentq)
    BY <2>3 DEF Matches, Good, Memory
  <2>5. Pairs(RemoveFirst(s.sentq, w), q, RemoveFirst(s.wire, w))
    BY <2>1, <2>3, <2>4, RemovePairs
  <2>6. Matches(q, r.answers) /\ Pairs(r.sentq, q, r.wire)
    BY <2>3, <2>5
  <2>7. QED
    BY <2>6, PairedIntro
<1>2. CASE ~ OpenPipe(r)
  BY <1>2 DEF OpenPipe, Paired
<1>3. QED
  BY <1>1, <1>2

LEMMA FailedSame ==
    ASSUME NEW s, Good(s), NEW w, NEW r, Failed(r, s, w)
    PROVE  s.flags \subseteq r.flags /\ r.pendq = s.pendq
<1>1. s \in UvType
  BY DEF Good
<1>2. PICK F, H, G : r = [s EXCEPT !.flags = F, !.shutting = H, !.freed = G] /\ s.flags \subseteq F
  BY DEF Failed
<1>3. QED
  BY <1>1, <1>2 DEF UvType

LEMMA WriteStep ==
    ASSUME UvInv, media_uv_write_cb
    PROVE  UvInv'
<1>1. Good(uv) /\ Paired(uv) /\ Quiet(uv)
  BY DEF UvInv
<1>2. uv.due # <<>>
  BY DEF media_uv_write_cb
<1>3. uv.cpipe # NULL
  BY <1>1, <1>2 DEF Good, Piped
<1>4. uv.released = 0
  BY <1>1, <1>3, NotReleased
<1>5. PICK w : w = Head(uv.due)
  OBVIOUS
<1>6. uv \in UvType /\ uv.sentq \in Seq(Message) /\ uv.wire \in Seq(Message) /\ uv.due \in Seq(Message)
  BY <1>1 DEF Good, UvType
<1>7. w \in Message /\ w = uv.due[1] /\ 1 \in 1 .. Len(uv.due)
  BY <1>2, <1>5, <1>6, TailSub
<1>8. w.id \notin uv.freed
  BY <1>1, <1>7 DEF Good, Memory
<1>9. PICK t : t = [uv EXCEPT !.due = Tail(@)]
  OBVIOUS
<1>10. \/ uv' = media_uv_free_writing([t EXCEPT !.written = @ \cup {w.id}], w)
       \/ w \in ToSet(uv.wire) /\ uv' = WriteFails([t EXCEPT !.wire = RemoveFirst(@, w)], w)
  BY <1>4, <1>5, <1>8, <1>9 DEF media_uv_write_cb, Callback
<1>11. PICK R \in SUBSET (Nat \ {0}) : R = uv.responsed
  BY <1>6 DEF UvType
<1>12. PICK D, V : D = Tail(uv.due) /\ V = uv.written \cup {w.id}
  OBVIOUS
<1>13. FirstDue(uv, w, D, V)
  BY <1>2, <1>5, <1>12 DEF FirstDue
<1>14. CASE uv' = media_uv_free_writing([t EXCEPT !.written = @ \cup {w.id}], w)
  <2>1. PICK v : Written(v, uv, uv.sentq, D, uv.wire, V, R)
    BY DEF Written
  <2>2. Sub(uv.sentq, uv.sentq) /\ Sub(uv.wire, uv.wire)
    BY SubSame
  <2>3. /\ Good(v) /\ v.flags = uv.flags /\ v.pendq = uv.pendq /\ v.cpipe = uv.cpipe /\ v.pipes = uv.pipes
        /\ v.sentq = uv.sentq /\ v.wire = uv.wire /\ v.answers = uv.answers
    BY <1>1, <1>6, <1>11, <1>13, <2>1, <2>2, WrittenGood
  <2>4. v = [t EXCEPT !.written = @ \cup {w.id}]
    BY <1>6, <1>9, <1>11, <1>12, <2>1 DEF UvType, Written
  <2>5. Paired(v)
    BY <1>1, <2>3, PairedSame DEF OpenPipe
  <2>6. PICK r : r = media_uv_free_writing(v, w)
    OBVIOUS
  <2>7. Good(r) /\ (Paired(v) => Paired(r)) /\ r.flags = v.flags /\ r.pendq = v.pendq
    BY <1>7, <2>3, <2>6, FreeingGood
  <2>8. uv' = r
    BY <1>14, <2>4, <2>6
  <2>9. QED
    BY <1>1, <2>3, <2>5, <2>7, <2>8, StepGood DEF Quiet
<1>15. CASE w \in ToSet(uv.wire) /\ uv' = WriteFails([t EXCEPT !.wire = RemoveFirst(@, w)], w)
  <2>1. PICK Q : Q = RemoveFirst(uv.sentq, w)
    OBVIOUS
  <2>2. PICK X : X = RemoveFirst(uv.wire, w)
    OBVIOUS
  <2>3. Q \in Seq(Message) /\ Sub(Q, uv.sentq) /\ X \in Seq(Message) /\ Sub(X, uv.wire)
    BY <1>6, <2>1, <2>2, RemoveSub
  <2>4. PICK P \in SUBSET (Nat \ {0}) : P = uv.responsed \cup {w.id}
    BY <1>7, <1>11 DEF Message
  <2>5. PICK v : Written(v, uv, Q, D, X, V, P)
    BY DEF Written
  <2>6. /\ Good(v) /\ v.flags = uv.flags /\ v.pendq = uv.pendq /\ v.cpipe = uv.cpipe /\ v.pipes = uv.pipes
        /\ v.sentq = Q /\ v.wire = X /\ v.answers = uv.answers
    BY <1>1, <1>13, <2>3, <2>5, WrittenGood
  <2>7. v \in UvType
    BY <2>6 DEF Good
  <2>8. Paired(v)
    BY <1>1, <1>15, <2>1, <2>2, <2>6, <2>7, TakenPaired
  <2>9. PICK a : a = [t EXCEPT !.wire = RemoveFirst(@, w)]
    OBVIOUS
  <2>10. v = [a EXCEPT !.sentq = RemoveFirst(@, w),
                       !.responsed = @ \cup {w.id}, !.written = @ \cup {w.id}]
    <3>1. a = [uv EXCEPT !.due = D, !.wire = X]
      BY <1>6, <1>9, <1>12, <2>2, <2>9 DEF UvType
    <3>2. a.sentq = uv.sentq /\ a.responsed = uv.responsed /\ a.written = uv.written
      BY <1>6, <3>1 DEF UvType
    <3>3. [a EXCEPT !.sentq = RemoveFirst(@, w), !.responsed = @ \cup {w.id}, !.written = @ \cup {w.id}]
            = [a EXCEPT !.sentq = Q, !.responsed = P, !.written = V]
      BY <1>12, <2>1, <2>4, <3>2
    <3>4. QED
      BY <1>6, <2>5, <3>1, <3>3 DEF UvType, Written
  <2>11. PICK r : r = AfterFailure(v, w)
    OBVIOUS
  <2>12. uv' = r
    BY <1>15, <2>9, <2>10, <2>11 DEF WriteFails, AfterFailure
  <2>13. Good(r) /\ (Paired(v) => Paired(r)) /\ Failed(r, v, w)
    BY <1>3, <1>7, <2>6, <2>11, FailureGood
  <2>14. v.flags \subseteq r.flags /\ r.pendq = v.pendq
    BY <2>6, <2>13, FailedSame
  <2>15. QED
    BY <1>1, <2>6, <2>8, <2>12, <2>13, <2>14, StepGood DEF Quiet
<1>16. QED
  BY <1>10, <1>14, <1>15

\* uv_close of the pipe k is done.
LEMMA ClosedPipeGood ==
    ASSUME NEW s, Good(s), NEW k \in DOMAIN s.pipes, s.pipes[k] = "closing", k = s.cpipe => s.due = <<>>,
           NEW p, p = [s.pipes EXCEPT ![k] = "closed"], NEW r \in UvType,
           r.pipes = p, r.cpipe = IF k = s.cpipe THEN NULL ELSE s.cpipe,
           r.epipe = IF k = s.epipe THEN NULL ELSE s.epipe,
           r.shutting = s.shutting \ {k}, r.due = s.due,
           r.pendq = s.pendq, r.sentq = s.sentq, r.wire = s.wire, r.answers = s.answers,
           r.ids = s.ids, r.written = s.written, r.freed = s.freed, r.released = s.released,
           r.flags = s.flags, r.bad = s.bad
    PROVE  Good(r) /\ (Paired(s) => Paired(r))
<1>1. k \in Nat /\ k # NULL /\ s.pipes \in Seq(PipeStates)
  <2>1. k \in Nat /\ s.pipes \in Seq(PipeStates)
    BY DEF Good, UvType
  <2>2. QED
    BY <2>1, NullAssumption
<1>2. /\ DOMAIN p = DOMAIN s.pipes /\ p[k] = "closed"
      /\ \A j \in DOMAIN s.pipes : j # k => p[j] = s.pipes[j]
  BY <1>1, PipeSet DEF PipeStates
<1>3. Piped(r)
  <2>1. ASSUME NEW j \in DOMAIN p, Behind(r, j) PROVE Waiting(r, j)
    <3>1. Behind(s, j)
      BY <1>2, <2>1 DEF Behind
    <3>2. Waiting(s, j)
      BY <1>2, <3>1 DEF Good, Piped
    <3>3. s.cpipe # NULL => s.cpipe \in DOMAIN s.pipes
      BY DEF Good, Piped
    <3>4. s.epipe # NULL => s.epipe \in DOMAIN s.pipes
      BY DEF Good, Piped
    <3>5. QED
      BY <1>1, <1>2, <3>2, <3>3, <3>4 DEF Waiting
  <2>2. \A j \in DOMAIN p : j # r.cpipe /\ j # r.epipe => p[j] \in {"closing", "closed"}
    BY <1>2 DEF Good, Piped
  <2>3. \A j \in r.shutting : j \in DOMAIN p /\ j # r.epipe /\ p[j] \in {"open", "closing"}
    <3>1. \A j \in r.shutting : j # k /\ j \in DOMAIN s.pipes /\ j # s.epipe /\ s.pipes[j] \in {"open", "closing"}
      BY DEF Good, Piped
    <3>2. \A j \in DOMAIN s.pipes : j # NULL
      <4>1. \A j \in DOMAIN s.pipes : j \in Nat
        BY <1>1
      <4>2. QED
        BY <4>1, NullAssumption
    <3>3. QED
      BY <1>2, <3>1, <3>2
  <2>4. r.cpipe # NULL => /\ r.cpipe \in DOMAIN p /\ r.cpipe # r.epipe
                          /\ p[r.cpipe] \in {"connecting", "open", "closing"}
    BY <1>2 DEF Good, Piped
  <2>5. r.epipe # NULL => /\ r.epipe \in DOMAIN p /\ p[r.epipe] \in {"listening", "open", "closing"}
    BY <1>2 DEF Good, Piped
  <2>6. r.cpipe = NULL => r.due = <<>>
    BY DEF Good, Piped
  <2>7. QED
    BY <2>1, <2>2, <2>3, <2>4, <2>5, <2>6 DEF Piped
<1>4. Memory(r) /\ Ordered(r)
  BY DEF Good, Memory, Unused, Ordered
<1>5. Linked(r)
  <2>1. "CONNECTING" \in r.flags => r.epipe = NULL /\ Len(r.sentq) <= 1
    BY DEF Good, Linked
  <2>2. r.cpipe # NULL /\ p[r.cpipe] = "connecting" => s.cpipe # NULL /\ s.pipes[s.cpipe] = "connecting"
    BY <1>2 DEF Good, Piped
  <2>3. QED
    BY <2>1, <2>2 DEF Good, Linked
<1>6. Released(r)
  <2>1. s.released = 0
    BY AliveGood
  <2>2. QED
    BY <2>1 DEF Released
<1>7. Good(r)
  BY <1>3, <1>4, <1>5, <1>6 DEF Good
<1>8. Paired(s) => Paired(r)
  <2>1. OpenPipe(r) => OpenPipe(s)
    BY <1>2 DEF OpenPipe, Good, Piped
  <2>2. QED
    BY <2>1, PairedSame
<1>9. QED
  BY <1>7, <1>8

\* The pipe is one of the two, or one that was left behind.
Gone(c, s, k, p, H) ==
    \/ k = s.cpipe /\ c = [s EXCEPT !.pipes = p, !.shutting = H, !.cpipe = NULL]
    \/ k # s.cpipe /\ k = s.epipe /\ c = [s EXCEPT !.pipes = p, !.shutting = H, !.epipe = NULL, !.backlog = "none"]
    \/ k # s.cpipe /\ k # s.epipe /\ c = [s EXCEPT !.pipes = p, !.shutting = H]

LEMMA GoneSame ==
    ASSUME NEW s \in UvType, s.cpipe # NULL => s.cpipe # s.epipe, NEW k, k # NULL,
           NEW p \in Seq(PipeStates), NEW H \in SUBSET Nat, NEW c, Gone(c, s, k, p, H)
    PROVE  /\ c \in UvType
           /\ c.pipes = p /\ c.cpipe = (IF k = s.cpipe THEN NULL ELSE s.cpipe)
           /\ c.epipe = (IF k = s.epipe THEN NULL ELSE s.epipe)
           /\ c.shutting = H /\ c.due = s.due
           /\ c.pendq = s.pendq /\ c.sentq = s.sentq /\ c.wire = s.wire /\ c.answers = s.answers
           /\ c.ids = s.ids /\ c.written = s.written /\ c.freed = s.freed /\ c.released = s.released
           /\ c.flags = s.flags /\ c.bad = s.bad
<1>1. CASE k = s.cpipe /\ c = [s EXCEPT !.pipes = p, !.shutting = H, !.cpipe = NULL]
  <2>1. c \in UvType
    BY <1>1 DEF UvType, OrNull
  <2>2. QED
    BY <1>1, <2>1 DEF UvType
<1>2. CASE k # s.cpipe /\ k = s.epipe /\ c = [s EXCEPT !.pipes = p, !.shutting = H, !.epipe = NULL, !.backlog = "none"]
  <2>1. c \in UvType
    BY <1>2 DEF UvType, OrNull
  <2>2. QED
    BY <1>2, <2>1 DEF UvType
<1>3. CASE k # s.cpipe /\ k # s.epipe /\ c = [s EXCEPT !.pipes = p, !.shutting = H]
  <2>1. c \in UvType
    BY <1>3 DEF UvType, OrNull
  <2>2. QED
    BY <1>3, <2>1 DEF UvType
<1>4. QED
  BY <1>1, <1>2, <1>3 DEF Gone

PipeGone(c, s, k) ==
    \E x : /\ x = [s EXCEPT !.pipes[k] = "closed", !.shutting = @ \ {k}]
           /\ c = IF k = s.cpipe THEN [x EXCEPT !.cpipe = NULL]
                  ELSE IF k = s.epipe THEN [x EXCEPT !.epipe = NULL, !.backlog = "none"]
                  ELSE x

LEMMA PipeGoneGood ==
    ASSUME NEW s, Good(s), NEW k \in DOMAIN s.pipes, s.pipes[k] = "closing", k = s.cpipe => s.due = <<>>,
           NEW c, PipeGone(c, s, k)
    PROVE  Good(c) /\ (Paired(s) => Paired(c)) /\ c.released = 0 /\ c.flags = s.flags /\ c.pendq = s.pendq
<1>1. s \in UvType /\ s.pipes \in Seq(PipeStates) /\ s.released = 0
  BY AliveGood DEF Good, UvType
<1>2. PICK p : p = [s.pipes EXCEPT ![k] = "closed"]
  OBVIOUS
<1>3. PICK H \in SUBSET Nat : H = s.shutting \ {k}
  BY <1>1 DEF UvType
<1>4. p \in Seq(PipeStates)
  BY <1>1, <1>2, PipeSet DEF PipeStates
<1>5. s.cpipe # NULL => s.cpipe # s.epipe
  BY DEF Good, Piped
<1>6. k # NULL
  <2>1. k \in Nat
    BY <1>1
  <2>2. QED
    BY <2>1, NullAssumption
<1>7. PICK x : /\ x = [s EXCEPT !.pipes[k] = "closed", !.shutting = @ \ {k}]
               /\ c = IF k = s.cpipe THEN [x EXCEPT !.cpipe = NULL]
                      ELSE IF k = s.epipe THEN [x EXCEPT !.epipe = NULL, !.backlog = "none"]
                      ELSE x
  BY DEF PipeGone
<1>8. x = [s EXCEPT !.pipes = p, !.shutting = H]
  BY <1>1, <1>2, <1>3, <1>7 DEF UvType
<1>9. Gone(c, s, k, p, H)
  BY <1>1, <1>7, <1>8 DEF UvType, Gone
<1>10. c \in UvType
  BY <1>1, <1>4, <1>5, <1>6, <1>9, GoneSame
<1>11. /\ c.pipes = p /\ c.cpipe = (IF k = s.cpipe THEN NULL ELSE s.cpipe)
       /\ c.epipe = (IF k = s.epipe THEN NULL ELSE s.epipe)
       /\ c.shutting = H /\ c.due = s.due
       /\ c.pendq = s.pendq /\ c.sentq = s.sentq /\ c.wire = s.wire /\ c.answers = s.answers
       /\ c.ids = s.ids /\ c.written = s.written /\ c.freed = s.freed /\ c.released = s.released
       /\ c.flags = s.flags /\ c.bad = s.bad
  BY <1>1, <1>4, <1>5, <1>6, <1>9, GoneSame
<1>12. c.shutting = s.shutting \ {k}
  BY <1>3, <1>11
<1>13. Good(c) /\ (Paired(s) => Paired(c))
  BY <1>2, <1>10, <1>11, <1>12, ClosedPipeGood
<1>14. QED
  BY <1>1, <1>11, <1>13

LEMMA CloseCbStep ==
    ASSUME UvInv, NEW k \in DOMAIN uv.pipes, media_uv_close_cb(k)
    PROVE  UvInv'
<1>1. Good(uv) /\ Paired(uv) /\ Quiet(uv)
  BY DEF UvInv
<1>2. uv.pipes[k] = "closing" /\ (k = uv.cpipe => uv.due = <<>>)
  BY DEF media_uv_close_cb
<1>3. uv.released = 0
  BY <1>1, <1>2, AliveGood
<1>4. PICK c : PipeGone(c, uv, k)
  BY DEF PipeGone
<1>5. PICK r : r = media_uv_free_proxy(c)
  OBVIOUS
<1>6. Good(c) /\ Paired(c) /\ c.released = 0 /\ c.flags = uv.flags /\ c.pendq = uv.pendq
  BY <1>1, <1>2, <1>4, PipeGoneGood
<1>7. Good(r) /\ (Paired(c) => Paired(r)) /\ r.flags = c.flags /\ r.pendq \in {c.pendq, <<>>}
  BY <1>5, <1>6, FreeProxyGood
<1>8. uv' = r
  BY <1>3, <1>4, <1>5 DEF media_uv_close_cb, Callback, PipeGone
<1>9. QED
  BY <1>1, <1>6, <1>7, <1>8, StepGood DEF Quiet

\* media_uv_send outside of a callback.
LEMMA UserSendGood ==
    ASSUME NEW s, Good(s), Paired(s), Quiet(s), NEW code \in {"call", "cast"}, NEW r, r = media_uv_send(s, code)
    PROVE  Good(r) /\ Paired(r) /\ Quiet(r)
<1>1. code \in Codes /\ code # "open"
  BY DEF Codes
<1>2. s.flags = {} => s.pendq = <<>>
  BY DEF Quiet
<1>3. /\ Good(r) /\ (Paired(s) => Paired(r)) /\ Sends(r, s) /\ (s.flags = {} => r.pendq = s.pendq)
  BY <1>1, <1>2, QueueGood
<1>4. r.flags = {} => s.flags = {}
  BY <1>3 DEF Sends
<1>5. QED
  BY <1>2, <1>3, <1>4 DEF Quiet

LEMMA UserSendStep ==
    ASSUME UvInv, NEW code \in {"call", "cast"}, UserSend(code)
    PROVE  UvInv'
<1>1. Good(uv) /\ Paired(uv) /\ Quiet(uv)
  BY DEF UvInv
<1>2. PICK r : r = media_uv_send(uv, code)
  OBVIOUS
<1>3. Good(r) /\ Paired(r) /\ Quiet(r)
  BY <1>1, <1>2, UserSendGood
<1>4. uv' = r
  BY <1>2 DEF UserSend
<1>5. QED
  BY <1>3, <1>4, StepGood

\* media_uv_listen
LEMMA ListenGood ==
    ASSUME NEW s, Good(s), Paired(s), Quiet(s), NEW bound, NEW r, r = media_uv_listen(s, bound)
    PROVE  Good(r) /\ Paired(r) /\ Quiet(r)
<1>1. CASE "LISTENING" \in s.flags \/ s.epipe # NULL
  BY <1>1 DEF media_uv_listen
<1>2. CASE "LISTENING" \notin s.flags /\ s.epipe = NULL /\ s.flags = {}
  <2>1. r = media_uv_listen_one(s, bound)
    BY <1>2 DEF media_uv_listen
  <2>2. s.released = 0 /\ "CONNECTING" \notin s.flags /\ s.pendq = <<>>
    BY <1>2, NotReleased DEF Quiet
  <2>3. Good(r) /\ (Paired(s) => Paired(r)) /\ r.pendq = s.pendq
    BY <1>2, <2>1, <2>2, ListenOneGood
  <2>4. QED
    BY <2>2, <2>3 DEF Quiet
<1>3. CASE "LISTENING" \notin s.flags /\ s.epipe = NULL /\ s.flags # {}
  <2>1. PutOff(r, s, "LISTENING")
    BY <1>3 DEF media_uv_listen, PutOff
  <2>2. Good(r) /\ (Paired(s) => Paired(r)) /\ Stays(r, s)
    BY <2>1, PutOffGood
  <2>3. r.flags # {}
    BY <1>3, <2>2 DEF Stays
  <2>4. QED
    BY <2>2, <2>3 DEF Quiet
<1>4. QED
  BY <1>1, <1>2, <1>3

LEMMA UserListenStep ==
    ASSUME UvInv, NEW bound, UserListen(bound)
    PROVE  UvInv'
<1>1. Good(uv) /\ Paired(uv) /\ Quiet(uv)
  BY DEF UvInv
<1>2. PICK t : t = media_uv_send(uv, "cast")
  OBVIOUS
<1>3. Good(t) /\ Paired(t) /\ Quiet(t)
  BY <1>1, <1>2, UserSendGood
<1>4. PICK r : r = media_uv_listen(t, bound)
  OBVIOUS
<1>5. Good(r) /\ Paired(r) /\ Quiet(r)
  BY <1>3, <1>4, ListenGood
<1>6. uv' = r \/ uv' = t
  BY <1>2, <1>4 DEF UserListen
<1>7. QED
  BY <1>3, <1>5, <1>6, StepGood

LEMMA UserCloseStep ==
    ASSUME UvInv, UserClose
    PROVE  UvInv'
<1>1. Good(uv) /\ Paired(uv) /\ Quiet(uv)
  BY DEF UvInv
<1>2. PICK r : r = Close(uv)
  OBVIOUS
<1>3. Good(r) /\ Paired(r) /\ Quiet(r)
  BY <1>1, <1>2, AppCloseGood
<1>4. uv' = r
  BY <1>2 DEF UserClose
<1>5. QED
  BY <1>3, <1>4, StepGood

\* The server takes one message and may answer it.
Served(r, s, X, A, b) == r = [s EXCEPT !.wire = X, !.answers = A, !.backlog = b]

FirstServed(s, w, X, A, a) ==
    /\ s.wire # <<>> /\ w = Head(s.wire) /\ X = Tail(s.wire) /\ a.id = w.id
    /\ A = IF Ack(w) THEN Append(s.answers, a) ELSE s.answers

LEMMA ServedGood ==
    ASSUME NEW s, Good(s), Paired(s), NEW w, NEW X, NEW A, NEW a \in Answer, FirstServed(s, w, X, A, a),
           NEW b \in {"none", "waiting"}, NEW r, Served(r, s, X, A, b)
    PROVE  Good(r) /\ Paired(r) /\ r.flags = s.flags /\ r.pendq = s.pendq
<1>0. /\ s.wire # <<>> /\ w = Head(s.wire) /\ X = Tail(s.wire) /\ a.id = w.id
      /\ A = IF Ack(w) THEN Append(s.answers, a) ELSE s.answers
  BY DEF FirstServed
<1>1. s \in UvType /\ s.wire \in Seq(Message) /\ s.answers \in Seq(Answer)
  BY DEF Good, UvType, Answer
<1>2. w \in Message /\ X \in Seq(Message) /\ Sub(X, s.wire)
  BY <1>0, <1>1, TailSub
<1>3. A \in Seq(Answer)
  BY <1>0, <1>1
<1>4. r \in UvType
  BY <1>1, <1>2, <1>3 DEF Served, UvType, Answer
<1>5. /\ r.pipes = s.pipes /\ r.cpipe = s.cpipe /\ r.epipe = s.epipe /\ r.due = s.due
      /\ r.pendq = s.pendq /\ r.sentq = s.sentq /\ r.wire = X /\ r.answers = A
      /\ r.ids = s.ids /\ r.written = s.written /\ r.freed = s.freed
      /\ r.released = s.released /\ r.flags = s.flags /\ r.shutting = s.shutting /\ r.bad = s.bad
  BY <1>1 DEF Served, UvType
<1>6. Good(r)
  <2>1. Sub(r.pendq, s.pendq) /\ Sub(r.sentq, s.sentq) /\ Sub(r.due, s.due) /\ Sub(r.wire, s.wire)
    BY <1>2, <1>5, SubSame
  <2>2. \A n \in r.written \cup r.freed : n \in s.written \cup s.freed
    BY <1>5
  <2>3. s.wire # <<>>
    BY <1>0
  <2>4. QED
    BY <1>4, <1>5, <2>1, <2>2, <2>3, LessGood
<1>7. Paired(r)
  <2>1. CASE OpenPipe(r)
    <3>1. OpenPipe(s)
      BY <1>5, <2>1 DEF OpenPipe
    <3>2. PICK q \in Seq(Message) : Matches(q, s.answers) /\ Pairs(s.sentq, q, s.wire)
      BY <1>1, <3>1, PairedElim
    <3>3. CASE Ack(w)
      <4>1. PICK x : Added(x, q, w)
        BY DEF Added
      <4>2. Pairs(s.sentq, x, X)
        BY <1>0, <1>1, <3>2, <3>3, <4>1, ServedPairs
      <4>3. /\ x \in Seq(Message) /\ Len(q) \in Nat /\ Len(x) = Len(q) + 1
            /\ x[Len(q) + 1] = w /\ \A i \in 1 .. Len(q) : x[i] = q[i]
        BY <1>2, <4>1, AddedKeeps
      <4>4. /\ Len(s.answers) \in Nat /\ Len(A) = Len(s.answers) + 1
            /\ A[Len(s.answers) + 1] = a /\ \A i \in 1 .. Len(s.answers) : A[i] = s.answers[i]
        BY <1>0, <1>1, <3>3, Appended
      <4>5. Matches(x, A)
        <5>1. Len(q) = Len(s.answers) /\ \A i \in 1 .. Len(q) : Ack(q[i]) /\ q[i].id = s.answers[i].id
          BY <3>2 DEF Matches
        <5>2. PICK n \in Nat : n = Len(q)
          BY <4>3
        <5>3. Len(x) = n + 1 /\ Len(A) = n + 1
          BY <4>3, <4>4, <5>1, <5>2
        <5>4. ASSUME NEW i \in 1 .. n + 1 PROVE Ack(x[i]) /\ x[i].id = A[i].id
          <6>1. CASE i = n + 1
            BY <1>0, <3>3, <4>3, <4>4, <5>1, <5>2, <6>1
          <6>2. CASE i # n + 1
            <7>1. i \in 1 .. n
              BY <6>2
            <7>2. QED
              BY <4>3, <4>4, <5>1, <5>2, <7>1
          <6>3. QED
            BY <6>1, <6>2
        <5>5. QED
          BY <5>3, <5>4 DEF Matches
      <4>6. Matches(x, r.answers) /\ Pairs(r.sentq, x, r.wire)
        BY <1>5, <4>2, <4>5
      <4>7. QED
        BY <1>4, <4>3, <4>6, PairedIntro
    <3>4. CASE ~ Ack(w)
      <4>1. Pairs(s.sentq, q, X)
        BY <1>0, <1>1, <3>2, <3>4, ServedPairs
      <4>2. Matches(q, r.answers) /\ Pairs(r.sentq, q, r.wire)
        BY <1>0, <1>5, <3>2, <3>4, <4>1
      <4>3. QED
        BY <1>4, <4>2, PairedIntro
    <3>5. QED
      BY <3>3, <3>4
  <2>2. CASE ~ OpenPipe(r)
    BY <2>2 DEF OpenPipe, Paired
  <2>3. QED
    BY <2>1, <2>2
<1>8. QED
  BY <1>5, <1>6, <1>7

LEMMA ServeStep ==
    ASSUME UvInv, Serve
    PROVE  UvInv'
<1>1. Good(uv) /\ Paired(uv) /\ Quiet(uv)
  BY DEF UvInv
<1>2. uv.wire # <<>> /\ uv \in UvType /\ uv.wire \in Seq(Message)
  BY <1>1 DEF Serve, Good, UvType
<1>3. PICK w, X : w = Head(uv.wire) /\ X = Tail(uv.wire)
  OBVIOUS
<1>4. w \in Message
  BY <1>2, <1>3, TailSub
<1>5. PICK a : a = [id |-> w.id, ret |-> IF w.code = "open" THEN Verdict ELSE 0]
  OBVIOUS
<1>6. a \in Answer /\ a.id = w.id
  BY <1>4, <1>5 DEF Answer, Message, Verdict
<1>7. PICK A : A = IF Ack(w) THEN Append(uv.answers, a) ELSE uv.answers
  OBVIOUS
<1>8. PICK b : b = IF w.code = "notify" /\ Listens THEN "waiting" ELSE uv.backlog
  OBVIOUS
<1>9. b \in {"none", "waiting"}
  BY <1>2, <1>8 DEF UvType
<1>10. PICK r : Served(r, uv, X, A, b)
  BY DEF Served
<1>11. FirstServed(uv, w, X, A, a)
  BY <1>2, <1>3, <1>6, <1>7 DEF FirstServed
<1>12. Good(r) /\ Paired(r) /\ r.flags = uv.flags /\ r.pendq = uv.pendq
  BY <1>1, <1>6, <1>9, <1>10, <1>11, ServedGood
<1>13. uv' = r
  <2>1. PICK s : s = [uv EXCEPT !.wire = X]
    BY <1>2
  <2>2. PICK t : t = IF Ack(w) THEN [s EXCEPT !.answers = Append(@, a)] ELSE s
    OBVIOUS
  <2>3. uv' = IF w.code = "notify" /\ Listens THEN [t EXCEPT !.backlog = "waiting"] ELSE t
    <3>1. [uv EXCEPT !.wire = Tail(@)] = s
      BY <1>2, <1>3, <2>1 DEF UvType
    <3>2. QED
      BY <1>3, <1>5, <2>2, <3>1 DEF Serve
  <2>4. t = [uv EXCEPT !.wire = X, !.answers = A]
    BY <1>2, <1>7, <2>1, <2>2 DEF UvType
  <2>5. QED
    BY <1>2, <1>8, <1>10, <2>3, <2>4 DEF UvType, Served
<1>14. QED
  BY <1>1, <1>12, <1>13, StepGood DEF Quiet

\* The listener is not put off any more.
Accepting(r, s) == r = [s EXCEPT !.flags = @ \ {"LISTENING"}, !.backlog = "none"]

LEMMA AcceptingGood ==
    ASSUME NEW s, Good(s), NEW r, Accepting(r, s)
    PROVE  /\ Good(r) /\ (Paired(s) => Paired(r)) /\ r.flags = s.flags \ {"LISTENING"}
           /\ r.pipes = s.pipes /\ r.cpipe = s.cpipe /\ r.epipe = s.epipe /\ r.released = s.released
           /\ r.pendq = s.pendq
<1>1. s \in UvType
  BY DEF Good
<1>2. PICK F \in SUBSET Flags : F = s.flags \ {"LISTENING"}
  BY <1>1 DEF UvType
<1>3. r = [s EXCEPT !.flags = F, !.backlog = "none"]
  BY <1>1, <1>2 DEF Accepting, UvType
<1>4. /\ r.pipes = s.pipes /\ r.cpipe = s.cpipe /\ r.epipe = s.epipe /\ r.due = s.due
      /\ r.pendq = s.pendq /\ r.sentq = s.sentq /\ r.wire = s.wire /\ r.answers = s.answers
      /\ r.ids = s.ids /\ r.written = s.written /\ r.freed = s.freed
      /\ r.released = s.released /\ r.flags = F /\ r.shutting = s.shutting /\ r.bad = s.bad
  BY <1>1, <1>3 DEF UvType
<1>5. r \in UvType
  BY <1>1, <1>3 DEF UvType
<1>6. r.bad # "freed" /\ (s.released > 0 => "DISCONNECT" \in r.flags)
  BY <1>2, <1>4 DEF Good, Released
<1>7. "CONNECTING" \in r.flags <=> "CONNECTING" \in s.flags
  BY <1>2, <1>4
<1>8. \A j \in r.shutting : j \in s.shutting
  BY <1>4
<1>9. Good(r) /\ (Paired(s) => Paired(r))
  BY <1>4, <1>5, <1>6, <1>7, <1>8, FlagsGood
<1>10. QED
  BY <1>2, <1>4, <1>9

\* The server has connected back: its pipe is the event pipe, and the one
\* that listened is closed.
Accepted(r, s) ==
    r = media_uv_close([OnPipe(s, "open") EXCEPT !.epipe = NewPipe(s)], s.epipe)

LEMMA AcceptedGood ==
    ASSUME NEW s, Good(s), s.epipe # NULL, s.pipes[s.epipe] = "listening", NEW r, Accepted(r, s)
    PROVE  Good(r) /\ (Paired(s) => Paired(r)) /\ r.flags = s.flags /\ r.pendq = s.pendq
<1>1. s \in UvType /\ s.pipes \in Seq(PipeStates)
  BY DEF Good, UvType
<1>2. PICK k : k = s.epipe
  OBVIOUS
<1>3. k \in DOMAIN s.pipes /\ k # NULL /\ s.pipes[k] = "listening" /\ k # s.cpipe
  BY <1>2 DEF Good, Piped
<1>4. PICK q, n : q = Append(s.pipes, "open") /\ n = Len(s.pipes) + 1
  OBVIOUS
<1>5. /\ q \in Seq(PipeStates) /\ n \in Nat /\ n \in DOMAIN q /\ n \notin DOMAIN s.pipes /\ q[n] = "open"
      /\ DOMAIN q = DOMAIN s.pipes \cup {n}
      /\ \A j \in DOMAIN s.pipes : j \in Nat /\ j < n /\ q[j] = s.pipes[j]
  BY <1>1, <1>4, PipeNew DEF PipeStates
<1>6. PICK p : p = [q EXCEPT ![k] = "closing"]
  OBVIOUS
<1>7. k \in DOMAIN q
  BY <1>3, <1>5
<1>8. /\ p \in Seq(PipeStates) /\ DOMAIN p = DOMAIN q /\ p[k] = "closing"
      /\ \A j \in DOMAIN q : j # k => p[j] = q[j]
  BY <1>5, <1>6, <1>7, PipeSet DEF PipeStates
<1>9. PICK u : u = [OnPipe(s, "open") EXCEPT !.epipe = NewPipe(s)]
  OBVIOUS
<1>10. u = [s EXCEPT !.pipes = q, !.epipe = n]
  BY <1>1, <1>4, <1>9 DEF OnPipe, NewPipe, UvType
<1>11. r = [s EXCEPT !.pipes = p, !.epipe = n]
  <2>1. u.pipes = q
    BY <1>1, <1>10 DEF UvType
  <2>2. u.pipes[k] = "listening"
    BY <1>3, <1>5, <2>1
  <2>3. r = [u EXCEPT !.pipes[k] = "closing"]
    BY <1>2, <1>9, <2>2 DEF Accepted, media_uv_close
  <2>4. r = [u EXCEPT !.pipes = p]
    BY <1>1, <1>6, <1>10, <2>1, <2>3 DEF UvType
  <2>5. QED
    BY <1>1, <1>10, <2>4 DEF UvType
<1>12. r \in UvType
  <2>1. n \in OrNull(Nat)
    BY <1>5 DEF OrNull
  <2>2. [s EXCEPT !.pipes = p, !.epipe = n] \in UvType
    BY <1>1, <1>8, <2>1, ListenType
  <2>3. QED
    BY <1>11, <2>2
<1>13. /\ r.pipes = p /\ r.cpipe = s.cpipe /\ r.epipe = n /\ r.due = s.due
       /\ r.pendq = s.pendq /\ r.sentq = s.sentq /\ r.wire = s.wire /\ r.answers = s.answers
       /\ r.ids = s.ids /\ r.written = s.written /\ r.freed = s.freed
       /\ r.released = s.released /\ r.flags = s.flags /\ r.shutting = s.shutting /\ r.bad = s.bad
  BY <1>1, <1>11 DEF UvType
<1>14. n # NULL /\ n # k /\ p[n] = "open" /\ n \in DOMAIN p
  BY <1>3, <1>5, <1>8, NullAssumption
<1>15. \A j \in DOMAIN s.pipes : j # k => p[j] = s.pipes[j]
  BY <1>5, <1>8
<1>16. Piped(r)
  <2>1. ASSUME NEW j \in DOMAIN p, Behind(r, j) PROVE Waiting(r, j)
    <3>1. j # n
      BY <1>13, <2>1 DEF Behind
    <3>2. j < n
      BY <1>5, <1>8, <3>1
    <3>3. QED
      BY <1>13, <1>14, <3>2 DEF Waiting
  <2>2. ASSUME NEW j \in DOMAIN p, j # s.cpipe, j # n PROVE p[j] \in {"closing", "closed"}
    <3>1. j \in DOMAIN s.pipes
      BY <1>5, <1>8, <2>2
    <3>2. CASE j = k
      BY <1>8, <3>2
    <3>3. CASE j # k
      <4>1. s.pipes[j] \in {"closing", "closed"}
        BY <1>2, <2>2, <3>1, <3>3 DEF Good, Piped
      <4>2. QED
        BY <1>15, <3>1, <3>3, <4>1
    <3>4. QED
      BY <3>2, <3>3
  <2>3. \A j \in s.shutting : j \in DOMAIN p /\ j # n /\ p[j] \in {"open", "closing"}
    <3>1. \A j \in s.shutting : j \in DOMAIN s.pipes /\ j # k /\ s.pipes[j] \in {"open", "closing"}
      BY <1>2 DEF Good, Piped
    <3>2. QED
      BY <1>5, <1>8, <1>15, <3>1
  <2>4. s.cpipe # NULL => s.cpipe \in DOMAIN p /\ s.cpipe # n /\ p[s.cpipe] \in {"connecting", "open", "closing"}
    <3>1. s.cpipe # NULL => s.cpipe \in DOMAIN s.pipes /\ s.pipes[s.cpipe] \in {"connecting", "open", "closing"}
      BY DEF Good, Piped
    <3>2. QED
      BY <1>3, <1>5, <1>8, <1>15, <3>1
  <2>5. s.cpipe = NULL => s.due = <<>>
    BY DEF Good, Piped
  <2>6. QED
    BY <1>13, <1>14, <2>1, <2>2, <2>3, <2>4, <2>5 DEF Piped
<1>17. Memory(r) /\ Ordered(r)
  BY <1>13 DEF Good, Memory, Unused, Ordered
<1>18. s.cpipe # NULL => s.cpipe \in DOMAIN s.pipes /\ p[s.cpipe] = s.pipes[s.cpipe]
  <2>1. s.cpipe # NULL => s.cpipe \in DOMAIN s.pipes
    BY DEF Good, Piped
  <2>2. QED
    BY <1>3, <1>15, <2>1
<1>19. Linked(r)
  <2>1. "CONNECTING" \notin s.flags
    BY DEF Good, Linked
  <2>2. QED
    BY <1>13, <1>18, <2>1 DEF Good, Linked
<1>20. Released(r)
  <2>1. s.released = 0
    BY NotReleased
  <2>2. QED
    BY <1>13, <2>1 DEF Released
<1>21. Good(r)
  BY <1>12, <1>13, <1>16, <1>17, <1>19, <1>20 DEF Good
<1>22. Paired(s) => Paired(r)
  <2>1. OpenPipe(r) => OpenPipe(s) /\ r.sentq = s.sentq /\ r.answers = s.answers /\ r.wire = s.wire
    BY <1>13, <1>18 DEF OpenPipe
  <2>2. QED
    BY <2>1, PairedSame
<1>23. QED
  BY <1>13, <1>21, <1>22

LEMMA AcceptStep ==
    ASSUME UvInv, NEW then, media_uv_listen_one_cb(then)
    PROVE  UvInv'
<1>1. Good(uv) /\ Paired(uv) /\ Quiet(uv)
  BY DEF UvInv
<1>2. uv.epipe # NULL /\ uv.pipes[uv.epipe] = "listening"
  BY DEF media_uv_listen_one_cb
<1>3. uv.released = 0
  BY <1>1, <1>2, NotReleased
<1>4. PICK k : k = uv.epipe
  OBVIOUS
<1>5. PICK s : Accepting(s, uv)
  BY DEF Accepting
<1>6. /\ Good(s) /\ Paired(s) /\ s.flags = uv.flags \ {"LISTENING"}
      /\ s.pipes = uv.pipes /\ s.cpipe = uv.cpipe /\ s.epipe = uv.epipe
  BY <1>1, <1>5, AcceptingGood
<1>7. k \in DOMAIN s.pipes /\ s.pipes[k] = "listening" /\ s.epipe = k /\ "CONNECTING" \notin s.flags
  BY <1>1, <1>2, <1>4, <1>6 DEF Good, Piped, Linked
<1>8. CASE "DISCONNECT" \in s.flags
  <2>1. PICK c : c = media_uv_close(s, k)
    OBVIOUS
  <2>2. PICK r : r = [c EXCEPT !.failed = TRUE]
    OBVIOUS
  <2>3. Good(c) /\ (Paired(s) => Paired(c)) /\ Closed(c, s, k)
    BY <1>6, <1>7, <2>1, CloseGood
  <2>4. c.flags = s.flags /\ c \in UvType
    <3>1. c.flags = s.flags
      BY <1>6, <1>7, <2>3, ClosedSame
    <3>2. QED
      BY <2>3, <3>1 DEF Good
  <2>5. PICK F : F = c.flags
    OBVIOUS
  <2>6. F \in SUBSET Flags /\ c.flags \subseteq F /\ ("CONNECTING" \in F => "CONNECTING" \in c.flags)
    BY <2>4, <2>5 DEF UvType
  <2>7. Marked(r, c, F)
    <3>1. c.closing \in BOOLEAN /\ r = [c EXCEPT !.flags = F, !.closing = c.closing, !.failed = TRUE]
      BY <2>2, <2>4, <2>5 DEF UvType
    <3>2. QED
      BY <3>1 DEF Marked
  <2>8. Good(r) /\ (Paired(c) => Paired(r)) /\ r.flags = F
    BY <2>3, <2>6, <2>7, MarkGood
  <2>9. uv' = r
    BY <1>3, <1>4, <1>5, <1>8, <2>1, <2>2 DEF media_uv_listen_one_cb, Callback, Accepting
  <2>10. QED
    BY <1>6, <1>8, <2>3, <2>4, <2>5, <2>8, <2>9, StepGood DEF Quiet
<1>9. CASE "DISCONNECT" \notin s.flags
  <2>1. PICK a : Accepted(a, s)
    BY DEF Accepted
  <2>2. Good(a) /\ Paired(a) /\ a.flags = s.flags
    BY <1>2, <1>6, <2>1, AcceptedGood
  <2>3. PICK b : b = IF then = "request" THEN media_uv_send(a, "request") ELSE a
    OBVIOUS
  <2>4. Good(b) /\ Paired(b) /\ "CONNECTING" \notin b.flags
    <3>1. CASE then = "request"
      <4>1. "request" \in Codes /\ "request" # "open" /\ "request" \notin {"call", "cast", "close"}
        BY DEF Codes
      <4>2. b = media_uv_send(a, "request")
        BY <2>3, <3>1
      <4>3. Good(b) /\ (Paired(a) => Paired(b)) /\ Sends(b, a)
        BY <2>2, <4>1, <4>2, QueueGood
      <4>4. QED
        BY <1>7, <2>2, <4>3 DEF Sends
    <3>2. CASE then # "request"
      BY <1>7, <2>2, <2>3, <3>2
    <3>3. QED
      BY <3>1, <3>2
  <2>5. PICK r : r = media_uv_delivery_writing(b)
    OBVIOUS
  <2>6. Good(r) /\ (Paired(b) => Paired(r)) /\ r.pendq = <<>>
    BY <2>4, <2>5, DeliveryGood
  <2>7. uv' = r
    <3>1. a = media_uv_close([OnPipe(s, "open") EXCEPT !.epipe = NewPipe(s)], k)
      BY <1>7, <2>1 DEF Accepted
    <3>2. QED
      BY <1>3, <1>4, <1>5, <1>9, <2>3, <2>5, <3>1 DEF media_uv_listen_one_cb, Callback, Accepting
  <2>8. QED
    BY <2>4, <2>6, <2>7, StepGood DEF Quiet
<1>10. QED
  BY <1>8, <1>9

\* The memory before the first media_uv_connect_one.
Blank ==
    [flags |-> {}, cpu |-> 1, cpipe |-> NULL, epipe |-> NULL,
     pipes |-> <<>>, shutting |-> {},
     pendq |-> <<>>, sentq |-> <<>>, due |-> <<>>,
     written |-> {}, responsed |-> {}, freed |-> {}, ids |-> 0,
     backlog |-> "none", wire |-> <<>>, answers |-> <<>>,
     closing |-> FALSE, failed |-> FALSE, released |-> 0, bad |-> "no"]

LEMMA BlankGood == Good(Blank)
<1>1. Blank \in UvType
  BY DEF Blank, UvType, OrNull
<1>2. PICK s : s = Blank
  OBVIOUS
<1>3. /\ s.pipes = <<>> /\ s.cpipe = NULL /\ s.epipe = NULL /\ s.due = <<>>
      /\ s.pendq = <<>> /\ s.sentq = <<>> /\ s.wire = <<>> /\ s.answers = <<>>
      /\ s.ids = 0 /\ s.written = {} /\ s.freed = {} /\ s.released = 0
      /\ s.flags = {} /\ s.shutting = {} /\ s.bad = "no"
  BY <1>2 DEF Blank
<1>4. DOMAIN s.pipes = {} /\ Len(<<>>) = 0
  BY <1>3
<1>5. Piped(s)
  BY <1>3, <1>4 DEF Piped
<1>6. Memory(s) /\ Ordered(s)
  BY <1>3, <1>4, EmptyKeeps DEF Memory, Ordered
<1>7. Linked(s) /\ Released(s)
  BY <1>3, <1>4 DEF Linked, Released
<1>8. QED
  BY <1>1, <1>2, <1>3, <1>5, <1>6, <1>7 DEF Good

LEMMA UvInit == Init => UvInv
<1>1. SUFFICES ASSUME Init PROVE UvInv
  OBVIOUS
<1>2. PICK s : s = Blank
  OBVIOUS
<1>3. /\ Good(s) /\ s.cpipe = NULL /\ s.epipe = NULL /\ s.sentq = <<>> /\ s.released = 0
  BY <1>2, BlankGood DEF Blank
<1>4. uv = media_uv_connect_one(s)
  <2>1. uv = media_uv_connect_one(Blank)
    BY <1>1, Zenon DEF Init, Blank
  <2>2. QED
    BY <1>2, <2>1
<1>5. Good(uv) /\ Paired(uv) /\ uv.flags = s.flags \cup {"CONNECTING"}
  BY <1>3, <1>4, ConnectOneGood
<1>6. QED
  BY <1>5 DEF UvInv, Quiet

LEMMA UvStep == ~ EarlyConnect /\ UvInv /\ [Next]_vars => UvInv'
<1>1. SUFFICES ASSUME ~ EarlyConnect, UvInv, [Next]_vars PROVE UvInv'
  OBVIOUS
<1>2. ASSUME uv' = uv PROVE UvInv'
  <2>1. Good(uv) /\ Paired(uv) /\ Quiet(uv)
    BY <1>1 DEF UvInv
  <2>2. QED
    BY <1>2, <2>1, StepGood
<1>3. CASE Turn
  <2>1. CASE \E k \in DOMAIN uv.pipes : \E then \in Thens : media_uv_connect_one_cb(k, then)
    BY <1>1, <2>1, ConnectStep
  <2>2. CASE \E k \in DOMAIN uv.pipes : \E bound \in Bounds, then \in FirstThens : ReadAnswer(k, bound, then)
    BY <1>1, <2>2, AnswerStep
  <2>3. CASE \E k \in DOMAIN uv.pipes : ReadEof(k)
    BY <1>1, <2>3, EofStep
  <2>4. CASE \E k \in DOMAIN uv.pipes : media_uv_shutdown_cb(k)
    BY <1>1, <2>4, ShutdownStep
  <2>5. CASE \E k \in DOMAIN uv.pipes : media_uv_close_cb(k)
    BY <1>1, <2>5, CloseCbStep
  <2>6. CASE media_uv_write_cb
    BY <1>1, <2>6, WriteStep
  <2>7. CASE \E then \in {"nothing", "request"} : media_uv_listen_one_cb(then)
    BY <1>1, <2>7, AcceptStep
  <2>8. QED
    BY <1>3, <2>1, <2>2, <2>3, <2>4, <2>5, <2>6, <2>7 DEF Turn
<1>4. CASE Events
  BY <1>1, <1>4, EventStep DEF Events
<1>5. CASE User
  <2>1. CASE \E code \in {"call", "cast"} : UserSend(code)
    BY <1>1, <2>1, UserSendStep
  <2>2. CASE \E bound \in Bounds : UserListen(bound)
    BY <1>1, <2>2, UserListenStep
  <2>3. CASE UserClose
    BY <1>1, <2>3, UserCloseStep
  <2>4. QED
    BY <1>5, <2>1, <2>2, <2>3 DEF User
<1>6. CASE Serve
  BY <1>1, <1>6, ServeStep
<1>7. CASE ServerNotify \/ ServerEnds
  BY <1>2, <1>7 DEF ServerNotify, ServerEnds
<1>8. CASE UNCHANGED vars
  BY <1>2, <1>8 DEF vars
<1>9. QED
  BY <1>1, <1>3, <1>4, <1>5, <1>6, <1>7, <1>8 DEF Next

LEMMA UvInvariant == ~ EarlyConnect => (Spec => []UvInv)
<1>1. SUFFICES ASSUME ~ EarlyConnect PROVE Spec => []UvInv
  OBVIOUS
<1>2. UvInv /\ [Next]_vars => UvInv'
  BY <1>1, UvStep
<1>3. QED
  BY <1>2, UvInit, PTL DEF Spec

-----------------------------------------------------------------------------
(* 7. The theorems                                                         *)

(* No callback of the loop finds its writing or the proxy freed, however   *)
(* writes, answers, failures, reconnections and closing interleave.        *)
THEOREM NeverFreedEarly == ~ EarlyConnect => (Spec => []NoUseAfterFree)
<1>1. SUFFICES ASSUME ~ EarlyConnect PROVE Spec => []NoUseAfterFree
  OBVIOUS
<1>2. Spec => []UvInv
  BY <1>1, UvInvariant
<1>3. UvInv => NoUseAfterFree
  BY DEF UvInv, Good, NoUseAfterFree
<1>4. QED
  BY <1>2, <1>3, PTL

(* on_release is called once, after every pipe that was ever made is       *)
(* closed and when no callback of a write is due.                          *)
THEOREM ReleasedOnce == ~ EarlyConnect => (Spec => []ReleasedLast)
<1>1. SUFFICES ASSUME ~ EarlyConnect PROVE Spec => []ReleasedLast
  OBVIOUS
<1>2. Spec => []UvInv
  BY <1>1, UvInvariant
<1>3. UvInv => ReleasedLast
  BY DEF UvInv, Good, Piped, Released, ReleasedLast
<1>4. QED
  BY <1>2, <1>3, PTL

LEMMA OrderedConcat ==
    ASSUME NEW a \in Seq(Message), NEW b \in Seq(Message), Increasing(a), Increasing(b),
           \A j \in 1 .. Len(b) : Below(a, b[j]), NEW c, Cat(c, a, b)
    PROVE  Increasing(c)
<1>1. /\ c \in Seq(Message) /\ Len(c) = Len(a) + Len(b)
      /\ \A i \in 1 .. Len(a) + Len(b) : c[i] = IF i <= Len(a) THEN a[i] ELSE b[i - Len(a)]
  <2>1. /\ a \o b \in Seq(Message) /\ Len(a \o b) = Len(a) + Len(b)
        /\ \A i \in 1 .. Len(a) + Len(b) : (a \o b)[i] = IF i <= Len(a) THEN a[i] ELSE b[i - Len(a)]
    BY ConcatProperties
  <2>2. QED
    BY <2>1 DEF Cat
<1>2. PICK m \in Nat, n \in Nat : m = Len(a) /\ n = Len(b)
  OBVIOUS
<1>3. \A i \in 1 .. m + n : c[i] = IF i <= m THEN a[i] ELSE b[i - m]
  BY <1>1, <1>2
<1>4. ASSUME NEW i \in 1 .. m + n, NEW j \in 1 .. m + n, i < j, Asked(c[i]), Asked(c[j])
      PROVE  c[i].id < c[j].id
  <2>1. CASE j <= m
    <3>1. i \in 1 .. m /\ j \in 1 .. m /\ c[i] = a[i] /\ c[j] = a[j]
      BY <1>3, <1>4, <2>1
    <3>2. QED
      BY <1>2, <1>4, <3>1 DEF Increasing
  <2>2. CASE i <= m /\ ~ (j <= m)
    <3>1. i \in 1 .. m /\ j - m \in 1 .. n /\ c[i] = a[i] /\ c[j] = b[j - m]
      BY <1>3, <2>2
    <3>2. Below(a, b[j - m])
      BY <1>2, <3>1
    <3>3. QED
      BY <1>2, <1>4, <3>1, <3>2 DEF Below
  <2>3. CASE ~ (i <= m)
    <3>1. i - m \in 1 .. n /\ j - m \in 1 .. n /\ i - m < j - m /\ c[i] = b[i - m] /\ c[j] = b[j - m]
      BY <1>3, <1>4, <2>3
    <3>2. QED
      BY <1>2, <1>4, <3>1 DEF Increasing
  <2>4. QED
    BY <2>1, <2>2, <2>3
<1>5. Len(c) = m + n
  BY <1>1, <1>2
<1>6. QED
  BY <1>4, <1>5 DEF Increasing

(* What the application sends reaches the server in the order of its       *)
(* calls: media_uv_queue_writing lets nothing overtake what is queued.     *)
THEOREM KeepsOrder == ~ EarlyConnect => (Spec => []OrderKept)
<1>1. SUFFICES ASSUME ~ EarlyConnect PROVE Spec => []OrderKept
  OBVIOUS
<1>2. Spec => []UvInv
  BY <1>1, UvInvariant
<1>3. UvInv => OrderKept
  <2>1. SUFFICES ASSUME UvInv PROVE OrderKept
    OBVIOUS
  <2>2. uv \in UvType /\ Ordered(uv)
    BY <2>1 DEF UvInv, Good
  <2>3. uv.wire \in Seq(Message) /\ uv.pendq \in Seq(Message)
    BY <2>2 DEF UvType
  <2>4. PICK c \in Seq(Message) : Cat(c, uv.wire, uv.pendq)
    BY <2>3, CatExists
  <2>5. Increasing(uv.wire) /\ Increasing(uv.pendq) /\ \A j \in 1 .. Len(uv.pendq) : Below(uv.wire, uv.pendq[j])
    BY <2>2 DEF Ordered
  <2>6. Increasing(c)
    BY <2>3, <2>4, <2>5, OrderedConcat
  <2>7. uv.wire \o uv.pendq = c
    BY <2>4 DEF Cat
  <2>8. DOMAIN c = 1 .. Len(c)
    OBVIOUS
  <2>9. \A i, j \in DOMAIN c :
            i < j /\ {c[i].code, c[j].code} \subseteq {"call", "cast", "close"} => c[i].id < c[j].id
    BY <2>6, <2>8 DEF Increasing, Asked
  <2>10. QED
    BY <2>7, <2>9 DEF OrderKept
<1>4. QED
  BY <1>2, <1>3, PTL

LEMMA FunSeq ==
    ASSUME NEW n \in Nat, NEW f \in [1 .. n -> Nat]
    PROVE  f \in Seq(Nat) /\ Len(f) = n
OBVIOUS

LEMMA IdsConcat ==
    ASSUME NEW S, NEW q \in Seq(Message), NEW b \in Seq(Message), NEW A \in Seq(Answer), Matches(q, A), Cat(S, q, b)
    PROVE  Ids(S) = Ids(A) \o Ids(b)
<1>1. /\ S \in Seq(Message) /\ Len(S) = Len(q) + Len(b)
      /\ \A i \in 1 .. Len(q) + Len(b) : S[i] = IF i <= Len(q) THEN q[i] ELSE b[i - Len(q)]
  <2>1. /\ q \o b \in Seq(Message) /\ Len(q \o b) = Len(q) + Len(b)
        /\ \A i \in 1 .. Len(q) + Len(b) : (q \o b)[i] = IF i <= Len(q) THEN q[i] ELSE b[i - Len(q)]
    BY ConcatProperties
  <2>2. QED
    BY <2>1 DEF Cat
<1>2. PICK m \in Nat, n \in Nat : m = Len(q) /\ n = Len(b)
  OBVIOUS
<1>3. Len(A) = m /\ \A i \in 1 .. m : q[i].id = A[i].id
  BY <1>2 DEF Matches
<1>4. PICK x : x = Ids(A)
  OBVIOUS
<1>5. PICK y : y = Ids(b)
  OBVIOUS
<1>6. x \in Seq(Nat) /\ Len(x) = m /\ \A i \in 1 .. m : x[i] = A[i].id
  <2>1. DOMAIN A = 1 .. m
    BY <1>3
  <2>2. x = [i \in 1 .. m |-> A[i].id]
    BY <1>4, <2>1 DEF Ids
  <2>3. \A i \in 1 .. m : A[i] \in Answer
    BY <1>3
  <2>4. \A i \in 1 .. m : A[i].id \in Nat
    BY <2>3 DEF Answer
  <2>5. x \in [1 .. m -> Nat] /\ \A i \in 1 .. m : x[i] = A[i].id
    BY <2>2, <2>4
  <2>6. QED
    BY <2>5, FunSeq
<1>7. y \in Seq(Nat) /\ Len(y) = n /\ \A i \in 1 .. n : y[i] = b[i].id
  <2>1. DOMAIN b = 1 .. n
    BY <1>2
  <2>2. y = [i \in 1 .. n |-> b[i].id]
    BY <1>5, <2>1 DEF Ids
  <2>3. \A i \in 1 .. n : b[i] \in Message
    BY <1>2
  <2>4. \A i \in 1 .. n : b[i].id \in Nat
    BY <2>3 DEF Message
  <2>5. y \in [1 .. n -> Nat] /\ \A i \in 1 .. n : y[i] = b[i].id
    BY <2>2, <2>4
  <2>6. QED
    BY <2>5, FunSeq
<1>8. PICK z : z = x \o y
  OBVIOUS
<1>9. /\ z \in Seq(Nat) /\ Len(z) = m + n
      /\ \A i \in 1 .. m + n : z[i] = IF i <= m THEN x[i] ELSE y[i - m]
  <2>1. /\ x \o y \in Seq(Nat) /\ Len(x \o y) = Len(x) + Len(y)
        /\ \A i \in 1 .. Len(x) + Len(y) : (x \o y)[i] = IF i <= Len(x) THEN x[i] ELSE y[i - Len(x)]
    BY <1>6, <1>7, ConcatProperties
  <2>2. QED
    BY <1>6, <1>7, <1>8, <2>1
<1>10. z = [i \in 1 .. m + n |-> S[i].id]
  <2>1. DOMAIN z = 1 .. m + n /\ z = [i \in 1 .. m + n |-> z[i]]
    BY <1>9
  <2>2. ASSUME NEW i \in 1 .. m + n PROVE z[i] = S[i].id
    <3>1. S[i] = IF i <= m THEN q[i] ELSE b[i - m]
      BY <1>1, <1>2
    <3>2. CASE i <= m
      <4>1. i \in 1 .. m
        BY <3>2
      <4>2. z[i] = x[i] /\ x[i] = A[i].id /\ q[i].id = A[i].id
        BY <1>3, <1>6, <1>9, <3>2, <4>1
      <4>3. QED
        BY <3>1, <3>2, <4>2
    <3>3. CASE ~ (i <= m)
      <4>1. i - m \in 1 .. n
        BY <3>3
      <4>2. QED
        BY <1>7, <1>9, <3>1, <3>3, <4>1
    <3>4. QED
      BY <3>2, <3>3
  <2>3. QED
    BY <2>1, <2>2
<1>11. Ids(S) = [i \in 1 .. m + n |-> S[i].id]
  <2>1. DOMAIN S = 1 .. m + n
    BY <1>1, <1>2
  <2>2. QED
    BY <2>1 DEF Ids
<1>12. QED
  BY <1>4, <1>5, <1>8, <1>10, <1>11

(* media_uv_handle_parcel gives every answer to the message it answers,    *)
(* across reconnections and failed writes.                                 *)
THEOREM PairsAnswers == ~ EarlyConnect => (Spec => []AnswersPaired)
<1>1. SUFFICES ASSUME ~ EarlyConnect PROVE Spec => []AnswersPaired
  OBVIOUS
<1>2. Spec => []UvInv
  BY <1>1, UvInvariant
<1>3. UvInv => AnswersPaired
  <2>1. SUFFICES ASSUME UvInv, OpenPipe(uv)
                 PROVE  Ids(uv.sentq) = Ids(uv.answers) \o Ids(Acked(uv.wire))
    BY DEF AnswersPaired, OpenPipe
  <2>2. uv \in UvType /\ Paired(uv)
    BY <2>1 DEF UvInv, Good
  <2>3. uv.wire \in Seq(Message) /\ uv.answers \in Seq(Answer)
    BY <2>2 DEF UvType, Answer
  <2>4. PICK q \in Seq(Message) : Matches(q, uv.answers) /\ Pairs(uv.sentq, q, uv.wire)
    BY <2>1, <2>2, PairedElim
  <2>5. PICK a : Owed(a, uv.wire) /\ Cat(uv.sentq, q, a)
    BY <2>4 DEF Pairs
  <2>6. a \in Seq(Message) /\ a = Acked(uv.wire)
    BY <2>5 DEF Owed
  <2>7. Ids(uv.sentq) = Ids(uv.answers) \o Ids(a)
    BY <2>3, <2>4, <2>5, <2>6, IdsConcat
  <2>8. QED
    BY <2>6, <2>7
<1>4. QED
  BY <1>2, <1>3, PTL
====
