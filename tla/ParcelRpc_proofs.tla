-------------------------- MODULE ParcelRpc_proofs --------------------------
(***************************************************************************)
(* media_proxy_once is a procedure call: proofs about ParcelRpc.           *)
(*                                                                         *)
(* 1. What media_parcel_append_printf writes, media_parcel_read_scanf      *)
(*    reads, for arguments of any length, and memory is always enough.     *)
(* 2. A stream of parcels that sockets move in pieces: what has arrived,   *)
(*    what is on its way and what has not been sent.                       *)
(* 3. The invariant of the connection, one lemma per action.               *)
(* 4. No parcel is written beyond its memory, and every step is a step of  *)
(*    ProxyCall or leaves its variables alone.                             *)
(***************************************************************************)
EXTENDS ParcelRpc, SequenceTheorems, WellFoundedInduction, TLAPS

\* A set of natural numbers that is not empty has a least one.
LEMMA LeastNat ==
    ASSUME NEW S, S \subseteq Nat, S # {}
    PROVE  \E x \in S : \A y \in S : x <= y
<1> DEFINE R == {ss \in Nat \X Nat : ss[1] < ss[2]}
<1>1. IsWellFoundedOn(R, Nat)
  BY NatLessThanWellFounded DEF OpToRel
<1> HIDE DEF R
<1>2. PICK x \in S : \A y \in S : ~ (<<y, x>> \in R)
  BY <1>1, WFMin
<1>3. ASSUME NEW y \in S PROVE x <= y
  <2>1. x \in Nat /\ y \in Nat
    OBVIOUS
  <2>2. y < x => <<y, x>> \in R
    BY <2>1 DEF R
  <2>3. QED
    BY <1>2, <2>1, <2>2
<1>4. QED
  BY <1>3

-----------------------------------------------------------------------------
(* What a format writes                                                    *)

\* The units of a value under a conversion.
Encoded(c, val) ==
    IF c = "i" THEN <<val>> ELSE Append(IF val = NULL THEN <<>> ELSE val, 0)

\* The values a conversion may be given.
Values(c) == IF c = "i" THEN Int ELSE {NULL} \cup Texts

\* A parcel whose header counts what its memory has room for.
Whole(p) ==
    /\ p \in [chunk : Seq(Int), next : Nat, cap : Nat]
    /\ Len(p.chunk) >= 2 /\ p.chunk[2] = Len(p.chunk) - 2
    /\ Len(p.chunk) - 2 <= p.cap

\* Units of the payload.
Size(p) == Len(p.chunk) - 2

\* "units" stand behind the first n of the payload.
Holds(p, n, units) ==
    /\ n + Len(units) <= Size(p)
    /\ \A i \in 1 .. Len(units) : p.chunk[2 + n + i] = units[i]

\* A value is written as integers, a string with a zero at its end and nowhere else.
LEMMA EncodedUnits ==
    ASSUME NEW c, NEW val \in Values(c)
    PROVE  Encoded(c, val) \in Seq(Int)
<1>1. CASE c = "i"
  BY <1>1 DEF Encoded, Values
<1>2. CASE c # "i"
  <2>1. CASE val = NULL
    BY <1>2, <2>1 DEF Encoded
  <2>2. CASE val # NULL
    <3>1. val \in Seq(Int)
      BY <1>2, <2>2, SeqMonotonic DEF Values, Texts
    <3>2. Append(val, 0) \in Seq(Int)
      BY <3>1
    <3>3. QED
      BY <1>2, <2>2, <3>2 DEF Encoded
  <2>3. QED
    BY <2>1, <2>2
<1>3. QED
  BY <1>1, <1>2

\* media_parcel_init gives a parcel without a payload.
LEMMA EmptyParcel == Whole(media_parcel_init) /\ Size(media_parcel_init) = 0 /\ media_parcel_init.next = 0
BY DataLenAssumption DEF Whole, Size, media_parcel_init

\* Units behind a chunk, with the length in its header.
LEMMA ChunkGrows ==
    ASSUME NEW chunk \in Seq(Int), Len(chunk) >= 2, NEW units \in Seq(Int),
           NEW d, d = [chunk EXCEPT ![2] = chunk[2] + Len(units)] \o units,
           chunk[2] = Len(chunk) - 2
    PROVE  /\ d \in Seq(Int) /\ Len(d) = Len(chunk) + Len(units) /\ d[2] = Len(d) - 2
           /\ \A j \in 3 .. Len(chunk) : d[j] = chunk[j]
           /\ \A j \in 1 .. Len(units) : d[Len(chunk) + j] = units[j]
<1> DEFINE head == [chunk EXCEPT ![2] = chunk[2] + Len(units)]
<1>1. Len(chunk) \in Nat /\ Len(units) \in Nat /\ 2 \in 1 .. Len(chunk)
  BY LenProperties
<1>2. /\ head \in Seq(Int) /\ Len(head) = Len(chunk)
      /\ \A j \in 1 .. Len(chunk) : head[j] = IF j = 2 THEN chunk[2] + Len(units) ELSE chunk[j]
  BY <1>1, ExceptSeq
<1>3. d = head \o units
  OBVIOUS
<1> HIDE DEF head
<1>4. /\ d \in Seq(Int) /\ Len(d) = Len(head) + Len(units)
      /\ \A i \in 1 .. Len(head) + Len(units) : d[i] = IF i <= Len(head) THEN head[i] ELSE units[i - Len(head)]
  BY <1>2, <1>3, ConcatProperties, SMTT(60)
<1>5. ASSUME NEW j \in 1 .. Len(chunk)
      PROVE  d[j] = IF j = 2 THEN chunk[2] + Len(units) ELSE chunk[j]
  <2>1. d[j] = head[j]
    BY <1>1, <1>2, <1>4
  <2>2. QED
    BY <1>2, <2>1
<1>6. ASSUME NEW j \in 1 .. Len(units) PROVE d[Len(chunk) + j] = units[j]
  BY <1>1, <1>2, <1>4
<1>7. d[2] = Len(d) - 2
  BY <1>1, <1>2, <1>4, <1>5
<1>8. QED
  BY <1>1, <1>2, <1>4, <1>5, <1>6, <1>7

\* media_parcel_append keeps what was written, puts the units behind it and grows
\* the memory before.
LEMMA AppendWrites ==
    ASSUME NEW p, Whole(p), NEW units \in Seq(Int), NEW q, q = media_parcel_append(p, units)
    PROVE  /\ Whole(q) /\ q.next = p.next /\ Size(q) = Size(p) + Len(units)
           /\ Holds(q, Size(p), units)
           /\ \A n \in Nat, u \in Seq(Int) : Holds(p, n, u) => Holds(q, n, u)
<1>1. PICK chunk \in Seq(Int), next \in Nat, cap \in Nat :
         /\ p = [chunk |-> chunk, next |-> next, cap |-> cap]
         /\ Len(chunk) >= 2 /\ chunk[2] = Len(chunk) - 2 /\ Len(chunk) - 2 <= cap
  BY DEF Whole
<1> DEFINE d == [chunk EXCEPT ![2] = chunk[2] + Len(units)] \o units
           room == media_parcel_grow(p, Len(units))
<1>2. q = [chunk |-> d, next |-> next, cap |-> room]
  <2>1. p.chunk = chunk /\ p.next = next
    BY <1>1
  <2>2. QED
    BY <2>1 DEF media_parcel_append
<1>3. room \in Nat /\ Len(chunk) - 2 + Len(units) <= room
  BY <1>1, LenProperties DEF media_parcel_grow, ChunkLen
<1> HIDE DEF room
<1>4. /\ d \in Seq(Int) /\ Len(d) = Len(chunk) + Len(units) /\ d[2] = Len(d) - 2
      /\ \A j \in 3 .. Len(chunk) : d[j] = chunk[j]
      /\ \A j \in 1 .. Len(units) : d[Len(chunk) + j] = units[j]
  BY <1>1, ChunkGrows
<1> HIDE DEF d
<1>5. Len(chunk) \in Nat /\ Len(units) \in Nat
  BY LenProperties
<1>6. /\ p.chunk = chunk /\ p.next = next /\ p.cap = cap
      /\ q.chunk = d /\ q.next = next /\ q.cap = room
  BY <1>1, <1>2
<1>7. Size(p) = Len(chunk) - 2 /\ Size(q) = Len(chunk) - 2 + Len(units)
  BY <1>4, <1>5, <1>6 DEF Size
<1>8. Whole(q)
  <2>1. q \in [chunk : Seq(Int), next : Nat, cap : Nat]
    BY <1>2, <1>3, <1>4
  <2>2. Len(d) >= 2 /\ Len(d) - 2 <= room
    BY <1>1, <1>3, <1>4, <1>5
  <2>3. QED
    BY <1>4, <1>6, <2>1, <2>2 DEF Whole
<1>9. Holds(q, Size(p), units)
  <2>1. ASSUME NEW i \in 1 .. Len(units) PROVE q.chunk[2 + Size(p) + i] = units[i]
    <3>1. 2 + Size(p) + i = Len(chunk) + i
      BY <1>5, <1>7
    <3>2. QED
      BY <1>4, <1>6, <3>1
  <2>2. Size(p) + Len(units) <= Size(q)
    BY <1>5, <1>7
  <2>3. QED
    BY <2>1, <2>2 DEF Holds
<1>10. ASSUME NEW n \in Nat, NEW u \in Seq(Int), Holds(p, n, u)
      PROVE  Holds(q, n, u)
  <2>1. Len(u) \in Nat /\ n + Len(u) <= Len(chunk) - 2
    BY <1>7, <1>10, LenProperties DEF Holds
  <2>2. ASSUME NEW i \in 1 .. Len(u) PROVE q.chunk[2 + n + i] = u[i]
    <3>1. 2 + n + i \in 3 .. Len(chunk)
      BY <1>5, <2>1
    <3>2. chunk[2 + n + i] = u[i]
      BY <1>6, <1>10 DEF Holds
    <3>3. QED
      BY <1>4, <1>6, <3>1, <3>2
  <2>3. n + Len(u) <= Size(q)
    BY <1>5, <1>7, <2>1
  <2>4. QED
    BY <2>2, <2>3 DEF Holds
<1>11. q.next = p.next /\ Size(q) = Size(p) + Len(units)
  BY <1>5, <1>6, <1>7
<1>12. QED
  BY <1>8, <1>9, <1>10, <1>11

\* The loop of media_parcel_append_printf.
Loop(p, fmt, args, q, n) ==
    q = [k \in 0 .. n |-> IF k = 0 THEN p
                          ELSE media_parcel_append(q[k - 1], Encoded(fmt[k], args[k]))]

\* The recursive function of the loop exists, so that it satisfies its equation.
LEMMA LoopExists ==
    ASSUME NEW p, NEW fmt, NEW args, NEW n \in Nat
    PROVE  \E q : Loop(p, fmt, args, q, n)
<1> DEFINE S == {m \in Nat : ~ \E q : Loop(p, fmt, args, q, m)}
<1>1. SUFFICES ASSUME S # {} PROVE FALSE
  OBVIOUS
<1>2. PICK m \in S : \A y \in S : m <= y
  BY <1>1, LeastNat
<1>3. CASE m = 0
  <2> DEFINE q == [k \in 0 .. 0 |-> p]
  <2>1. Loop(p, fmt, args, q, 0)
    BY DEF Loop
  <2>2. QED
    BY <1>3, <2>1
<1>4. CASE m # 0
  <2>1. m - 1 \in Nat /\ m - 1 \notin S
    BY <1>2, <1>4
  <2>2. PICK r : Loop(p, fmt, args, r, m - 1)
    BY <2>1
  <2> DEFINE last == media_parcel_append(r[m - 1], Encoded(fmt[m], args[m]))
             q == [k \in 0 .. m |-> IF k = m THEN last ELSE r[k]]
  <2>3. \A k \in 0 .. m - 1 : r[k] = IF k = 0 THEN p
                     ELSE media_parcel_append(r[k - 1], Encoded(fmt[k], args[k]))
    BY <2>2 DEF Loop
  <2>4. ASSUME NEW k \in 0 .. m
        PROVE  q[k] = IF k = 0 THEN p
                      ELSE media_parcel_append(q[k - 1], Encoded(fmt[k], args[k]))
    <3>1. CASE k = m
      <4>1. q[k] = last /\ q[k - 1] = r[m - 1]
        BY <3>1, <1>4, <1>2
      <4>2. QED
        BY <4>1, <3>1, <1>4
    <3>2. CASE k # m
      <4>1. k \in 0 .. m - 1 /\ q[k] = r[k]
        BY <3>2
      <4>2. k # 0 => q[k - 1] = r[k - 1]
        BY <4>1
      <4> HIDE DEF q
      <4>3. QED
        BY <4>1, <4>2, <2>3
    <3>3. QED
      BY <3>1, <3>2
  <2>5. q = [k \in 0 .. m |-> q[k]]
    OBVIOUS
  <2> HIDE DEF q
  <2>6. Loop(p, fmt, args, q, m)
    BY <2>4, <2>5 DEF Loop
  <2>7. QED
    BY <2>6
<1>5. QED
  BY <1>3, <1>4

\* A format of any length.
Format(fmt, args) ==
    /\ fmt \in Seq({"i", "s"}) /\ Len(args) = Len(fmt)
    /\ \A k \in 1 .. Len(fmt) : args[k] \in Values(fmt[k])

\* media_parcel_append_printf is the last step of its loop.
LEMMA PrintfLoop ==
    ASSUME NEW p, NEW fmt \in Seq({"i", "s"}), NEW args
    PROVE  \E q : Loop(p, fmt, args, q, Len(fmt)) /\ media_parcel_append_printf(p, fmt, args) = q[Len(fmt)]
<1> DEFINE One(q, k) == IF fmt[k] = "i" THEN media_parcel_append_int32(q, args[k])
                        ELSE media_parcel_append_string(q, args[k])
           F(q) == q = [k \in 0 .. Len(fmt) |-> IF k = 0 THEN p ELSE Step(One, q[k - 1], k)]
           q0 == CHOOSE q : F(q)
<1>1. \A q, k : Step(One, q, k) = media_parcel_append(q, Encoded(fmt[k], args[k]))
  <2>1. \A q, k : One(q, k) = media_parcel_append(q, Encoded(fmt[k], args[k]))
    BY DEF Encoded, media_parcel_append_int32, media_parcel_append_string
  <2>2. \A q, k : Step(One, q, k) = One(q, k)
    BY DEF Step
  <2>3. QED
    BY <2>1, <2>2
<1>2. \A q : F(q) <=> Loop(p, fmt, args, q, Len(fmt))
  BY <1>1 DEF Loop
<1> HIDE DEF F
<1>3. F(q0)
  <2>1. Len(fmt) \in Nat
    BY LenProperties
  <2>2. \E q : F(q)
    BY <1>2, <2>1, LoopExists
  <2>3. QED
    BY <2>2
<1> USE DEF F
<1>4. media_parcel_append_printf(p, fmt, args) = q0[Len(fmt)]
  BY DEF media_parcel_append_printf
<1> HIDE DEF F, q0
<1>5. QED
  BY <1>2, <1>3, <1>4

\* The values of a format stand one behind the other, from pos[0] on.
Layout(p, fmt, args, pos) ==
    /\ pos \in [0 .. Len(fmt) -> Nat]
    /\ \A k \in 1 .. Len(fmt) :
          /\ pos[k] = pos[k - 1] + Len(Encoded(fmt[k], args[k]))
          /\ Holds(p, pos[k - 1], Encoded(fmt[k], args[k]))

\* Nothing that was written is lost.
KeepsUnits(p, q) == \A n \in Nat, u \in Seq(Int) : Holds(p, n, u) => Holds(q, n, u)

\* The length in the header is a natural number.
LEMMA SizeNat == ASSUME NEW p, Whole(p) PROVE Size(p) \in Nat
<1>1. p.chunk \in Seq(Int) /\ Len(p.chunk) >= 2
  BY DEF Whole
<1>2. Len(p.chunk) \in Nat
  BY <1>1, LenProperties
<1>3. QED
  BY <1>1, <1>2 DEF Size

\* media_parcel_append_printf writes its values one behind the other.
LEMMA PrintfWrites ==
    ASSUME NEW p, Whole(p), NEW fmt, NEW args, Format(fmt, args),
           NEW q, q = media_parcel_append_printf(p, fmt, args)
    PROVE  /\ Whole(q) /\ q.next = p.next /\ KeepsUnits(p, q)
           /\ \E pos : Layout(q, fmt, args, pos) /\ pos[0] = Size(p) /\ pos[Len(fmt)] = Size(q)
<1>1. fmt \in Seq({"i", "s"}) /\ Len(fmt) \in Nat
  BY LenProperties DEF Format
<1>2. PICK r : Loop(p, fmt, args, r, Len(fmt)) /\ q = r[Len(fmt)]
  BY <1>1, PrintfLoop
<1> DEFINE n == Len(fmt)
           E(k) == Encoded(fmt[k], args[k])
           Good(k) == /\ Whole(r[k]) /\ r[k].next = p.next /\ KeepsUnits(p, r[k])
                      /\ \A j \in 0 .. k : Size(r[j]) \in Nat
                      /\ \A j \in 1 .. k : /\ Size(r[j]) = Size(r[j - 1]) + Len(E(j))
                                           /\ Holds(r[k], Size(r[j - 1]), E(j))
           S == {k \in Nat : k \in 0 .. n /\ ~ Good(k)}
<1>3. /\ r[0] = p
      /\ \A k \in 1 .. n : r[k] = media_parcel_append(r[k - 1], E(k))
  <2>1. \A k \in 0 .. n : r[k] = IF k = 0 THEN p ELSE media_parcel_append(r[k - 1], E(k))
    BY <1>1, <1>2 DEF Loop
  <2>2. QED
    BY <1>1, <2>1
<1>4. \A k \in 1 .. n : E(k) \in Seq(Int)
  BY EncodedUnits DEF Format
<1> HIDE DEF E
<1>5. Good(0)
  <2>1. Size(r[0]) \in Nat
    BY <1>3, SizeNat
  <2>2. QED
    BY <1>3, <2>1 DEF KeepsUnits
<1>6. ASSUME NEW k \in 1 .. n, Good(k - 1)
      PROVE  Good(k)
  <2>1. /\ Whole(r[k]) /\ r[k].next = p.next /\ Size(r[k]) = Size(r[k - 1]) + Len(E(k))
        /\ Holds(r[k], Size(r[k - 1]), E(k))
        /\ KeepsUnits(r[k - 1], r[k])
    BY <1>3, <1>4, <1>6, AppendWrites DEF KeepsUnits
  <2>2. KeepsUnits(p, r[k])
    BY <1>6, <2>1 DEF KeepsUnits
  <2>3. ASSUME NEW j \in 0 .. k PROVE Size(r[j]) \in Nat
    <3>1. CASE j = k
      BY <2>1, <3>1, SizeNat
    <3>2. CASE j # k
      BY <1>1, <1>6, <3>2
    <3>3. QED
      BY <3>1, <3>2
  <2>4. ASSUME NEW j \in 1 .. k
        PROVE  Size(r[j]) = Size(r[j - 1]) + Len(E(j)) /\ Holds(r[k], Size(r[j - 1]), E(j))
    <3>1. CASE j = k
      BY <2>1, <3>1
    <3>2. CASE j # k
      <4>1. j \in 1 .. k - 1 /\ j \in 1 .. n /\ j - 1 \in 0 .. k - 1
        BY <1>1, <3>2
      <4>2. Size(r[j]) = Size(r[j - 1]) + Len(E(j)) /\ Holds(r[k - 1], Size(r[j - 1]), E(j))
        BY <1>6, <4>1
      <4>3. Size(r[j - 1]) \in Nat /\ E(j) \in Seq(Int)
        BY <1>4, <1>6, <4>1
      <4>4. QED
        BY <2>1, <4>2, <4>3 DEF KeepsUnits
    <3>3. QED
      BY <3>1, <3>2
  <2>5. QED
    BY <2>1, <2>2, <2>3, <2>4
<1> HIDE DEF Good
<1>7. Good(n)
  <2> n \in 0 .. n /\ n \in Nat
    BY <1>1
  <2>1. SUFFICES ASSUME S # {} PROVE FALSE
    BY Zenon
  <2>2. PICK k \in S : \A y \in S : k <= y
    BY <1>1, <2>1, LeastNat
  <2>3. CASE k = 0
    BY <1>5, <2>2, <2>3
  <2>4. CASE k # 0
    <3>1. k \in 1 .. n /\ k - 1 \in 0 .. n /\ k - 1 \notin S
      BY <1>1, <2>2, <2>4
    <3>2. Good(k - 1) /\ ~ Good(k)
      BY <2>2, <3>1
    <3>3. QED
      BY <1>6, <3>1, <3>2
  <2>5. QED
    BY <2>3, <2>4
<1> DEFINE pos == [k \in 0 .. n |-> Size(r[k])]
<1>8. Layout(q, fmt, args, pos) /\ pos[0] = Size(p) /\ pos[n] = Size(q)
  <2>1. pos \in [0 .. n -> Nat] /\ \A k \in 0 .. n : pos[k] = Size(r[k])
    BY <1>7 DEF Good
  <2> HIDE DEF pos
  <2>2. ASSUME NEW k \in 1 .. n
        PROVE  pos[k] = pos[k - 1] + Len(E(k)) /\ Holds(q, pos[k - 1], E(k))
    <3>1. k \in 0 .. n /\ k - 1 \in 0 .. n
      BY <1>1
    <3>2. QED
      BY <1>2, <1>7, <2>1, <3>1 DEF Good
  <2>3. pos[0] = Size(p) /\ pos[n] = Size(q)
    BY <1>1, <1>2, <1>3, <2>1
  <2>4. QED
    BY <2>1, <2>2, <2>3 DEF Layout, E
<1> HIDE DEF pos
<1>9. QED
  BY <1>2, <1>7, <1>8 DEF Good

-----------------------------------------------------------------------------
(* What a format reads                                                     *)

\* The parcel, read up to n.
At(p, n) == [chunk |-> p.chunk, next |-> n, cap |-> p.cap]

\* A part of a sequence of units.
LEMMA PartUnits ==
    ASSUME NEW w \in Seq(Int), NEW m \in Nat, NEW n \in Nat, 1 <= m, m <= n + 1, n <= Len(w)
    PROVE  /\ SubSeq(w, m, n) \in Seq(Int) /\ Len(SubSeq(w, m, n)) = n + 1 - m
           /\ \A i \in 1 .. n + 1 - m : SubSeq(w, m, n)[i] = w[m + i - 1]
<1>1. Len(w) \in Nat /\ \A i \in m .. n : w[i] \in Int
  <2>1. Len(w) \in Nat
    BY LenProperties
  <2>2. ASSUME NEW i \in m .. n PROVE i \in 1 .. Len(w)
    BY <2>1
  <2>3. QED
    BY <2>1, <2>2, ElementOfSeq
<1>2. /\ SubSeq(w, m, n) \in Seq(Int)
      /\ Len(SubSeq(w, m, n)) = IF m <= n THEN n - m + 1 ELSE 0
      /\ \A i \in 1 .. n - m + 1 : SubSeq(w, m, n)[i] = w[m + i - 1]
  <2>1. m \in Int /\ n \in Int
    OBVIOUS
  <2>2. QED
    BY <1>1, <2>1, SubSeqProperties
<1>3. n - m + 1 = n + 1 - m
  OBVIOUS
<1>4. QED
  BY <1>2, <1>3

\* The payload without the header.
LEMMA PayloadUnits ==
    ASSUME NEW p, Whole(p)
    PROVE  /\ Payload(p) \in Seq(Int) /\ Len(Payload(p)) = Size(p) /\ ChunkLen(p) = Size(p)
           /\ \A i \in 1 .. Size(p) : Payload(p)[i] = p.chunk[2 + i]
<1>1. p.chunk \in Seq(Int) /\ Len(p.chunk) >= 2 /\ p.chunk[2] = Len(p.chunk) - 2
  BY DEF Whole
<1>2. Len(p.chunk) \in Nat
  BY <1>1, LenProperties
<1>3. Payload(p) = SubSeq(p.chunk, 3, Len(p.chunk))
  BY DEF Payload, MEDIA_PARCEL_HEADER_LEN
<1> DEFINE chunk == p.chunk
<1> HIDE DEF chunk
<1>4. /\ Payload(p) \in Seq(Int)
      /\ Len(Payload(p)) = IF 3 <= Len(chunk) THEN Len(chunk) - 3 + 1 ELSE 0
      /\ \A i \in 1 .. Len(chunk) - 3 + 1 : Payload(p)[i] = chunk[3 + i - 1]
  BY <1>1, <1>2, <1>3, SubSeqProperties DEF chunk
<1>5. Size(p) = Len(chunk) - 2 /\ ChunkLen(p) = Size(p)
  BY <1>1 DEF Size, ChunkLen, chunk
<1>6. ASSUME NEW i \in 1 .. Size(p) PROVE Payload(p)[i] = chunk[2 + i]
  <2>1. i \in 1 .. Len(chunk) - 3 + 1 /\ 3 + i - 1 = 2 + i
    BY <1>2, <1>5 DEF chunk
  <2>2. QED
    BY <1>4, <2>1
<1>7. Len(Payload(p)) = Size(p)
  BY <1>1, <1>2, <1>4, <1>5 DEF chunk
<1>8. QED
  BY <1>4, <1>5, <1>6, <1>7 DEF chunk

\* media_parcel_read_int32 at a position where an integer stands.
LEMMA ReadsInt ==
    ASSUME NEW p, Whole(p), NEW v \in Int, Holds(p, p.next, <<v>>),
           NEW i, i = media_parcel_read_int32(p)
    PROVE  i.parcel = At(p, p.next + 1) /\ i.ret = 0 /\ i.val = v
<1>1. p \in [chunk : Seq(Int), next : Nat, cap : Nat]
  BY DEF Whole
<1>2. p.next + 1 <= Size(p) /\ p.chunk[2 + p.next + 1] = v
  BY <1>1 DEF Holds
<1>3. ChunkLen(p) = Size(p) /\ Payload(p)[p.next + 1] = v /\ Size(p) \in Nat
  <2>1. Size(p) \in Nat /\ p.next + 1 \in 1 .. Size(p) /\ 2 + (p.next + 1) = 2 + p.next + 1
    BY <1>1, <1>2, SizeNat
  <2>2. QED
    BY <1>2, <2>1, PayloadUnits
<1> DEFINE q == [p EXCEPT !.next = @ + 1]
<1>4. i = [parcel |-> q, ret |-> 0, val |-> v]
  BY <1>1, <1>2, <1>3, Zenon, SMT DEF media_parcel_read_int32
<1>5. q = At(p, p.next + 1)
  BY <1>1, SMTT(60) DEF At
<1> HIDE DEF q
<1>6. QED
  BY <1>4, <1>5

\* media_parcel_read_string at a position where a string stands: the empty string
\* and the null pointer arrive as NULL.
LEMMA ReadsString ==
    ASSUME NEW p, Whole(p), NEW val \in {NULL} \cup Texts, Holds(p, p.next, Encoded("s", val)),
           NEW s, s = media_parcel_read_string(p)
    PROVE  s.parcel = At(p, p.next + Len(Encoded("s", val))) /\ s.val = val
<1>1. p \in [chunk : Seq(Int), next : Nat, cap : Nat]
  BY DEF Whole
<1>2. PICK n \in Nat, size \in Nat, load \in Seq(Int) :
         /\ n = p.next /\ size = Size(p) /\ load = Payload(p) /\ Len(load) = size
         /\ \A i \in 1 .. size : load[i] = p.chunk[2 + i]
  BY <1>1, PayloadUnits, SizeNat
<1>3. PICK text \in Seq(Int), l \in Nat :
         /\ l = Len(text) /\ \A i \in 1 .. l : text[i] # 0
         /\ Encoded("s", val) = Append(text, 0)
         /\ val = IF l = 0 THEN NULL ELSE text
  <2>1. CASE val = NULL
    <3>1. Encoded("s", val) = Append(<<>>, 0)
      BY <2>1 DEF Encoded
    <3>2. <<>> \in Seq(Int) /\ Len(<<>>) = 0
      OBVIOUS
    <3>3. \A i \in 1 .. 0 : <<>>[i] # 0
      OBVIOUS
    <3>4. QED
      BY <2>1, <3>1, <3>2, <3>3, Zenon
  <2>2. CASE val # NULL
    <3>1. val \in Seq(Nat \ {0}) /\ val # <<>>
      BY <2>2 DEF Texts
    <3>2. Len(val) \in Nat /\ Len(val) # 0 /\ \A i \in 1 .. Len(val) : val[i] \in Nat \ {0}
      BY <3>1, LenProperties, ElementOfSeq, EmptySeq
    <3>3. val \in Seq(Int)
      BY <3>1, SeqMonotonic
    <3>4. Encoded("s", val) = Append(val, 0)
      BY <2>2 DEF Encoded
    <3>5. QED
      BY <3>2, <3>3, <3>4
  <2>3. QED
    BY <2>1, <2>2
<1>4. PICK e \in Nat : e = n + l + 1
  BY <1>2, <1>3
<1>5. /\ Len(Append(text, 0)) = l + 1
      /\ \A i \in 1 .. l : Append(text, 0)[i] = text[i]
      /\ Append(text, 0)[l + 1] = 0
  BY <1>3, AppendProperties
<1>6. \A i \in 1 .. l + 1 : p.chunk[2 + n + i] = Append(text, 0)[i]
  BY <1>2, <1>3, <1>5 DEF Holds
<1>60. n + l + 1 <= size
  <2>1. n + (l + 1) <= size
    BY <1>2, <1>3, <1>5 DEF Holds
  <2>2. QED
    BY <2>1
<1>7. /\ e \in 1 .. size /\ e \in n + 1 .. size /\ e - 1 \in Nat /\ e - 1 <= size
      /\ n + 1 \in 1 .. size /\ e - 1 = n + l
  BY <1>4, <1>60
<1>8. \A i \in 1 .. l : load[n + i] = text[i]
  <2>1. TAKE i \in 1 .. l
  <2>2. n + i \in 1 .. size /\ i \in 1 .. l + 1 /\ 2 + (n + i) = 2 + n + i
    BY <1>60
  <2>3. QED
    BY <1>2, <1>5, <1>6, <2>2
<1>9. load[e] = 0
  <2>1. l + 1 \in 1 .. l + 1 /\ 2 + e = 2 + n + (l + 1)
    BY <1>4
  <2>2. p.chunk[2 + n + (l + 1)] = 0
    BY <1>5, <1>6, <2>1
  <2>3. load[e] = p.chunk[2 + e]
    BY <1>2, <1>7
  <2>4. QED
    BY <2>1, <2>2, <2>3
<1>10. StringEnds(p) = {k \in n + 1 .. size : load[k] = 0}
  BY <1>2 DEF StringEnds
<1>11. e \in StringEnds(p)
  BY <1>7, <1>9, <1>10
<1>12. ASSUME NEW k \in StringEnds(p) PROVE e <= k
  <2>1. k \in n + 1 .. size /\ load[k] = 0
    BY <1>10
  <2>2. ASSUME k < e PROVE FALSE
    <3>1. k - n \in 1 .. l /\ n + (k - n) = k
      BY <1>3, <1>4, <2>1, <2>2
    <3>2. load[k] = text[k - n]
      BY <1>8, <3>1
    <3>3. QED
      BY <1>3, <2>1, <3>1, <3>2
  <2>3. QED
    BY <1>4, <2>1, <2>2
<1>13. ASSUME NEW k \in StringEnds(p), \A j \in StringEnds(p) : k <= j PROVE k = e
  <2>1. k \in Int /\ k <= e /\ e <= k
    BY <1>10, <1>11, <1>12, <1>13
  <2>2. QED
    BY <2>1
<1> DEFINE end == CHOOSE k \in StringEnds(p) : \A j \in StringEnds(p) : k <= j
<1>14. end = e
  BY <1>11, <1>12, <1>13
<1>15. SubSeq(load, n + 1, e - 1) = text
  <2>1. PICK a \in Nat, b \in Nat : a = n + 1 /\ b = e - 1
    BY <1>7
  <2> DEFINE sub == SubSeq(load, a, b)
  <2>2. 1 <= a /\ a <= b + 1 /\ b <= size /\ b + 1 - a = l
    BY <1>4, <1>60, <2>1
  <2>3. /\ sub \in Seq(Int) /\ Len(sub) = l
        /\ \A i \in 1 .. l : sub[i] = load[n + 1 + i - 1]
    <3>1. b <= Len(load) /\ sub = SubSeq(load, a, b)
      BY <1>2, <2>2
    <3> HIDE DEF sub
    <3>2. /\ sub \in Seq(Int) /\ Len(sub) = b + 1 - a
          /\ \A i \in 1 .. b + 1 - a : sub[i] = load[a + i - 1]
      <4>1. /\ SubSeq(load, a, b) \in Seq(Int) /\ Len(SubSeq(load, a, b)) = b + 1 - a
            /\ \A i \in 1 .. b + 1 - a : SubSeq(load, a, b)[i] = load[a + i - 1]
        BY <2>2, <3>1, PartUnits, SMTT(60)
      <4>2. QED
        BY <3>1, <4>1
    <3>3. QED
      BY <2>1, <2>2, <3>2
  <2> HIDE DEF sub
  <2>6. ASSUME NEW i \in 1 .. l PROVE sub[i] = text[i]
    <3>1. n + 1 + i - 1 = n + i
      OBVIOUS
    <3>2. QED
      BY <1>8, <2>3, <3>1
  <2>7. sub = text
    BY <1>3, <2>3, <2>6, SeqEqual
  <2>8. QED
    BY <2>1, <2>7 DEF sub
<1>16. s = [parcel |-> [p EXCEPT !.next = end],
            val |-> IF end = n + 1 THEN NULL ELSE SubSeq(load, n + 1, end - 1)]
  <2>1. StringEnds(p) # {}
    BY <1>11
  <2> HIDE DEF end
  <2>2. media_parcel_read_string(p) =
          [parcel |-> [p EXCEPT !.next = end],
           val |-> IF end = p.next + 1 THEN NULL ELSE SubSeq(Payload(p), p.next + 1, end - 1)]
    BY <2>1, Zenon DEF media_parcel_read_string, end
  <2>3. QED
    BY <1>2, <2>2
<1> HIDE DEF end
<1>17. PICK q : q = [p EXCEPT !.next = e]
  OBVIOUS
<1>18. q = At(p, e)
  BY <1>1, <1>17 DEF At
<1>19. s.parcel = q /\ s.val = IF e = n + 1 THEN NULL ELSE text
  <2>1. s = [parcel |-> q, val |-> IF e = n + 1 THEN NULL ELSE text]
    BY <1>14, <1>15, <1>16, <1>17, Zenon
  <2>2. QED
    BY <2>1
<1>20. e = n + 1 <=> l = 0
  BY <1>3, <1>4
<1>21. s.val = val
  BY <1>3, <1>19, <1>20
<1>22. e = p.next + Len(Encoded("s", val))
  BY <1>2, <1>3, <1>4, <1>5
<1>23. QED
  BY <1>18, <1>19, <1>21, <1>22

\* Reading leaves the units of a parcel alone.
LEMMA AtWhole ==
    ASSUME NEW p, Whole(p), NEW n \in Nat
    PROVE  /\ Whole(At(p, n)) /\ At(p, n).next = n
           /\ \A m, u : Holds(p, m, u) => Holds(At(p, n), m, u)
           /\ \A m : At(At(p, n), m) = At(p, m)
           /\ p = At(p, p.next)
<1>1. p \in [chunk : Seq(Int), next : Nat, cap : Nat]
  BY DEF Whole
<1>2. PICK q : q = At(p, n)
  OBVIOUS
<1>3. /\ q.chunk = p.chunk /\ q.cap = p.cap /\ q.next = n
      /\ q \in [chunk : Seq(Int), next : Nat, cap : Nat]
  BY <1>1, <1>2 DEF At
<1>4. Whole(q) /\ \A m, u : Holds(p, m, u) => Holds(q, m, u)
  BY <1>3 DEF Whole, Holds, Size
<1>5. \A m : At(q, m) = At(p, m)
  BY <1>3 DEF At
<1>6. p = At(p, p.next)
  BY <1>1 DEF At
<1>7. QED
  BY <1>2, <1>3, <1>4, <1>5, <1>6

\* What media_parcel_read_scanf has when it has read p up to n.
Scanned(p, n, vals) == [parcel |-> At(p, n), ret |-> 0, vals |-> vals]

\* The first k arguments.
First(args, k) == [j \in 1 .. k |-> args[j]]

\* One argument more has been read.
LEMMA OneMore ==
    ASSUME NEW args, NEW n \in Nat, NEW k \in 1 .. n
    PROVE  Append(First(args, k - 1), args[k]) = First(args, k)
<1> DEFINE V == {args[j] : j \in 1 .. n}
<1>1. PICK a : a = First(args, k - 1) /\ a = [j \in 1 .. k - 1 |-> args[j]]
  BY DEF First
<1>2. PICK b : b = First(args, k) /\ b = [j \in 1 .. k |-> args[j]]
  BY DEF First
<1>3. k - 1 \in Nat /\ k \in Nat /\ (k - 1) + 1 = k
  OBVIOUS
<1>4. \A j \in 1 .. k : args[j] \in V
  OBVIOUS
<1> HIDE DEF V
<1>5. a \in Seq(V) /\ Len(a) = k - 1
  BY <1>1, <1>3, <1>4, IsASeq, LenProperties
<1>6. b \in Seq(V) /\ Len(b) = k
  BY <1>2, <1>3, <1>4, IsASeq, LenProperties
<1>7. /\ Append(a, args[k]) \in Seq(V) /\ Len(Append(a, args[k])) = k
      /\ \A j \in 1 .. k - 1 : Append(a, args[k])[j] = a[j]
      /\ Append(a, args[k])[k] = args[k]
  BY <1>3, <1>4, <1>5, AppendProperties
<1>8. \A j \in 1 .. k : Append(a, args[k])[j] = b[j]
  BY <1>1, <1>2, <1>3, <1>7
<1>9. Append(a, args[k]) = b
  BY <1>6, <1>7, <1>8, SeqEqual
<1>10. QED
  BY <1>1, <1>2, <1>9

\* A value stands between n and m.
Stands(p, c, val, n, m) ==
    /\ Whole(p) /\ c \in {"i", "s"} /\ val \in Values(c) /\ n \in Nat /\ m \in Nat
    /\ m = n + Len(Encoded(c, val)) /\ Holds(p, n, Encoded(c, val))

\* One step of media_parcel_read_scanf.
LEMMA ScansOne ==
    ASSUME NEW p, NEW c, NEW val, NEW n, NEW m, Stands(p, c, val, n, m), NEW v
    PROVE  ScanOne(Scanned(p, n, v), c) = Scanned(p, m, Append(v, val))
<1> DEFINE s == Scanned(p, n, v)
<1> USE DEF Stands
<1>1. PICK q : q = At(p, n)
  OBVIOUS
<1>2. Whole(q) /\ q.next = n /\ Holds(q, n, Encoded(c, val)) /\ \A k : At(q, k) = At(p, k)
  BY <1>1, AtWhole
<1>3. s.parcel = q /\ s.ret = 0 /\ s.vals = v
  BY <1>1 DEF Scanned
<1> SUFFICES ScanOne(s, c) = [parcel |-> At(p, m), ret |-> 0, vals |-> Append(v, val)]
  BY DEF Scanned
<1> HIDE DEF s
<1>4. CASE c = "i"
  <2>1. val \in Int /\ Encoded(c, val) = <<val>> /\ Len(<<val>>) = 1
    BY <1>4 DEF Values, Encoded
  <2>2. PICK i : i = media_parcel_read_int32(q)
    OBVIOUS
  <2>3. i.parcel = At(p, m) /\ i.ret = 0 /\ i.val = val
    BY <1>2, <2>1, <2>2, ReadsInt
  <2>4. ~ (s.ret < 0)
    BY <1>3
  <2>5. ScanOne(s, c) = [parcel |-> i.parcel, ret |-> i.ret, vals |-> Append(s.vals, i.val)]
    BY <1>3, <1>4, <2>2, <2>4, Zenon DEF ScanOne
  <2>6. QED
    BY <1>3, <2>3, <2>5
<1>5. CASE c = "s"
  <2>1. val \in {NULL} \cup Texts /\ c # "i"
    BY <1>5 DEF Values
  <2>2. PICK t : t = media_parcel_read_string(q)
    OBVIOUS
  <2>3. t.parcel = At(p, m) /\ t.val = val
    BY <1>2, <1>5, <2>1, <2>2, ReadsString
  <2>4. ~ (s.ret < 0)
    BY <1>3
  <2>5. ScanOne(s, c) = [parcel |-> t.parcel, ret |-> 0, vals |-> Append(s.vals, t.val)]
    BY <1>3, <2>1, <2>2, <2>4, Zenon DEF ScanOne
  <2>6. QED
    BY <1>3, <2>3, <2>5
<1>6. QED
  BY <1>4, <1>5

\* media_parcel_read_scanf returns the values of the format.
LEMMA ScanReads ==
    ASSUME NEW p, Whole(p), NEW fmt, NEW args, Format(fmt, args),
           NEW pos, Layout(p, fmt, args, pos), pos[0] = p.next
    PROVE  media_parcel_read_scanf(p, fmt).vals = [k \in 1 .. Len(fmt) |-> args[k]]
<1>1. Len(fmt) \in Nat /\ \A k \in 1 .. Len(fmt) : fmt[k] \in {"i", "s"} /\ args[k] \in Values(fmt[k])
  BY LenProperties, ElementOfSeq DEF Format
<1> DEFINE n == Len(fmt)
           start == [parcel |-> p, ret |-> 0, vals |-> <<>>]
           S(k) == Scanned(p, pos[k], First(args, k))
           F(f) == f = [k \in 0 .. n |-> IF k = 0 THEN start ELSE Step(ScanOne, f[k - 1], fmt[k])]
           f0 == CHOOSE f : F(f)
<1>2. S(0) = start
  <2>1. p = At(p, pos[0])
    BY AtWhole
  <2>2. First(args, 0) = <<>>
    BY DEF First
  <2>3. QED
    BY <2>1, <2>2 DEF Scanned
<1>3. ASSUME NEW k \in 1 .. n
      PROVE  Step(ScanOne, S(k - 1), fmt[k]) = S(k)
  <2>1. pos[k - 1] \in Nat /\ pos[k] \in Nat
    <3>1. k - 1 \in 0 .. n /\ k \in 0 .. n
      BY <1>1
    <3>2. QED
      BY <3>1 DEF Layout
  <2>2. pos[k] = pos[k - 1] + Len(Encoded(fmt[k], args[k])) /\ Holds(p, pos[k - 1], Encoded(fmt[k], args[k]))
    BY DEF Layout
  <2>3. Stands(p, fmt[k], args[k], pos[k - 1], pos[k])
    BY <1>1, <2>1, <2>2 DEF Stands
  <2>4. ScanOne(Scanned(p, pos[k - 1], First(args, k - 1)), fmt[k])
          = Scanned(p, pos[k], Append(First(args, k - 1), args[k]))
    BY <2>3, ScansOne, SMT
  <2>5. Append(First(args, k - 1), args[k]) = First(args, k)
    BY <1>1, OneMore
  <2>6. ScanOne(S(k - 1), fmt[k]) = S(k)
    BY <2>4, <2>5
  <2>7. Step(ScanOne, S(k - 1), fmt[k]) = ScanOne(S(k - 1), fmt[k])
    BY DEF Step
  <2>8. QED
    BY <2>6, <2>7
<1> HIDE DEF S, start
<1>4. \E f : F(f)
  <2>1. PICK g : g = [k \in 0 .. n |-> S(k)]
    OBVIOUS
  <2>2. ASSUME NEW k \in 0 .. n
        PROVE  g[k] = IF k = 0 THEN start ELSE Step(ScanOne, g[k - 1], fmt[k])
    <3>1. CASE k = 0
      BY <1>2, <2>1, <3>1
    <3>2. CASE k # 0
      <4>1. k \in 1 .. n /\ k - 1 \in 0 .. n
        BY <1>1, <3>2
      <4>2. g[k - 1] = S(k - 1) /\ g[k] = S(k)
        BY <2>1, <4>1
      <4>3. QED
        BY <1>3, <3>2, <4>1, <4>2
    <3>3. QED
      BY <3>1, <3>2
  <2>3. F(g)
    <3>1. g = [k \in 0 .. n |-> g[k]]
      BY <2>1
    <3>2. QED
      BY <2>2, <3>1
  <2>4. QED
    BY <2>3
<1>5. F(f0)
  BY <1>4
<1>6. media_parcel_read_scanf(p, fmt) = f0[n]
  BY Zenon DEF media_parcel_read_scanf, start
<1> HIDE DEF f0
<1>7. \A k \in 0 .. n : f0[k] = IF k = 0 THEN start ELSE Step(ScanOne, f0[k - 1], fmt[k])
  BY <1>5
<1> HIDE DEF F
<1>8. f0[n] = S(n)
  <2> DEFINE Bad == {k \in Nat : k \in 0 .. n /\ f0[k] # S(k)}
  <2> n \in 0 .. n /\ n \in Nat
    BY <1>1
  <2>1. SUFFICES ASSUME Bad # {} PROVE FALSE
    BY Zenon
  <2>2. PICK k \in Bad : \A y \in Bad : k <= y
    BY <2>1, LeastNat
  <2>3. CASE k = 0
    BY <1>2, <1>7, <2>2, <2>3
  <2>4. CASE k # 0
    <3>1. k \in 1 .. n /\ k - 1 \in 0 .. n /\ k - 1 \in Nat /\ k - 1 \notin Bad
      BY <1>1, <2>2, <2>4
    <3>2. f0[k - 1] = S(k - 1)
      BY <3>1
    <3>3. f0[k] = S(k)
      BY <1>3, <1>7, <2>2, <2>4, <3>1, <3>2
    <3>4. QED
      BY <2>2, <3>3
  <2>5. QED
    BY <2>3, <2>4
<1>9. QED
  BY <1>6, <1>8 DEF S, Scanned, First

-----------------------------------------------------------------------------
(* What is on the wire                                                     *)

\* The units of one parcel: its header says how many there are.
IsFrame(m) == m \in Seq(Int) /\ Len(m) >= 2 /\ m[2] = Len(m) - 2

\* What media_proxy_once sends, media_proxy_create_listenfd and the stub.
Sent(r) == media_parcel_send(InParcel(r), MEDIA_PARCEL_SEND_ACK)
Notify == media_parcel_send(NotifyParcel, MEDIA_PARCEL_CREATE_NOTIFY)
Reply(r) ==
    media_parcel_send(media_parcel_append_printf(media_parcel_init, <<"i", "s">>,
                                                 <<Handler(r).ret, Handler(r).response>>),
                      MEDIA_PARCEL_REPLY)

\* A parcel that arrives has room for what its header announces.
LEMMA RoomEnough ==
    ASSUME NEW got \in Seq(Int), Len(got) >= 2, got[2] \in Nat
    PROVE  Room(got) \in Nat /\ got[2] <= Room(got)
<1>1. PICK p : p = [media_parcel_init EXCEPT !.chunk = got]
  OBVIOUS
<1>2. p.chunk = got /\ p.cap = MEDIA_PARCEL_DATA_LEN
  BY <1>1 DEF media_parcel_init
<1>3. Room(got) = media_parcel_grow(p, got[2])
  <2>1. Len(got) \in Nat
    BY LenProperties
  <2>2. ~ (Len(got) < MEDIA_PARCEL_HEADER_LEN)
    BY <2>1 DEF MEDIA_PARCEL_HEADER_LEN
  <2>3. QED
    BY <1>1, <2>2 DEF Room
<1>4. QED
  BY <1>2, <1>3, DataLenAssumption DEF media_parcel_grow, ChunkLen

\* A parcel that is sent and received holds what it held.
LEMMA FrameSent ==
    ASSUME NEW p, Whole(p), NEW code \in Int, NEW m, m = media_parcel_send(p, code)
    PROVE  /\ IsFrame(m) /\ media_parcel_get_code(Parcel(m)) = code
           /\ Whole(Parcel(m)) /\ Parcel(m).next = 0
           /\ KeepsUnits(p, Parcel(m))
<1>1. p.chunk \in Seq(Int) /\ Len(p.chunk) >= 2 /\ p.chunk[2] = Len(p.chunk) - 2
  BY DEF Whole
<1>2. PICK chunk \in Seq(Int) : chunk = p.chunk /\ m = [chunk EXCEPT ![1] = code]
  BY <1>1 DEF media_parcel_send
<1>3. Len(chunk) \in Nat /\ 1 \in 1 .. Len(chunk)
  BY <1>1, <1>2, LenProperties
<1>4. /\ m \in Seq(Int) /\ Len(m) = Len(chunk)
      /\ \A j \in 1 .. Len(chunk) : m[j] = IF j = 1 THEN code ELSE chunk[j]
  BY <1>2, <1>3, ExceptSeq
<1>5. Len(m) >= 2 /\ m[2] = Len(m) - 2 /\ m[1] = code
  BY <1>1, <1>2, <1>3, <1>4
<1>6. Room(m) \in Nat /\ m[2] <= Room(m)
  BY <1>3, <1>4, <1>5, RoomEnough
<1>7. PICK q : q = Parcel(m)
  OBVIOUS
<1>8. /\ q.chunk = m /\ q.next = 0 /\ q.cap = Room(m)
      /\ q \in [chunk : Seq(Int), next : Nat, cap : Nat]
  BY <1>4, <1>6, <1>7 DEF Parcel
<1>9. Whole(q)
  BY <1>5, <1>6, <1>8 DEF Whole
<1>10. KeepsUnits(p, q)
  <2>1. SUFFICES ASSUME NEW n \in Nat, NEW u \in Seq(Int), Holds(p, n, u) PROVE Holds(q, n, u)
    BY DEF KeepsUnits
  <2>2. Len(u) \in Nat /\ n + Len(u) <= Len(chunk) - 2
    BY <1>2, <2>1, LenProperties DEF Holds, Size
  <2>3. ASSUME NEW i \in 1 .. Len(u) PROVE q.chunk[2 + n + i] = u[i]
    <3>1. 2 + n + i \in 1 .. Len(chunk) /\ 2 + n + i # 1
      BY <1>3, <2>2
    <3>2. chunk[2 + n + i] = u[i]
      BY <1>2, <2>1 DEF Holds
    <3>3. QED
      BY <1>4, <1>8, <3>1, <3>2
  <2>4. n + Len(u) <= Size(q)
    BY <1>3, <1>4, <1>8, <2>2 DEF Size
  <2>5. QED
    BY <2>3, <2>4 DEF Holds
<1>11. IsFrame(m) /\ media_parcel_get_code(q) = code
  BY <1>4, <1>5, <1>8 DEF IsFrame, media_parcel_get_code
<1>12. QED
  BY <1>7, <1>8, <1>9, <1>10, <1>11

\* So the values of its format stand where they stood.
LEMMA LayoutKept ==
    ASSUME NEW p, NEW q, KeepsUnits(p, q), NEW fmt, NEW args, Format(fmt, args),
           NEW pos, Layout(p, fmt, args, pos)
    PROVE  Layout(q, fmt, args, pos)
<1>1. Len(fmt) \in Nat
  BY LenProperties DEF Format
<1>2. ASSUME NEW k \in 1 .. Len(fmt)
      PROVE  /\ pos[k] = pos[k - 1] + Len(Encoded(fmt[k], args[k]))
             /\ Holds(q, pos[k - 1], Encoded(fmt[k], args[k]))
  <2>1. k - 1 \in 0 .. Len(fmt)
    BY <1>1
  <2>2. pos[k - 1] \in Nat
    BY <2>1 DEF Layout
  <2>3. Encoded(fmt[k], args[k]) \in Seq(Int)
    BY EncodedUnits DEF Format
  <2>4. QED
    BY <2>2, <2>3 DEF Layout, KeepsUnits
<1>3. QED
  BY <1>2 DEF Layout

\* A position in a parcel does not change what it holds.
LEMMA AtKeeps ==
    ASSUME NEW p, Whole(p), NEW n \in Nat
    PROVE  KeepsUnits(p, At(p, n))
BY AtWhole DEF KeepsUnits

\* The arguments of media_proxy_once fit their format, which is the stub's.
LEMMA RequestFormat ==
    ASSUME NEW r \in Requests
    PROVE  /\ Format(InFormat(r.type), InArgs(r)) /\ r.type \in Int
           /\ r.type \in MEDIA_ID_GRAPH .. MEDIA_ID_FOCUS
           /\ StubFormat(r.type) = InFormat(r.type)
<1>1. /\ r.target \in {NULL} \cup Texts /\ r.cmd \in {NULL} \cup Texts /\ r.arg \in {NULL} \cup Texts
      /\ r.apply \in Int /\ r.res_len \in Int /\ r.type \in MEDIA_ID_GRAPH .. MEDIA_ID_FOCUS
  BY RequestsAssumption
<1>2. StubFormat(r.type) = InFormat(r.type)
  BY DEF StubFormat, InFormat
<1>3. CASE r.type = MEDIA_ID_FOCUS
  <2>1. r.type # MEDIA_ID_POLICY
    BY <1>3 DEF MEDIA_ID_POLICY, MEDIA_ID_FOCUS
  <2>2. InFormat(r.type) = <<"s", "s", "i">> /\ InArgs(r) = <<r.target, r.cmd, r.res_len>>
    BY <1>3, <2>1, Zenon DEF InFormat, InArgs
  <2>3. QED
    BY <1>1, <1>2, <2>2 DEF Format, Values, MEDIA_ID_GRAPH, MEDIA_ID_FOCUS
<1>4. CASE r.type = MEDIA_ID_POLICY
  <2>1. r.type # MEDIA_ID_FOCUS
    BY <1>4 DEF MEDIA_ID_POLICY, MEDIA_ID_FOCUS
  <2>2. /\ InFormat(r.type) = <<"s", "s", "s", "i", "i">>
        /\ InArgs(r) = <<r.target, r.cmd, r.arg, r.apply, r.res_len>>
    BY <1>4, <2>1, Zenon DEF InFormat, InArgs
  <2>3. QED
    BY <1>1, <1>2, <2>2 DEF Format, Values, MEDIA_ID_GRAPH, MEDIA_ID_FOCUS
<1>5. CASE r.type # MEDIA_ID_FOCUS /\ r.type # MEDIA_ID_POLICY
  <2>1. /\ InFormat(r.type) = <<"s", "s", "s", "i">>
        /\ InArgs(r) = <<r.target, r.cmd, r.arg, r.res_len>>
    BY <1>5, Zenon DEF InFormat, InArgs
  <2>2. QED
    BY <1>1, <1>2, <2>1 DEF Format, Values, MEDIA_ID_GRAPH, MEDIA_ID_FOCUS
<1>6. QED
  BY <1>3, <1>4, <1>5

\* The stub reads the arguments media_proxy_once was given.
LEMMA RequestCarried ==
    ASSUME NEW r \in Requests
    PROVE  /\ Whole(InParcel(r))
           /\ IsFrame(Sent(r)) /\ media_parcel_get_code(Parcel(Sent(r))) = MEDIA_PARCEL_SEND_ACK
           /\ StubArgs(Parcel(Sent(r))) = r
<1> DEFINE fmt == InFormat(r.type)
           args == InArgs(r)
<1>1. Format(fmt, args) /\ r.type \in Int /\ StubFormat(r.type) = fmt
  BY RequestFormat
<1> HIDE DEF fmt, args
<1>2. PICK p1 : p1 = media_parcel_append_int32(media_parcel_init, r.type)
  OBVIOUS
<1>3. Whole(p1) /\ p1.next = 0 /\ Size(p1) = 1 /\ Holds(p1, 0, <<r.type>>)
  <2>1. PICK z : z = media_parcel_init
    OBVIOUS
  <2>2. PICK u \in Seq(Int) : u = <<r.type>> /\ Len(u) = 1
    <3>1. <<r.type>> \in Seq(Int) /\ Len(<<r.type>>) = 1
      BY <1>1
    <3>2. QED
      BY <3>1
  <2>3. p1 = media_parcel_append(z, u)
    BY <1>2, <2>1, <2>2 DEF media_parcel_append_int32
  <2>4. Whole(z) /\ Size(z) = 0 /\ z.next = 0
    BY <2>1, EmptyParcel
  <2>5. /\ Whole(p1) /\ p1.next = z.next /\ Size(p1) = Size(z) + Len(u)
        /\ Holds(p1, Size(z), u)
    BY <2>3, <2>4, AppendWrites
  <2>6. QED
    BY <2>2, <2>4, <2>5
<1>4. PICK q : q = InParcel(r)
  OBVIOUS
<1>5. q = media_parcel_append_printf(p1, fmt, args)
  BY <1>2, <1>4 DEF InParcel, fmt, args
<1>6. Whole(q) /\ q.next = 0 /\ KeepsUnits(p1, q)
  BY <1>1, <1>3, <1>5, PrintfWrites
<1>7. PICK pos : Layout(q, fmt, args, pos) /\ pos[0] = 1
  BY <1>1, <1>3, <1>5, PrintfWrites
<1>8. PICK m : m = Sent(r)
  OBVIOUS
<1>9. PICK p : p = Parcel(m)
  OBVIOUS
<1>10. /\ IsFrame(m) /\ media_parcel_get_code(p) = MEDIA_PARCEL_SEND_ACK
       /\ Whole(p) /\ p.next = 0 /\ KeepsUnits(q, p)
  <2>1. m = media_parcel_send(q, MEDIA_PARCEL_SEND_ACK) /\ MEDIA_PARCEL_SEND_ACK \in Int
    BY <1>4, <1>8 DEF Sent, MEDIA_PARCEL_SEND_ACK
  <2>2. QED
    BY <1>6, <1>9, <2>1, FrameSent
<1>11. PICK id : id = media_parcel_read_int32(p)
  OBVIOUS
<1>12. id.parcel = At(p, 1) /\ id.val = r.type
  <2>1. <<r.type>> \in Seq(Int)
    BY <1>1
  <2>2. Holds(p, p.next, <<r.type>>)
    BY <1>3, <1>6, <1>10, <2>1 DEF KeepsUnits
  <2>3. QED
    BY <1>1, <1>10, <1>11, <2>2, ReadsInt
<1>13. PICK p2 : p2 = At(p, 1)
  OBVIOUS
<1>14. Whole(p2) /\ p2.next = 1 /\ KeepsUnits(p, p2)
  BY <1>10, <1>13, AtWhole, AtKeeps
<1>15. Layout(p2, fmt, args, pos)
  <2>1. Layout(p, fmt, args, pos)
    BY <1>1, <1>7, <1>10, LayoutKept
  <2>2. QED
    BY <1>1, <1>14, <2>1, LayoutKept
<1>16. PICK v : v = media_parcel_read_scanf(p2, fmt).vals
  OBVIOUS
<1>17. v = [k \in 1 .. Len(fmt) |-> args[k]]
  BY <1>1, <1>7, <1>14, <1>15, <1>16, ScanReads
<1>18. StubArgs(p) = [type |-> r.type, target |-> v[1], cmd |-> v[2],
                      arg |-> IF Len(v) > 3 THEN v[3] ELSE NULL,
                      apply |-> IF Len(v) > 4 THEN v[4] ELSE 0,
                      res_len |-> v[Len(v)]]
  <2>1. v = media_parcel_read_scanf(id.parcel, StubFormat(id.val)).vals
    BY <1>1, <1>12, <1>13, <1>16
  <2>2. QED
    BY <1>11, <1>12, <2>1, Zenon DEF StubArgs
<1>19. r = [type |-> r.type, target |-> r.target, cmd |-> r.cmd, arg |-> r.arg,
            apply |-> r.apply, res_len |-> r.res_len]
  BY RequestsAssumption
<1>20. /\ v[1] = r.target /\ v[2] = r.cmd
       /\ (IF Len(v) > 3 THEN v[3] ELSE NULL) = r.arg
       /\ (IF Len(v) > 4 THEN v[4] ELSE 0) = r.apply
       /\ v[Len(v)] = r.res_len
  <2>1. CASE r.type = MEDIA_ID_FOCUS
    <3>1. r.type # MEDIA_ID_POLICY
      BY <2>1 DEF MEDIA_ID_POLICY, MEDIA_ID_FOCUS
    <3>2. fmt = <<"s", "s", "i">> /\ args = <<r.target, r.cmd, r.res_len>>
      BY <2>1, <3>1, Zenon DEF fmt, args, InFormat, InArgs
    <3>3. v = [k \in 1 .. 3 |-> args[k]]
      BY <1>17, <3>2
    <3>4. Len(v) = 3 /\ v[1] = r.target /\ v[2] = r.cmd /\ v[3] = r.res_len
      BY <3>2, <3>3
    <3>5. r.arg = NULL /\ r.apply = 0
      BY <2>1, <3>1, RequestsAssumption
    <3>6. QED
      BY <3>4, <3>5
  <2>2. CASE r.type = MEDIA_ID_POLICY
    <3>1. r.type # MEDIA_ID_FOCUS
      BY <2>2 DEF MEDIA_ID_POLICY, MEDIA_ID_FOCUS
    <3>2. fmt = <<"s", "s", "s", "i", "i">> /\ args = <<r.target, r.cmd, r.arg, r.apply, r.res_len>>
      BY <2>2, <3>1, Zenon DEF fmt, args, InFormat, InArgs
    <3>3. v = [k \in 1 .. 5 |-> args[k]]
      BY <1>17, <3>2
    <3>4. /\ Len(v) = 5 /\ v[1] = r.target /\ v[2] = r.cmd /\ v[3] = r.arg
          /\ v[4] = r.apply /\ v[5] = r.res_len
      BY <3>2, <3>3
    <3>5. QED
      BY <3>4
  <2>3. CASE r.type # MEDIA_ID_FOCUS /\ r.type # MEDIA_ID_POLICY
    <3>1. fmt = <<"s", "s", "s", "i">> /\ args = <<r.target, r.cmd, r.arg, r.res_len>>
      BY <2>3, Zenon DEF fmt, args, InFormat, InArgs
    <3>2. v = [k \in 1 .. 4 |-> args[k]]
      BY <1>17, <3>1
    <3>3. Len(v) = 4 /\ v[1] = r.target /\ v[2] = r.cmd /\ v[3] = r.arg /\ v[4] = r.res_len
      BY <3>1, <3>2
    <3>4. r.apply = 0
      BY <2>3, RequestsAssumption
    <3>5. QED
      BY <3>3, <3>4
  <2>4. QED
    BY <2>1, <2>2, <2>3
<1>21. StubArgs(p) = r
  BY <1>18, <1>19, <1>20, Zenon
<1>22. QED
  BY <1>4, <1>6, <1>8, <1>9, <1>10, <1>21

\* media_proxy_once reads the answer the handler gave.
LEMMA ReplyCarried ==
    ASSUME NEW r \in Requests
    PROVE  /\ IsFrame(Reply(r))
           /\ ReadReply(Parcel(Reply(r)), r.res_len) = CallAnswer(r)
<1>1. PICK h : h = Handler(r)
  OBVIOUS
<1>2. h.ret \in Int /\ h.response \in {NULL} \cup Texts
  BY <1>1, HandlerAssumption
<1>3. PICK fmt, args : fmt = <<"i", "s">> /\ args = <<h.ret, h.response>>
  OBVIOUS
<1>4. Format(fmt, args) /\ Len(fmt) = 2
  BY <1>2, <1>3 DEF Format, Values
<1>5. PICK z : z = media_parcel_init
  OBVIOUS
<1>6. Whole(z) /\ Size(z) = 0 /\ z.next = 0
  BY <1>5, EmptyParcel
<1>7. PICK q : q = media_parcel_append_printf(z, fmt, args)
  OBVIOUS
<1>8. Whole(q) /\ \E pos : Layout(q, fmt, args, pos) /\ pos[0] = Size(z)
  BY <1>4, <1>6, <1>7, PrintfWrites
<1>9. PICK pos : Layout(q, fmt, args, pos) /\ pos[0] = 0
  BY <1>6, <1>8
<1>10. PICK m, p : m = Reply(r) /\ p = Parcel(m)
  OBVIOUS
<1>11. /\ IsFrame(m) /\ media_parcel_get_code(p) = MEDIA_PARCEL_REPLY
       /\ Whole(p) /\ p.next = 0 /\ KeepsUnits(q, p)
  <2>1. m = media_parcel_send(q, MEDIA_PARCEL_REPLY) /\ MEDIA_PARCEL_REPLY \in Int
    BY <1>1, <1>3, <1>5, <1>7, <1>10 DEF Reply, MEDIA_PARCEL_REPLY
  <2>2. QED
    BY <1>8, <1>10, <2>1, FrameSent
<1>12. Layout(p, fmt, args, pos)
  BY <1>4, <1>9, <1>11, LayoutKept
<1>13. PICK v : v = media_parcel_read_scanf(p, fmt).vals
  OBVIOUS
<1>14. v = [k \in 1 .. 2 |-> args[k]]
  <2>1. v = [k \in 1 .. Len(fmt) |-> args[k]]
    <3>1. Whole(p) /\ Format(fmt, args) /\ pos[0] = p.next
      BY <1>4, <1>9, <1>11
    <3>2. QED
      BY <1>12, <1>13, <3>1, ScanReads
  <2>2. QED
    BY <1>4, <2>1
<1>15. v[1] = h.ret /\ v[2] = h.response
  BY <1>3, <1>14
<1>16. ReadReply(p, r.res_len) = [ret |-> v[1], res |-> IF v[1] >= 0 /\ r.res_len > 0 THEN v[2] ELSE NULL]
  BY <1>3, <1>11, <1>13, Zenon DEF ReadReply
<1>17. ReadReply(p, r.res_len) = CallAnswer(r)
  BY <1>1, <1>15, <1>16, Zenon DEF CallAnswer
<1>18. QED
  BY <1>10, <1>11, <1>17

\* The address of a listener is a parcel with a code of its own.
LEMMA NotifyFrame ==
    IsFrame(Notify) /\ media_parcel_get_code(Parcel(Notify)) = MEDIA_PARCEL_CREATE_NOTIFY
<1>1. ASSUME NEW p, Whole(p), NEW str \in Texts
      PROVE  Whole(media_parcel_append_string(p, str))
  <2>1. str \in Values("s")
    BY DEF Values
  <2>2. PICK u \in Seq(Int) : u = Encoded("s", str)
    BY <2>1, EncodedUnits
  <2>3. media_parcel_append_string(p, str) = media_parcel_append(p, u)
    BY <2>2 DEF Encoded, media_parcel_append_string
  <2>4. QED
    BY <1>1, <2>3, AppendWrites
<1>2. Whole(NotifyParcel)
  BY <1>1, AddressAssumption, EmptyParcel DEF NotifyParcel
<1>3. MEDIA_PARCEL_CREATE_NOTIFY \in Int
  BY DEF MEDIA_PARCEL_CREATE_NOTIFY
<1>4. QED
  BY <1>2, <1>3, FrameSent DEF Notify

-----------------------------------------------------------------------------
(* Units on their way                                                      *)

\* The units of two sequences behind each other.
LEMMA ConcatUnits ==
    ASSUME NEW a \in Seq(Int), NEW b \in Seq(Int)
    PROVE  /\ a \o b \in Seq(Int) /\ Len(a \o b) = Len(a) + Len(b)
           /\ Len(a) \in Nat /\ Len(b) \in Nat
           /\ \A i \in 1 .. Len(a) : (a \o b)[i] = a[i]
           /\ \A i \in 1 .. Len(b) : (a \o b)[Len(a) + i] = b[i]
<1>1. Len(a) \in Nat /\ Len(b) \in Nat
  BY LenProperties
<1>2. PICK c : c = a \o b
  OBVIOUS
<1>3. /\ c \in Seq(Int) /\ Len(c) = Len(a) + Len(b)
      /\ \A i \in 1 .. Len(a) + Len(b) : c[i] = IF i <= Len(a) THEN a[i] ELSE b[i - Len(a)]
  BY <1>2, ConcatProperties
<1>4. \A i \in 1 .. Len(a) : c[i] = a[i]
  BY <1>1, <1>3
<1>5. ASSUME NEW i \in 1 .. Len(b) PROVE c[Len(a) + i] = b[i]
  <2>1. /\ Len(a) + i \in 1 .. Len(a) + Len(b) /\ ~ (Len(a) + i <= Len(a))
        /\ Len(a) + i - Len(a) = i
    BY <1>1
  <2>2. QED
    BY <1>3, <2>1, SMTT(60)
<1>6. QED
  BY <1>1, <1>2, <1>3, <1>4, <1>5

\* Concatenation is associative.
LEMMA ConcatAgain ==
    ASSUME NEW a \in Seq(Int), NEW b \in Seq(Int), NEW c \in Seq(Int)
    PROVE  (a \o b) \o c = a \o (b \o c)
BY ConcatAssociative

\* Nothing before or behind a sequence.
LEMMA ConcatNothing == \A a \in Seq(Int) : a \o <<>> = a /\ <<>> \o a = a
BY ConcatEmptySeq

\* The same with a name of its own: the provers compare its values as they are
\* and not unit by unit.
Cat(a, b) == a \o b

\* The three facts for Cat.
LEMMA CatAgain ==
    ASSUME NEW a \in Seq(Int), NEW b \in Seq(Int), NEW c \in Seq(Int)
    PROVE  Cat(Cat(a, b), c) = Cat(a, Cat(b, c))
BY ConcatAgain DEF Cat

LEMMA CatNothing == \A a \in Seq(Int) : Cat(a, <<>>) = a /\ Cat(<<>>, a) = a
BY ConcatNothing DEF Cat

LEMMA CatUnits ==
    ASSUME NEW a \in Seq(Int), NEW b \in Seq(Int)
    PROVE  Cat(a, b) \in Seq(Int) /\ Len(Cat(a, b)) = Len(a) + Len(b)
BY ConcatUnits DEF Cat

\* A sequence and its two parts.
LEMMA Parts ==
    ASSUME NEW w \in Seq(Int), NEW n \in 0 .. Len(w)
    PROVE  /\ SubSeq(w, 1, n) \in Seq(Int) /\ SubSeq(w, n + 1, Len(w)) \in Seq(Int)
           /\ Len(SubSeq(w, 1, n)) = n /\ Len(SubSeq(w, n + 1, Len(w))) = Len(w) - n
           /\ SubSeq(w, 1, n) \o SubSeq(w, n + 1, Len(w)) = w
<1>1. PICK l \in Nat : l = Len(w)
  BY LenProperties
<1>2. PICK a, b : a = SubSeq(w, 1, n) /\ b = SubSeq(w, n + 1, l)
  OBVIOUS
<1>3. n \in Nat /\ n <= l
  BY <1>1
<1>4. /\ a \in Seq(Int) /\ Len(a) = n
      /\ \A i \in 1 .. n : a[i] = w[i]
  <2>1. /\ a \in Seq(Int) /\ Len(a) = n + 1 - 1
        /\ \A i \in 1 .. n + 1 - 1 : a[i] = w[1 + i - 1]
    BY <1>1, <1>2, <1>3, PartUnits
  <2>2. n + 1 - 1 = n /\ \A i \in 1 .. n : 1 + i - 1 = i
    BY <1>3
  <2>3. QED
    BY <2>1, <2>2
<1>5. /\ b \in Seq(Int) /\ Len(b) = l - n
      /\ \A i \in 1 .. l - n : b[i] = w[n + i]
  <2>1. PICK k \in Nat : k = n + 1
    BY <1>3
  <2>2. /\ b \in Seq(Int) /\ Len(b) = l + 1 - k
        /\ \A i \in 1 .. l + 1 - k : b[i] = w[k + i - 1]
    BY <1>1, <1>2, <1>3, <2>1, PartUnits, SMTT(60)
  <2>3. l + 1 - k = l - n /\ \A i \in 1 .. l - n : k + i - 1 = n + i
    BY <1>3, <2>1
  <2>4. QED
    BY <2>2, <2>3
<1>6. a \o b = w
  <2>1. PICK c : c = a \o b
    OBVIOUS
  <2>2. /\ c \in Seq(Int) /\ Len(c) = l
        /\ \A i \in 1 .. n : c[i] = a[i]
        /\ \A i \in 1 .. l - n : c[n + i] = b[i]
    BY <1>3, <1>4, <1>5, <2>1, ConcatUnits, SMTT(60)
  <2>3. ASSUME NEW i \in 1 .. l PROVE c[i] = w[i]
    <3>1. CASE i <= n
      BY <1>4, <2>2, <3>1
    <3>2. CASE i > n
      <4>1. i - n \in 1 .. l - n /\ n + (i - n) = i
        BY <1>3, <3>2
      <4>2. QED
        BY <1>5, <2>2, <4>1, ZenonT(60)
    <3>3. QED
      BY <1>3, <3>1, <3>2
  <2>4. c = w
    BY <1>1, <2>2, <2>3, SeqEqual
  <2>5. QED
    BY <2>1, <2>4
<1>7. QED
  BY <1>1, <1>2, <1>4, <1>5, <1>6

\* recv() takes from the front of the socket, and neither more than there is nor
\* more than was asked for.
Moved(got, wire, g, w) ==
    Want(got) \in Nat /\ g = Recv(got, wire).got /\ w = Recv(got, wire).wire

LEMMA RecvMoves ==
    ASSUME NEW got \in Seq(Int), NEW wire \in Seq(Int),
           NEW g, NEW w, Moved(got, wire, g, w)
    PROVE  /\ g \in Seq(Int) /\ w \in Seq(Int) /\ Cat(g, w) = Cat(got, wire)
           /\ Len(g) <= Len(got) + Want(got) /\ Len(w) <= Len(wire)
<1>1. PICK n : n = IF Want(got) < Len(wire) THEN Want(got) ELSE Len(wire)
  OBVIOUS
<1>2. Len(wire) \in Nat /\ Len(got) \in Nat
  BY LenProperties
<1>3. n \in 0 .. Len(wire) /\ n <= Want(got) /\ Want(got) \in Nat
  BY <1>1, <1>2 DEF Moved
<1>4. PICK a \in Seq(Int), b \in Seq(Int) :
         /\ a = SubSeq(wire, 1, n) /\ b = SubSeq(wire, n + 1, Len(wire))
         /\ Len(a) = n /\ Len(b) = Len(wire) - n /\ a \o b = wire
  BY <1>3, Parts, ZenonT(60)
<1>5. g = got \o a /\ w = b
  BY <1>1, <1>4 DEF Recv, Moved
<1>6. g \in Seq(Int) /\ Len(g) = Len(got) + n
  BY <1>4, <1>5, ConcatUnits
<1>7. Cat(g, w) = Cat(got, wire)
  <2>1. (got \o a) \o b = got \o (a \o b)
    BY ConcatAgain, SMTT(60)
  <2>2. QED
    BY <1>4, <1>5, <2>1 DEF Cat
<1>8. Len(g) <= Len(got) + Want(got) /\ Len(w) <= Len(wire)
  <2>1. PICK k \in Nat : k = Want(got)
    BY <1>3
  <2>2. n <= k /\ n \in Nat
    BY <1>2, <1>3, <2>1
  <2>3. Len(w) = Len(wire) - n
    BY <1>4, <1>5
  <2>4. QED
    BY <1>2, <1>6, <2>1, <2>2, <2>3
<1>9. QED
  BY <1>4, <1>5, <1>6, <1>7, <1>8

\* What stands at the front of a stream that begins with m.
LEMMA Front ==
    ASSUME NEW m \in Seq(Int), NEW z \in Seq(Int), NEW got \in Seq(Int), NEW s \in Seq(Int),
           got \o s = m \o z, Len(got) <= Len(m)
    PROVE  /\ \A i \in 1 .. Len(got) : got[i] = m[i]
           /\ Len(got) = Len(m) => got = m /\ s = z
<1>1. Len(got) \in Nat /\ Len(m) \in Nat /\ Len(s) \in Nat /\ Len(z) \in Nat
  BY LenProperties
<1>2. PICK c : c = got \o s /\ c = m \o z
  OBVIOUS
<1>3. /\ Len(c) = Len(got) + Len(s) /\ \A i \in 1 .. Len(got) : c[i] = got[i]
      /\ \A i \in 1 .. Len(s) : c[Len(got) + i] = s[i]
  <2>1. /\ Len(got \o s) = Len(got) + Len(s) /\ \A i \in 1 .. Len(got) : (got \o s)[i] = got[i]
        /\ \A i \in 1 .. Len(s) : (got \o s)[Len(got) + i] = s[i]
    BY ConcatUnits
  <2>2. QED
    BY <1>2, <2>1
<1>4. /\ Len(c) = Len(m) + Len(z) /\ \A i \in 1 .. Len(m) : c[i] = m[i]
      /\ \A i \in 1 .. Len(z) : c[Len(m) + i] = z[i]
  <2>1. /\ Len(m \o z) = Len(m) + Len(z) /\ \A i \in 1 .. Len(m) : (m \o z)[i] = m[i]
        /\ \A i \in 1 .. Len(z) : (m \o z)[Len(m) + i] = z[i]
    BY ConcatUnits
  <2>2. QED
    BY <1>2, <2>1
<1>5. ASSUME NEW i \in 1 .. Len(got) PROVE got[i] = m[i]
  <2>1. i \in 1 .. Len(m)
    BY <1>1
  <2>2. QED
    BY <1>3, <1>4, <2>1
<1>6. ASSUME Len(got) = Len(m) PROVE got = m /\ s = z
  <2>1. got = m
    BY <1>5, <1>6, SeqEqual
  <2>2. Len(s) = Len(z)
    BY <1>1, <1>3, <1>4, <1>6
  <2>3. \A i \in 1 .. Len(s) : s[i] = z[i]
    BY <1>3, <1>4, <1>6, <2>2
  <2>4. s = z
    BY <2>2, <2>3, SeqEqual
  <2>5. QED
    BY <2>1, <2>4
<1>7. QED
  BY <1>5, <1>6

\* What has arrived of a frame.
LEMMA Arrives ==
    ASSUME NEW m, IsFrame(m), NEW z \in Seq(Int), NEW got \in Seq(Int), NEW s \in Seq(Int),
           Cat(got, s) = Cat(m, z), Len(got) <= Len(m)
    PROVE  /\ Want(got) \in Nat /\ Len(got) + Want(got) <= Len(m)
           /\ Received(got) => got = m /\ s = z
           /\ Len(got) <= MEDIA_PARCEL_HEADER_LEN + Room(got)
<1>1. m \in Seq(Int) /\ Len(m) >= 2 /\ m[2] = Len(m) - 2
  BY DEF IsFrame
<1>2. Len(got) \in Nat /\ Len(m) \in Nat
  BY <1>1, LenProperties
<1>3. CASE Len(got) < 2
  <2>1. Want(got) = 2 - Len(got) /\ ~ Received(got) /\ Room(got) = MEDIA_PARCEL_DATA_LEN
    BY <1>2, <1>3 DEF Want, Received, Room, MEDIA_PARCEL_HEADER_LEN
  <2>2. QED
    BY <1>1, <1>2, <1>3, <2>1, DataLenAssumption DEF MEDIA_PARCEL_HEADER_LEN
<1>4. CASE Len(got) >= 2
  <2>1. got[2] = m[2]
    BY <1>1, <1>2, <1>4, Front DEF Cat
  <2>2. got[2] = Len(m) - 2 /\ got[2] \in Nat
    BY <1>1, <1>2, <2>1
  <2>3. Want(got) = 2 + got[2] - Len(got)
    BY <1>2, <1>4 DEF Want, MEDIA_PARCEL_HEADER_LEN
  <2>4. Want(got) \in Nat /\ Len(got) + Want(got) = Len(m)
    BY <1>1, <1>2, <2>2, <2>3
  <2>5. Room(got) \in Nat /\ got[2] <= Room(got)
    BY <1>4, <2>2, RoomEnough
  <2>6. ASSUME Received(got) PROVE got = m /\ s = z
    <3>1. Len(got) = Len(m)
      BY <1>2, <2>4, <2>6 DEF Received
    <3>2. QED
      BY <1>1, <3>1, Front DEF Cat
  <2>7. Len(got) <= 2 + Room(got)
    BY <1>2, <2>2, <2>5
  <2>8. QED
    BY <2>4, <2>6, <2>7 DEF MEDIA_PARCEL_HEADER_LEN
<1>5. QED
  BY <1>2, <1>3, <1>4

\* Nothing is the concatenation of nothing.
LEMMA BothEmpty ==
    ASSUME NEW a \in Seq(Int), NEW b \in Seq(Int), Cat(a, b) = <<>>
    PROVE  a = <<>> /\ b = <<>>
<1>1. Len(a) \in Nat /\ Len(b) \in Nat /\ Len(Cat(a, b)) = Len(a) + Len(b)
  <2>1. Len(a) \in Nat /\ Len(b) \in Nat
    BY LenProperties
  <2>2. QED
    BY <2>1, CatUnits
<1>2. Len(Cat(a, b)) = 0
  OBVIOUS
<1>3. Len(a) = 0 /\ Len(b) = 0
  BY <1>1, <1>2
<1>4. QED
  BY <1>3, EmptySeq

\* A frame has a header.
LEMMA FrameHeader == \A m : IsFrame(m) => m \in Seq(Int) /\ m # <<>>
BY DEF IsFrame

(* A stream of which "got" has arrived, "wire" is on its way and "rest" has *)
(* not been sent, and its first frame.                                     *)
Streams(m, z, rest, got, wire) ==
    /\ IsFrame(m) /\ z \in Seq(Int)
    /\ rest \in Seq(Int) /\ got \in Seq(Int) /\ wire \in Seq(Int)
    /\ Cat(Cat(got, wire), rest) = Cat(m, z)
    /\ Len(got) <= Len(m)

\* recv() is never asked for a unit of the next parcel, and a parcel that is
\* complete is the one that was sent.
LEMMA StreamArrives ==
    ASSUME NEW m, NEW z, NEW rest, NEW got, NEW wire, Streams(m, z, rest, got, wire)
    PROVE  /\ Want(got) \in Nat /\ Len(got) + Want(got) <= Len(m)
           /\ Received(got) => got = m /\ Cat(wire, rest) = z
           /\ Len(got) <= MEDIA_PARCEL_HEADER_LEN + Room(got)
<1>1. /\ IsFrame(m) /\ z \in Seq(Int) /\ rest \in Seq(Int) /\ got \in Seq(Int) /\ wire \in Seq(Int)
      /\ Cat(Cat(got, wire), rest) = Cat(m, z) /\ Len(got) <= Len(m)
  BY DEF Streams
<1>2. PICK s \in Seq(Int) : s = Cat(wire, rest)
  BY <1>1, CatUnits
<1>3. Cat(got, s) = Cat(m, z)
  BY <1>1, <1>2, CatAgain
<1>4. QED
  BY <1>1, <1>2, <1>3, Arrives

\* recv() at the reading end.
LEMMA StreamRecv ==
    ASSUME NEW m, NEW z, NEW rest, NEW got, NEW wire, Streams(m, z, rest, got, wire),
           NEW g, NEW w, g = Recv(got, wire).got, w = Recv(got, wire).wire
    PROVE  Streams(m, z, rest, g, w)
<1>1. /\ IsFrame(m) /\ z \in Seq(Int) /\ rest \in Seq(Int) /\ got \in Seq(Int) /\ wire \in Seq(Int)
      /\ Cat(Cat(got, wire), rest) = Cat(m, z) /\ Len(got) <= Len(m)
  BY DEF Streams
<1>2. Want(got) \in Nat /\ Len(got) + Want(got) <= Len(m)
  BY StreamArrives
<1>3. g \in Seq(Int) /\ w \in Seq(Int) /\ Cat(g, w) = Cat(got, wire) /\ Len(g) <= Len(got) + Want(got)
  <2>1. Moved(got, wire, g, w)
    BY <1>2 DEF Moved
  <2>2. QED
    BY <1>1, <2>1, RecvMoves
<1>4. Len(g) <= Len(m)
  <2>1. m \in Seq(Int)
    BY <1>1, FrameHeader
  <2>2. Len(g) \in Nat /\ Len(got) \in Nat /\ Len(m) \in Nat
    BY <1>1, <1>3, <2>1, LenProperties
  <2>3. QED
    BY <1>2, <1>3, <2>2
<1>5. QED
  BY <1>1, <1>3, <1>4 DEF Streams

\* send() of the first n units.
Posted(rest, wire, n, o, w) ==
    /\ n \in 1 .. Len(rest)
    /\ w = Cat(wire, SubSeq(rest, 1, n)) /\ o = SubSeq(rest, n + 1, Len(rest))

\* send() at the writing end.
LEMMA StreamSend ==
    ASSUME NEW rest \in Seq(Int), NEW got \in Seq(Int), NEW wire \in Seq(Int),
           NEW n, NEW w, NEW o,
           Posted(rest, wire, n, o, w)
    PROVE  /\ w \in Seq(Int) /\ o \in Seq(Int)
           /\ Cat(Cat(got, w), o) = Cat(Cat(got, wire), rest)
<1>1. Len(rest) \in Nat
  BY LenProperties
<1>2. n \in 0 .. Len(rest)
  BY <1>1 DEF Posted
<1>3. PICK a \in Seq(Int) : a = SubSeq(rest, 1, n) /\ o \in Seq(Int) /\ Cat(a, o) = rest
  BY <1>2, Parts DEF Posted, Cat
<1>4. w = Cat(wire, a) /\ w \in Seq(Int)
  BY <1>3, CatUnits DEF Posted
<1>5. Cat(got, wire) \in Seq(Int)
  BY CatUnits
<1>6. Cat(got, w) = Cat(Cat(got, wire), a)
  <2>1. Cat(Cat(got, wire), a) = Cat(got, Cat(wire, a))
    BY CatAgain
  <2>2. QED
    BY <1>4, <2>1
<1>7. Cat(Cat(Cat(got, wire), a), o) = Cat(Cat(got, wire), Cat(a, o))
  BY <1>3, <1>5, CatAgain, ZenonT(60)
<1>8. QED
  BY <1>3, <1>4, <1>6, <1>7

(* What is on the way to the daemon: a listener's address, of which some   *)
(* may have arrived, and a request behind it; either may be missing.       *)
Carries(x, y, rest, got, wire) ==
    /\ x \in {<<>>, Notify} /\ y \in {<<>>} \cup {Sent(r) : r \in Requests}
    /\ rest \in Seq(Int) /\ got \in Seq(Int) /\ wire \in Seq(Int)
    /\ Cat(Cat(got, wire), rest) = Cat(x, y)
    /\ Len(got) <= Len(IF x # <<>> THEN x ELSE y)

\* The first parcel of the stream to the daemon.
LEMMA CarriesParts ==
    ASSUME NEW x, NEW y, NEW rest, NEW got, NEW wire, Carries(x, y, rest, got, wire)
    PROVE  /\ x \in Seq(Int) /\ y \in Seq(Int)
           /\ x # <<>> => x = Notify /\ Streams(x, y, rest, got, wire)
           /\ y # <<>> => IsFrame(y) /\ \E r \in Requests : y = Sent(r)
           /\ x = <<>> /\ y # <<>> => Streams(y, <<>>, rest, got, wire)
           /\ x = <<>> /\ y = <<>> => rest = <<>> /\ got = <<>> /\ wire = <<>>
<1>1. /\ x \in {<<>>, Notify} /\ y \in {<<>>} \cup {Sent(r) : r \in Requests}
      /\ rest \in Seq(Int) /\ got \in Seq(Int) /\ wire \in Seq(Int)
      /\ Cat(Cat(got, wire), rest) = Cat(x, y)
      /\ Len(got) <= Len(IF x # <<>> THEN x ELSE y)
  BY DEF Carries
<1>2. x \in Seq(Int) /\ (x # <<>> => x = Notify /\ IsFrame(x))
  BY <1>1, NotifyFrame, FrameHeader, EmptySeq
<1>3. y # <<>> => IsFrame(y) /\ \E r \in Requests : y = Sent(r)
  BY <1>1, RequestCarried
<1>4. y \in Seq(Int)
  BY <1>3, FrameHeader, EmptySeq
<1>5. ASSUME x # <<>> PROVE Streams(x, y, rest, got, wire)
  BY <1>1, <1>2, <1>4, <1>5 DEF Streams
<1>6. ASSUME x = <<>> PROVE Cat(Cat(got, wire), rest) = y /\ Cat(y, <<>>) = y
  BY <1>1, <1>4, <1>6, CatNothing
<1>7. ASSUME x = <<>>, y # <<>> PROVE Streams(y, <<>>, rest, got, wire)
  BY <1>1, <1>3, <1>6, <1>7, EmptySeq DEF Streams
<1>8. ASSUME x = <<>>, y = <<>> PROVE rest = <<>> /\ got = <<>> /\ wire = <<>>
  <2>1. Cat(Cat(got, wire), rest) = <<>> /\ Cat(got, wire) \in Seq(Int)
    BY <1>1, <1>6, <1>8, CatUnits
  <2>2. Cat(got, wire) = <<>> /\ rest = <<>>
    BY <1>1, <2>1, BothEmpty
  <2>3. QED
    BY <1>1, <2>2, BothEmpty
<1>9. QED
  BY <1>2, <1>3, <1>4, <1>5, <1>7, <1>8

\* What arrives at the daemon fits into the memory of conn->parcel.
LEMMA CarriesRoom ==
    ASSUME NEW x, NEW y, NEW rest, NEW got, NEW wire, Carries(x, y, rest, got, wire)
    PROVE  Len(got) <= MEDIA_PARCEL_HEADER_LEN + Room(got)
<1>1. CASE x # <<>>
  BY <1>1, CarriesParts, StreamArrives
<1>2. CASE x = <<>> /\ y # <<>>
  BY <1>2, CarriesParts, StreamArrives
<1>3. CASE x = <<>> /\ y = <<>>
  BY <1>3, CarriesParts, DataLenAssumption DEF Room, MEDIA_PARCEL_HEADER_LEN
<1>4. QED
  BY <1>1, <1>2, <1>3

\* recv() in media_server_receive.
LEMMA CarriesRecv ==
    ASSUME NEW x, NEW y, NEW rest, NEW got, NEW wire, Carries(x, y, rest, got, wire), wire # <<>>,
           NEW g, NEW w, g = Recv(got, wire).got, w = Recv(got, wire).wire
    PROVE  Carries(x, y, rest, g, w)
<1>1. PICK m, z : /\ Streams(m, z, rest, got, wire) /\ Cat(m, z) = Cat(x, y)
                  /\ m = IF x # <<>> THEN x ELSE y
  <2>1. CASE x # <<>>
    BY <2>1, CarriesParts
  <2>2. CASE x = <<>>
    <3>1. y # <<>> /\ Streams(y, <<>>, rest, got, wire)
      BY <2>2, CarriesParts
    <3>2. Cat(y, <<>>) = Cat(x, y)
      BY <2>2, CarriesParts, CatNothing
    <3>3. QED
      BY <2>2, <3>1, <3>2
  <2>3. QED
    BY <2>1, <2>2
<1>2. Streams(m, z, rest, g, w)
  BY <1>1, StreamRecv
<1>3. QED
  BY <1>1, <1>2 DEF Carries, Streams

\* send() of a thread of the client.
LEMMA CarriesSend ==
    ASSUME NEW x, NEW y, NEW rest, NEW got, NEW wire, Carries(x, y, rest, got, wire),
           NEW n, NEW w, NEW o,
           Posted(rest, wire, n, o, w)
    PROVE  Carries(x, y, o, got, w)
<1>1. rest \in Seq(Int) /\ got \in Seq(Int) /\ wire \in Seq(Int) /\ Cat(Cat(got, wire), rest) = Cat(x, y)
  BY DEF Carries
<1>2. w \in Seq(Int) /\ o \in Seq(Int) /\ Cat(Cat(got, w), o) = Cat(Cat(got, wire), rest)
  BY <1>1, StreamSend
<1>3. QED
  BY <1>1, <1>2 DEF Carries

\* The reading end has a parcel.
LEMMA CarriesReceived ==
    ASSUME NEW x, NEW y, NEW rest, NEW got, NEW wire, Carries(x, y, rest, got, wire), Received(got)
    PROVE  \/ x = Notify /\ got = Notify /\ Carries(<<>>, y, rest, <<>>, wire)
           \/ x = <<>> /\ y # <<>> /\ got = y /\ rest = <<>> /\ wire = <<>>
<1>1. /\ rest \in Seq(Int) /\ got \in Seq(Int) /\ wire \in Seq(Int)
      /\ y \in {<<>>} \cup {Sent(r) : r \in Requests}
  BY DEF Carries
<1>2. CASE x # <<>>
  <2>1. x = Notify /\ got = Notify /\ Cat(wire, rest) = y
    BY <1>2, CarriesParts, StreamArrives
  <2>2. Cat(<<>>, wire) = wire /\ Cat(<<>>, y) = y /\ Len(<<>>) = 0 /\ Len(y) >= 0
    BY <1>1, CarriesParts, CatNothing, LenProperties
  <2>3. Carries(<<>>, y, rest, <<>>, wire)
    <3>1. Cat(Cat(<<>>, wire), rest) = Cat(<<>>, y)
      BY <2>1, <2>2
    <3>2. QED
      BY <1>1, <2>2, <3>1, EmptySeq DEF Carries
  <2>4. QED
    BY <2>1, <2>3
<1>3. CASE x = <<>> /\ y # <<>>
  <2>1. got = y /\ Cat(wire, rest) = <<>>
    BY <1>3, CarriesParts, StreamArrives
  <2>2. QED
    BY <1>1, <1>3, <2>1, BothEmpty
<1>4. CASE x = <<>> /\ y = <<>>
  BY <1>4, CarriesParts DEF Received, MEDIA_PARCEL_HEADER_LEN
<1>5. QED
  BY <1>2, <1>3, <1>4

\* The writing end has another request.
LEMMA CarriesRequest ==
    ASSUME NEW x, NEW got, NEW wire, Carries(x, <<>>, <<>>, got, wire), NEW r \in Requests
    PROVE  Carries(x, Sent(r), Sent(r), got, wire)
<1>1. PICK y : y = Sent(r)
  OBVIOUS
<1>2. y \in Seq(Int) /\ Len(y) \in Nat
  BY <1>1, RequestCarried, FrameHeader, LenProperties
<1>3. /\ x \in {<<>>, Notify} /\ got \in Seq(Int) /\ wire \in Seq(Int) /\ x \in Seq(Int)
      /\ Cat(Cat(got, wire), <<>>) = Cat(x, <<>>) /\ Len(got) <= Len(IF x # <<>> THEN x ELSE <<>>)
  BY CarriesParts DEF Carries
<1>4. Cat(got, wire) = x
  BY <1>3, CatUnits, CatNothing
<1>5. Len(got) <= Len(IF x # <<>> THEN x ELSE y)
  <2>1. x = <<>> => Len(got) <= 0
    BY <1>3
  <2>2. Len(got) \in Nat
    BY <1>3, LenProperties
  <2>3. QED
    BY <1>2, <1>3, <2>1, <2>2
<1>6. Carries(x, y, y, got, wire)
  BY <1>1, <1>2, <1>3, <1>4, <1>5 DEF Carries
<1>7. QED
  BY <1>1, <1>6

\* A connection that was just accepted.
LEMMA CarriesNothing == Carries(<<>>, <<>>, <<>>, <<>>, <<>>)
<1>1. Cat(Cat(<<>>, <<>>), <<>>) = Cat(<<>>, <<>>)
  BY EmptySeq, CatNothing
<1>2. QED
  BY <1>1, EmptySeq DEF Carries

\* The address of a listener on an idle connection.
LEMMA CarriesNotify == Carries(Notify, <<>>, Notify, <<>>, <<>>)
<1>1. PICK x : x = Notify
  OBVIOUS
<1>2. x \in Seq(Int) /\ x # <<>> /\ Len(x) \in Nat
  BY <1>1, NotifyFrame, FrameHeader, LenProperties
<1>3. Cat(Cat(<<>>, <<>>), x) = Cat(x, <<>>)
  BY <1>2, CatNothing, EmptySeq
<1>4. Carries(x, <<>>, x, <<>>, <<>>)
  BY <1>1, <1>2, <1>3, EmptySeq DEF Carries
<1>5. QED
  BY <1>1, <1>4

-----------------------------------------------------------------------------
(* The invariant                                                           *)

\* Every variable has its type.
WireTypes ==
    /\ pc \in [Threads -> {"idle", "locking", "sending"}]
    /\ req \in [Threads -> Requests \cup {NULL}]
    /\ mutex \in Threads \cup {NULL}
    /\ out \in Seq(Int) /\ in \in Seq(Int) /\ c2s \in Seq(Int)
    /\ s2c \in Seq(Int) /\ conn \in Seq(Int) /\ ack \in Seq(Int)
    /\ alive \in BOOLEAN /\ up \in BOOLEAN /\ listening \in BOOLEAN

\* A thread in media_proxy_set_event_cb.
Setter(t) == pc[t] # "idle" /\ req[t] = NULL

\* The thread with the mutex is the one that sends; media_proxy_set_event_cb is
\* called once.
Threading ==
    /\ \A t \in Threads : pc[t] = "sending" <=> mutex = t
    /\ \A t \in Threads : pc[t] = "idle" => req[t] = NULL
    /\ \A t \in Threads : Setter(t) => listening
    /\ \A t, u \in Threads : Setter(t) /\ Setter(u) => t = u

\* Nothing is on its way for a handle nobody holds.
Silent ==
    /\ mutex = NULL => out = <<>> /\ s2c = <<>> /\ (up /\ alive => ack = <<>>)
    /\ ~ alive => mutex = NULL /\ ~ listening /\ \A t \in Threads : pc[t] = "idle"
    /\ ~ up => conn = <<>> /\ c2s = <<>> /\ ack = <<>>

\* The request of the thread that holds the mutex, until it is dispatched.
Requested ==
    IF mutex # NULL /\ req[mutex] # NULL /\ handled = NULL THEN Sent(req[mutex]) ELSE <<>>

\* A client that died leaves a stream whose rest never comes.
Upstream ==
    up => \E x, y, rest :
             /\ Carries(x, y, rest, conn, c2s)
             /\ alive => /\ rest = out /\ y = Requested
                         /\ x # <<>> => listening /\ \A t \in Threads : Setter(t) => pc[t] = "sending"

\* A daemon that ended leaves a reply whose rest never comes.
Downstream ==
    /\ mutex # NULL /\ handled = NULL => in = <<>> /\ s2c = <<>> /\ (up => ack = <<>>)
    /\ mutex # NULL /\ handled # NULL =>
          /\ handled = req[mutex] /\ out = <<>>
          /\ \E rest : Streams(Reply(handled), <<>>, rest, in, s2c) /\ (up => rest = ack)

\* What has arrived of a reply fits into the memory of its parcel.
InRoom == Len(in) <= MEDIA_PARCEL_HEADER_LEN + Room(in)

\* The invariant of the connection.
RpcInv == WireTypes /\ Threading /\ Silent /\ Upstream /\ Downstream /\ InRoom

\* A new connection satisfies the invariant.
LEMMA RpcInit == Init => RpcInv
<1>1. SUFFICES ASSUME Init PROVE RpcInv
  OBVIOUS
<1>2. WireTypes
  BY <1>1, EmptySeq DEF Init, Fresh, WireTypes, NoParcel
<1>3. Threading /\ Silent /\ Downstream
  BY <1>1, RequestsAssumption DEF Init, Fresh, Threading, Setter, Silent, Downstream, NoParcel
<1>4. Upstream
  <2>1. Carries(<<>>, <<>>, out, conn, c2s) /\ Requested = <<>>
    BY <1>1, CarriesNothing DEF Init, Fresh, NoParcel, Requested
  <2>2. QED
    BY <2>1 DEF Upstream
<1>5. InRoom
  BY <1>1, DataLenAssumption DEF Init, Fresh, NoParcel, InRoom, Room, MEDIA_PARCEL_HEADER_LEN
<1>6. QED
  BY <1>2, <1>3, <1>4, <1>5 DEF RpcInv

\* Nothing that the two streams depend on changes.
LEMMA StreamsKept ==
    ASSUME RpcInv, UNCHANGED <<mutex, out, in, c2s, s2c, alive, up, conn, ack, handled>>,
           mutex # NULL => req'[mutex] = req[mutex],
           listening => listening',
           \A t \in Threads : Setter(t)' => Setter(t) \/ ~ listening,
           \A t \in Threads : pc[t] = "sending" => pc'[t] = "sending"
    PROVE  Upstream' /\ Downstream' /\ InRoom'
<1>1. Requested' = Requested
  BY DEF Requested
<1>2. Upstream'
  <2>1. SUFFICES ASSUME up' PROVE Upstream'
    BY DEF Upstream
  <2>2. PICK x, y, rest :
           /\ Carries(x, y, rest, conn, c2s)
           /\ alive => /\ rest = out /\ y = Requested
                       /\ x # <<>> => listening /\ \A t \in Threads : Setter(t) => pc[t] = "sending"
    BY <2>1 DEF RpcInv, Upstream
  <2>3. Carries(x, y, rest, conn', c2s')
    BY <2>2
  <2>4. ASSUME alive', x # <<>>
        PROVE  listening' /\ \A t \in Threads : Setter(t)' => pc'[t] = "sending"
    BY <2>2, <2>4
  <2>5. alive' => rest = out' /\ y = Requested'
    BY <1>1, <2>2
  <2>6. QED
    BY <2>3, <2>4, <2>5 DEF Upstream
<1>3. Downstream'
  <2>1. mutex # NULL /\ handled = NULL => in = <<>> /\ s2c = <<>> /\ (up => ack = <<>>)
    BY DEF RpcInv, Downstream
  <2>2. ASSUME mutex # NULL, handled # NULL
        PROVE  /\ handled' = req'[mutex'] /\ out' = <<>>
               /\ \E rest : Streams(Reply(handled'), <<>>, rest, in', s2c') /\ (up' => rest = ack')
    BY <2>2 DEF RpcInv, Downstream
  <2>3. QED
    BY <2>1, <2>2 DEF Downstream
<1>4. InRoom'
  BY DEF RpcInv, InRoom
<1>5. QED
  BY <1>2, <1>3, <1>4

\* media_proxy_once is called.
LEMMA CallKeeps ==
    ASSUME RpcInv, NEW t \in Threads, NEW r \in Requests, media_proxy_once(t, r)
    PROVE  RpcInv'
<1>1. WireTypes /\ Threading /\ Silent
  BY DEF RpcInv
<1>2. /\ alive /\ pc[t] = "idle" /\ pc' = [pc EXCEPT ![t] = "locking"]
      /\ req' = [req EXCEPT ![t] = r]
      /\ UNCHANGED <<mutex, out, in, alive, listening, c2s, s2c, up, conn, ack, handled>>
  BY DEF media_proxy_once, server
<1>3. r # NULL /\ mutex # t
  BY <1>1, <1>2, RequestsAssumption DEF Threading, WireTypes
<1>4. \A u \in Threads : /\ pc'[u] = IF u = t THEN "locking" ELSE pc[u]
                         /\ req'[u] = IF u = t THEN r ELSE req[u]
  BY <1>1, <1>2 DEF WireTypes
<1>5. \A u \in Threads : Setter(u)' <=> Setter(u)
  BY <1>2, <1>3, <1>4 DEF Setter
<1>6. WireTypes'
  BY <1>1, <1>2 DEF WireTypes
<1>7. Threading'
  BY <1>1, <1>2, <1>3, <1>4, <1>5 DEF Threading
<1>8. Silent'
  BY <1>1, <1>2 DEF Silent
<1>9. Upstream' /\ Downstream' /\ InRoom'
  <2>1. mutex # NULL => req'[mutex] = req[mutex]
    BY <1>1, <1>3, <1>4 DEF WireTypes
  <2>2. \A u \in Threads : pc[u] = "sending" => pc'[u] = "sending"
    BY <1>2, <1>4
  <2>3. QED
    BY <1>2, <1>5, <2>1, <2>2, StreamsKept
<1>10. QED
  BY <1>6, <1>7, <1>8, <1>9 DEF RpcInv

\* media_proxy_set_event_cb is called: no address is on its way, as it is called once.
LEMMA ListenKeeps ==
    ASSUME RpcInv, NEW t \in Threads, media_proxy_set_event_cb(t)
    PROVE  RpcInv'
<1>1. WireTypes /\ Threading /\ Silent
  BY DEF RpcInv
<1>2. /\ alive /\ pc[t] = "idle" /\ ~ listening /\ listening'
      /\ pc' = [pc EXCEPT ![t] = "locking"]
      /\ UNCHANGED <<req, mutex, out, in, alive, c2s, s2c, up, conn, ack, handled>>
  BY DEF media_proxy_set_event_cb, server
<1>3. \A u \in Threads : pc'[u] = IF u = t THEN "locking" ELSE pc[u]
  BY <1>1, <1>2 DEF WireTypes
<1>4. \A u \in Threads : Setter(u)' => u = t
  BY <1>1, <1>2, <1>3 DEF Setter, Threading
<1>5. mutex # t
  BY <1>1, <1>2 DEF Threading, WireTypes
<1>6. WireTypes'
  BY <1>1, <1>2 DEF WireTypes, media_proxy_set_event_cb
<1>7. Threading'
  BY <1>1, <1>2, <1>3, <1>4, <1>5 DEF Threading
<1>8. Silent'
  BY <1>1, <1>2 DEF Silent
<1>9. Upstream' /\ Downstream' /\ InRoom'
  <2>1. \A u \in Threads : pc[u] = "sending" => pc'[u] = "sending"
    BY <1>2, <1>3
  <2>2. QED
    BY <1>2, <2>1, StreamsKept
<1>10. QED
  BY <1>6, <1>7, <1>8, <1>9 DEF RpcInv

\* The mutex is taken: the stream is idle but for an address in front of the request.
LEMMA LockKeeps ==
    ASSUME RpcInv, NEW t \in Threads, Lock(t)
    PROVE  RpcInv'
<1>1. WireTypes /\ Threading /\ Silent /\ Upstream /\ InRoom
  BY DEF RpcInv
<1>2. /\ pc[t] = "locking" /\ mutex = NULL /\ mutex' = t /\ pc' = [pc EXCEPT ![t] = "sending"]
      /\ out' = IF req[t] = NULL THEN Notify ELSE Sent(req[t])
      /\ in' = <<>> /\ handled' = NULL
      /\ UNCHANGED <<req, alive, listening, up, conn, ack, c2s, s2c>>
  BY DEF Lock, Notify, Sent, NoParcel
<1>3. \A u \in Threads : pc'[u] = IF u = t THEN "sending" ELSE pc[u]
  BY <1>1, <1>2 DEF WireTypes
<1>4. t # NULL /\ alive /\ out = <<>> /\ s2c = <<>> /\ (up => ack = <<>>)
  BY <1>1, <1>2, RequestsAssumption DEF Silent
<1>5. out' \in Seq(Int)
  <2>1. CASE req[t] = NULL
    BY <1>2, <2>1, NotifyFrame, FrameHeader
  <2>2. CASE req[t] # NULL
    <3>1. req[t] \in Requests
      BY <1>1, <2>2 DEF WireTypes
    <3>2. QED
      BY <1>2, <2>2, <3>1, RequestCarried, FrameHeader
  <2>3. QED
    BY <2>1, <2>2
<1>6. WireTypes'
  BY <1>1, <1>2, <1>5, EmptySeq DEF WireTypes
<1>7. \A u \in Threads : Setter(u)' <=> Setter(u)
  BY <1>2, <1>3 DEF Setter
<1>8. Threading'
  BY <1>1, <1>2, <1>3, <1>4, <1>7, RequestsAssumption DEF Threading
<1>9. Silent'
  BY <1>1, <1>2, <1>4 DEF Silent
<1>10. Upstream'
  <2>1. SUFFICES ASSUME up' PROVE Upstream'
    BY DEF Upstream
  <2>2. Requested = <<>>
    BY <1>2 DEF Requested
  <2>3. PICK x : /\ Carries(x, <<>>, <<>>, conn, c2s)
                 /\ x # <<>> => listening /\ \A u \in Threads : Setter(u) => pc[u] = "sending"
    BY <1>1, <1>2, <1>4, <2>1, <2>2 DEF Upstream
  <2>4. CASE req[t] = NULL
    <3>1. Setter(t)
      BY <1>2, <2>4 DEF Setter
    <3>2. x = <<>>
      BY <1>2, <2>3, <3>1
    <3>3. conn' = <<>> /\ c2s' = <<>>
      BY <1>2, <2>3, <3>2, CarriesParts
    <3>4. Carries(Notify, <<>>, out', conn', c2s')
      BY <1>2, <2>4, <3>3, CarriesNotify
    <3>5. Requested' = <<>> /\ listening'
      BY <1>1, <1>2, <2>4, <3>1 DEF Requested, Threading
    <3>6. \A u \in Threads : Setter(u)' => pc'[u] = "sending"
      BY <1>1, <1>3, <1>7, <3>1 DEF Threading
    <3>7. QED
      BY <3>4, <3>5, <3>6 DEF Upstream
  <2>5. CASE req[t] # NULL
    <3>1. PICK r \in Requests : r = req[t]
      BY <1>1, <2>5 DEF WireTypes
    <3>2. out' = Sent(r) /\ Requested' = Sent(r)
      BY <1>2, <1>4, <2>5, <3>1 DEF Requested
    <3>3. Carries(x, Sent(r), Sent(r), conn, c2s)
      BY <2>3, CarriesRequest
    <3>4. Carries(x, Requested', out', conn', c2s')
      <4>1. PICK y : y = Sent(r)
        OBVIOUS
      <4>2. Carries(x, y, y, conn, c2s)
        BY <3>3, <4>1
      <4>3. y = out' /\ y = Requested'
        BY <3>2, <4>1
      <4>4. QED
        BY <1>2, <4>2, <4>3
    <3>5. ASSUME x # <<>>
          PROVE  listening' /\ \A u \in Threads : Setter(u)' => pc'[u] = "sending"
      BY <1>2, <1>3, <1>7, <2>3, <3>5
    <3>6. QED
      BY <3>4, <3>5 DEF Upstream
  <2>6. QED
    BY <2>4, <2>5
<1>11. Downstream'
  BY <1>2, <1>4 DEF Downstream
<1>12. InRoom'
  BY <1>2, DataLenAssumption DEF InRoom, Room, MEDIA_PARCEL_HEADER_LEN
<1>13. QED
  BY <1>6, <1>8, <1>9, <1>10, <1>11, <1>12 DEF RpcInv

\* send() of some units of a request or an address.
LEMMA SendKeeps ==
    ASSUME RpcInv, NEW t \in Threads, Send(t)
    PROVE  RpcInv'
<1>1. WireTypes /\ Threading /\ Silent /\ Upstream /\ Downstream /\ InRoom
  BY DEF RpcInv
<1>2. /\ pc[t] = "sending" /\ out # <<>> /\ up
      /\ UNCHANGED <<pc, req, mutex, in, alive, listening, up, conn, ack, handled, s2c>>
  BY DEF Send, server
<1>3. PICK n : Posted(out, c2s, n, out', c2s')
  <2>1. PICK n \in Sizes(out, c2s) : c2s' = c2s \o SubSeq(out, 1, n) /\ out' = SubSeq(out, n + 1, Len(out))
    BY DEF Send
  <2>2. QED
    BY <2>1 DEF Posted, Cat, Sizes
<1>4. mutex = t /\ t # NULL /\ alive
  BY <1>1, <1>2, RequestsAssumption DEF Threading, Silent
<1>5. handled = NULL
  BY <1>1, <1>2, <1>4 DEF Downstream
<1>6. PICK x : /\ Carries(x, Requested, out, conn, c2s)
               /\ x # <<>> => listening /\ \A u \in Threads : Setter(u) => pc[u] = "sending"
  BY <1>1, <1>2, <1>4 DEF Upstream
<1>7. Carries(x, Requested, out', conn, c2s')
  BY <1>3, <1>6, CarriesSend
<1>8. Upstream'
  <2>1. Requested' = Requested
    BY <1>2 DEF Requested
  <2>2. Carries(x, Requested', out', conn', c2s')
    <3>1. PICK y : y = Requested /\ y = Requested'
      BY <2>1
    <3>2. Carries(x, y, out', conn, c2s')
      BY <1>7, <3>1
    <3>3. QED
      BY <1>2, <3>1, <3>2
  <2>3. ASSUME x # <<>>
        PROVE  listening' /\ \A u \in Threads : Setter(u)' => pc'[u] = "sending"
    BY <1>2, <1>6, <2>3 DEF Setter
  <2>4. QED
    BY <2>2, <2>3 DEF Upstream
<1>9. WireTypes'
  <2>1. out' \in Seq(Int) /\ c2s' \in Seq(Int)
    BY <1>7 DEF Carries
  <2>2. QED
    BY <1>1, <1>2, <2>1 DEF WireTypes
<1>10. Threading'
  BY <1>1, <1>2 DEF Threading, Setter
<1>11. Silent' /\ InRoom'
  BY <1>1, <1>2, <1>4 DEF Silent, InRoom
<1>12. Downstream'
  BY <1>1, <1>2, <1>5 DEF Downstream
<1>13. QED
  BY <1>8, <1>9, <1>10, <1>11, <1>12 DEF RpcInv

\* recv() of some units of the reply.
LEMMA ReceiveKeeps ==
    ASSUME RpcInv, NEW t \in Threads, Receive(t)
    PROVE  RpcInv'
<1>1. WireTypes /\ Threading /\ Silent /\ Upstream /\ Downstream
  BY DEF RpcInv
<1>2. /\ pc[t] = "sending" /\ s2c # <<>>
      /\ in' = Recv(in, s2c).got /\ s2c' = Recv(in, s2c).wire
      /\ UNCHANGED <<pc, req, mutex, out, alive, listening, up, conn, ack, handled, c2s>>
  BY DEF Receive, server
<1>3. mutex = t /\ t # NULL /\ alive
  BY <1>1, <1>2, RequestsAssumption DEF Threading, Silent
<1>4. handled # NULL /\ handled = req[mutex] /\ out = <<>>
  BY <1>1, <1>2, <1>3 DEF Downstream
<1>5. PICK rest : Streams(Reply(handled), <<>>, rest, in, s2c) /\ (up => rest = ack)
  BY <1>1, <1>3, <1>4 DEF Downstream
<1>6. PICK m : m = Reply(handled)
  OBVIOUS
<1>7. Streams(m, <<>>, rest, in', s2c')
  BY <1>2, <1>5, <1>6, StreamRecv
<1>8. Downstream'
  <2>1. m = Reply(handled')
    BY <1>2, <1>6
  <2>2. Streams(Reply(handled'), <<>>, rest, in', s2c') /\ (up' => rest = ack')
    BY <1>2, <1>5, <1>7, <2>1
  <2>3. QED
    BY <1>2, <1>4, <2>2 DEF Downstream
<1>9. WireTypes'
  <2>1. in' \in Seq(Int) /\ s2c' \in Seq(Int)
    BY <1>7 DEF Streams
  <2>2. QED
    BY <1>1, <1>2, <2>1 DEF WireTypes
<1>10. Threading'
  BY <1>1, <1>2 DEF Threading, Setter
<1>11. Silent'
  BY <1>1, <1>2, <1>3 DEF Silent
<1>12. InRoom'
  BY <1>7, StreamArrives DEF InRoom
<1>13. Upstream'
  BY <1>1, <1>2 DEF Upstream, Requested, Setter
<1>14. QED
  BY <1>8, <1>9, <1>10, <1>11, <1>12, <1>13 DEF RpcInv

\* The mutex is released when nothing is on its way for its holder.
LEMMA UnlockKeeps ==
    ASSUME RpcInv, NEW t \in Threads, NEW res, Unlock(t, res), mutex = t,
           s2c = <<>>, up => out = <<>> /\ ack = <<>> /\ Requested = <<>>
    PROVE  RpcInv'
<1>1. WireTypes /\ Threading /\ Silent /\ Upstream /\ InRoom
  BY DEF RpcInv
<1>2. /\ mutex' = NULL /\ out' = <<>> /\ pc' = [pc EXCEPT ![t] = "idle"]
      /\ req' = [req EXCEPT ![t] = NULL]
      /\ UNCHANGED <<in, alive, listening, up, conn, ack, handled, c2s, s2c>>
  BY DEF Unlock, server
<1>3. \A u \in Threads : /\ pc'[u] = IF u = t THEN "idle" ELSE pc[u]
                         /\ req'[u] = IF u = t THEN NULL ELSE req[u]
  BY <1>1, <1>2 DEF WireTypes
<1>4. \A u \in Threads : Setter(u)' => Setter(u) /\ pc'[u] = pc[u]
  BY <1>3 DEF Setter
<1>5. WireTypes'
  BY <1>1, <1>2, EmptySeq DEF WireTypes
<1>6. Threading'
  BY <1>1, <1>2, <1>3, <1>4, RequestsAssumption DEF Threading
<1>7. Silent'
  BY <1>1, <1>2, <1>3 DEF Silent
<1>8. Upstream'
  <2>1. SUFFICES ASSUME up' PROVE Upstream'
    BY DEF Upstream
  <2>2. Requested' = <<>> /\ Requested = <<>> /\ out = <<>>
    BY <1>2, <2>1 DEF Requested
  <2>3. PICK x, y, rest :
           /\ Carries(x, y, rest, conn, c2s)
           /\ alive => /\ rest = out /\ y = Requested
                       /\ x # <<>> => listening /\ \A u \in Threads : Setter(u) => pc[u] = "sending"
    BY <1>1, <1>2, <2>1 DEF Upstream
  <2>4. Carries(x, y, rest, conn', c2s') /\ (alive' => rest = out' /\ y = Requested')
    BY <1>2, <2>2, <2>3
  <2>5. ASSUME alive', x # <<>>
        PROVE  listening' /\ \A u \in Threads : Setter(u)' => pc'[u] = "sending"
    BY <1>2, <1>4, <2>3, <2>5
  <2>6. QED
    BY <2>4, <2>5 DEF Upstream
<1>9. Downstream' /\ InRoom'
  BY <1>1, <1>2 DEF Downstream, InRoom
<1>10. QED
  BY <1>5, <1>6, <1>7, <1>8, <1>9 DEF RpcInv

\* What a thread that returns from media_proxy_once has received.
LEMMA CallReturns ==
    ASSUME RpcInv, NEW t \in Threads, mutex = t, Received(in)
    PROVE  /\ handled # NULL /\ handled = req[t] /\ req[t] \in Requests
           /\ in = Reply(req[t]) /\ s2c = <<>> /\ (up => ack = <<>>)
<1>1. WireTypes /\ Downstream /\ t # NULL
  BY RequestsAssumption DEF RpcInv
<1>2. ~ Received(<<>>)
  BY DEF Received, MEDIA_PARCEL_HEADER_LEN
<1>3. handled # NULL /\ handled = req[t]
  BY <1>1, <1>2 DEF Downstream
<1>4. req[t] \in Requests
  BY <1>1, <1>3 DEF WireTypes
<1>5. PICK rest : Streams(Reply(handled), <<>>, rest, in, s2c) /\ (up => rest = ack)
  BY <1>1, <1>3 DEF Downstream
<1>6. in = Reply(handled) /\ Cat(s2c, rest) = <<>>
  BY <1>5, StreamArrives
<1>7. s2c = <<>> /\ rest = <<>>
  BY <1>5, <1>6, BothEmpty DEF Streams
<1>8. QED
  BY <1>3, <1>4, <1>5, <1>6, <1>7

\* A call returns with its answer, and nothing is left in the socket.
LEMMA ReturnKeeps ==
    ASSUME RpcInv, NEW t \in Threads, Return(t)
    PROVE  RpcInv'
<1>1. Threading /\ Silent /\ Downstream
  BY DEF RpcInv
<1>2. pc[t] = "sending" /\ out = <<>> /\ (req[t] = NULL \/ Received(in))
  BY DEF Return
<1>3. mutex = t /\ t # NULL
  BY <1>1, <1>2, RequestsAssumption DEF Threading
<1>4. s2c = <<>> /\ (up => ack = <<>>) /\ Requested = <<>>
  <2>1. CASE Received(in)
    BY <1>3, <2>1, CallReturns DEF Requested
  <2>2. CASE req[t] = NULL
    <3>1. handled = NULL
      BY <1>1, <1>3, <2>2 DEF Downstream
    <3>2. QED
      BY <1>1, <1>3, <2>2, <3>1 DEF Downstream, Requested
  <2>3. QED
    BY <1>2, <2>1, <2>2
<1>5. PICK res : Unlock(t, res)
  BY DEF Return
<1>6. QED
  BY <1>2, <1>3, <1>4, <1>5, UnlockKeeps

\* A call returns with an error.
LEMMA FailKeeps ==
    ASSUME RpcInv, NEW t \in Threads, Fail(t)
    PROVE  RpcInv'
<1>1. Threading /\ Downstream
  BY DEF RpcInv
<1>2. pc[t] = "sending" /\ ~ up /\ (out # <<>> \/ s2c = <<>>)
  BY DEF Fail
<1>3. mutex = t /\ t # NULL
  BY <1>1, <1>2, RequestsAssumption DEF Threading
<1>4. s2c = <<>>
  BY <1>1, <1>2, <1>3 DEF Downstream
<1>5. PICK res : Unlock(t, res)
  BY DEF Fail
<1>6. QED
  BY <1>2, <1>3, <1>4, <1>5, UnlockKeeps

\* The process of the client ends.
LEMMA DiesKeeps == RpcInv /\ ClientDies => RpcInv'
<1>1. SUFFICES ASSUME RpcInv, ClientDies PROVE RpcInv'
  OBVIOUS
<1>2. /\ ~ alive' /\ mutex' = NULL /\ out' = <<>> /\ in' = <<>> /\ ~ listening' /\ s2c' = <<>>
      /\ pc' = [t \in Threads |-> "idle"] /\ req' = [t \in Threads |-> NULL] /\ alive' = FALSE
      /\ listening' = FALSE
      /\ UNCHANGED <<up, conn, ack, handled, c2s>>
  BY <1>1 DEF ClientDies, server, NoParcel
<1>3. WireTypes'
  BY <1>1, <1>2, EmptySeq DEF RpcInv, WireTypes
<1>4. Threading' /\ Silent' /\ Downstream'
  BY <1>1, <1>2, RequestsAssumption DEF RpcInv, Threading, Setter, Silent, Downstream
<1>5. InRoom'
  BY <1>2, DataLenAssumption DEF InRoom, Room, MEDIA_PARCEL_HEADER_LEN
<1>6. Upstream'
  <2>1. SUFFICES ASSUME up' PROVE Upstream'
    BY DEF Upstream
  <2>2. PICK x, y, rest : Carries(x, y, rest, conn, c2s)
    BY <1>1, <1>2, <2>1 DEF RpcInv, Upstream
  <2>3. Carries(x, y, rest, conn', c2s')
    BY <1>2, <2>2
  <2>4. QED
    BY <1>2, <2>3 DEF Upstream
<1>7. QED
  BY <1>3, <1>4, <1>5, <1>6 DEF RpcInv

\* recv() of some units of a request or an address.
LEMMA ServerReceiveKeeps == RpcInv /\ ServerReceive => RpcInv'
<1>1. SUFFICES ASSUME RpcInv, ServerReceive PROVE RpcInv'
  OBVIOUS
<1>2. WireTypes /\ Threading /\ Silent /\ Upstream /\ Downstream /\ InRoom
  BY <1>1 DEF RpcInv
<1>3. /\ up /\ c2s # <<>> /\ conn' = Recv(conn, c2s).got /\ c2s' = Recv(conn, c2s).wire
      /\ UNCHANGED <<pc, req, mutex, out, in, alive, listening, up, ack, handled, s2c>>
  BY <1>1 DEF ServerReceive, client
<1>4. PICK x, y, rest :
         /\ Carries(x, y, rest, conn, c2s)
         /\ alive => /\ rest = out /\ y = Requested
                     /\ x # <<>> => listening /\ \A t \in Threads : Setter(t) => pc[t] = "sending"
  BY <1>2, <1>3 DEF Upstream
<1>5. Carries(x, y, rest, conn', c2s')
  BY <1>3, <1>4, CarriesRecv
<1>6. Upstream'
  <2>1. Requested' = Requested
    BY <1>3 DEF Requested
  <2>2. alive' => rest = out' /\ y = Requested'
    BY <1>3, <1>4, <2>1
  <2>3. ASSUME alive', x # <<>>
        PROVE  listening' /\ \A t \in Threads : Setter(t)' => pc'[t] = "sending"
    BY <1>3, <1>4, <2>3 DEF Setter
  <2>4. QED
    BY <1>5, <2>2, <2>3 DEF Upstream
<1>7. WireTypes'
  <2>1. conn' \in Seq(Int) /\ c2s' \in Seq(Int)
    BY <1>5 DEF Carries
  <2>2. QED
    BY <1>2, <1>3, <2>1 DEF WireTypes
<1>8. Threading' /\ Silent' /\ Downstream' /\ InRoom'
  BY <1>2, <1>3 DEF Threading, Setter, Silent, Downstream, InRoom
<1>9. QED
  BY <1>6, <1>7, <1>8 DEF RpcInv

\* The stub gives the handler the arguments of the request and sends its answer.
LEMMA Dispatched ==
    ASSUME NEW r \in Requests
    PROVE  /\ StubArgs(Parcel(Sent(r))) = r
           /\ media_parcel_send(media_stub_onreceive(Parcel(Sent(r))), MEDIA_PARCEL_REPLY) = Reply(r)
<1>1. PICK p : p = Parcel(Sent(r))
  OBVIOUS
<1>2. StubArgs(p) = r
  BY <1>1, RequestCarried
<1>3. r.type \in MEDIA_ID_GRAPH .. MEDIA_ID_FOCUS
  BY RequestsAssumption
<1>4. media_stub_onreceive(p) = media_parcel_append_printf(media_parcel_init, <<"i", "s">>,
                                                           <<Handler(r).ret, Handler(r).response>>)
  BY <1>2, <1>3 DEF media_stub_onreceive
<1>5. QED
  BY <1>1, <1>2, <1>4 DEF Reply

\* What the daemon does with the parcel it has: an address leaves the way to the
\* handlers as it is, a request is the one of the thread that waits for it.
LEMMA DispatchCases ==
    ASSUME RpcInv, Dispatch,
           NEW x, NEW y, NEW rest, Carries(x, y, rest, conn, c2s)
    PROVE  \/ /\ x = Notify /\ Carries(<<>>, y, rest, <<>>, c2s)
              /\ handled' = handled /\ ack' = ack
           \/ /\ x = <<>> /\ rest = <<>> /\ c2s = <<>>
              /\ \E r \in Requests : y = Sent(r) /\ handled' = r /\ ack' = Reply(r)
<1>1. Received(conn)
  BY DEF Dispatch
<1>2. CASE x = Notify /\ conn = Notify /\ Carries(<<>>, y, rest, <<>>, c2s)
  <2>1. media_parcel_get_code(Parcel(conn)) # MEDIA_PARCEL_SEND_ACK
    BY <1>2, NotifyFrame DEF MEDIA_PARCEL_SEND_ACK, MEDIA_PARCEL_CREATE_NOTIFY
  <2>2. QED
    BY <1>2, <2>1 DEF Dispatch
<1>3. CASE x = <<>> /\ y # <<>> /\ conn = y /\ rest = <<>> /\ c2s = <<>>
  <2>1. PICK r \in Requests : y = Sent(r)
    BY <1>3, CarriesParts
  <2>2. PICK p : p = Parcel(conn) /\ p = Parcel(Sent(r))
    BY <1>3, <2>1
  <2>3. media_parcel_get_code(p) # MEDIA_PARCEL_CREATE_NOTIFY
    BY <2>2, RequestCarried DEF MEDIA_PARCEL_SEND_ACK, MEDIA_PARCEL_CREATE_NOTIFY
  <2>4. /\ handled' = StubArgs(p)
        /\ ack' = media_parcel_send(media_stub_onreceive(p), MEDIA_PARCEL_REPLY)
    BY <2>2, <2>3 DEF Dispatch
  <2>5. handled' = r /\ ack' = Reply(r)
    BY <2>2, <2>4, Dispatched
  <2>6. QED
    BY <1>3, <2>1, <2>5
<1>4. QED
  BY <1>1, <1>2, <1>3, CarriesReceived

\* With the client alive, the request is that of the thread with the mutex.
LEMMA DispatchServes ==
    ASSUME RpcInv, NEW r \in Requests, Requested = Sent(r)
    PROVE  mutex # NULL /\ mutex \in Threads /\ req[mutex] = r /\ handled = NULL
<1>1. PICK y : y = Sent(r)
  OBVIOUS
<1>2. y # <<>> /\ StubArgs(Parcel(y)) = r
  BY <1>1, RequestCarried, FrameHeader
<1>3. mutex # NULL /\ req[mutex] # NULL /\ handled = NULL /\ y = Sent(req[mutex])
  BY <1>1, <1>2 DEF Requested
<1>4. PICK q \in Requests : q = req[mutex]
  BY <1>3 DEF RpcInv, WireTypes
<1>5. y = Sent(q) /\ StubArgs(Parcel(Sent(q))) = q
  BY <1>3, <1>4, RequestCarried
<1>6. q = r
  BY <1>2, <1>5
<1>7. QED
  BY <1>3, <1>4, <1>6 DEF RpcInv, WireTypes

\* A complete parcel is dispatched.
LEMMA DispatchKeeps == RpcInv /\ Dispatch => RpcInv'
<1>1. SUFFICES ASSUME RpcInv, Dispatch PROVE RpcInv'
  OBVIOUS
<1>2. WireTypes /\ Threading /\ Silent /\ Upstream /\ Downstream /\ InRoom
  BY <1>1 DEF RpcInv
<1>3. /\ up /\ ack = <<>> /\ conn' = <<>>
      /\ UNCHANGED <<pc, req, mutex, out, in, alive, listening, up, c2s, s2c>>
  BY <1>1 DEF Dispatch, client, NoParcel
<1>4. PICK x, y, rest :
         /\ Carries(x, y, rest, conn, c2s)
         /\ alive => /\ rest = out /\ y = Requested
                     /\ x # <<>> => listening /\ \A t \in Threads : Setter(t) => pc[t] = "sending"
  BY <1>2, <1>3 DEF Upstream
<1>5. Threading' /\ InRoom'
  BY <1>2, <1>3 DEF Threading, Setter, InRoom
<1>6. CASE Carries(<<>>, y, rest, <<>>, c2s) /\ handled' = handled /\ ack' = ack
  <2>1. Upstream'
    <3>1. Requested' = Requested
      BY <1>3, <1>6 DEF Requested
    <3>2. Carries(<<>>, y, rest, conn', c2s')
      BY <1>3, <1>6
    <3>3. alive' => rest = out' /\ y = Requested'
      BY <1>3, <1>4, <3>1
    <3>4. QED
      BY <3>2, <3>3 DEF Upstream
  <2>2. WireTypes'
    BY <1>2, <1>3, <1>6, EmptySeq DEF WireTypes
  <2>3. Silent' /\ Downstream'
    BY <1>2, <1>3, <1>6 DEF Silent, Downstream
  <2>4. QED
    BY <1>5, <2>1, <2>2, <2>3 DEF RpcInv
<1>7. ASSUME rest = <<>>, c2s = <<>>,
             NEW r \in Requests, y = Sent(r), handled' = r, ack' = Reply(r)
      PROVE  RpcInv'
  <2>1. r # NULL
    BY RequestsAssumption
  <2>2. PICK m : m = Reply(r) /\ IsFrame(m)
    BY ReplyCarried
  <2>3. m \in Seq(Int)
    BY <2>2, FrameHeader
  <2>4. WireTypes'
    BY <1>2, <1>3, <1>7, <2>2, <2>3, EmptySeq DEF WireTypes
  <2>5. ASSUME alive PROVE mutex # NULL /\ req[mutex] = r /\ handled = NULL /\ out = <<>>
    BY <1>1, <1>4, <1>7, <2>5, DispatchServes
  <2>6. alive \/ mutex = NULL
    BY <1>2 DEF Silent
  <2>7. Silent'
    BY <1>2, <1>3, <2>5 DEF Silent
  <2>8. Upstream'
    <3>1. Carries(<<>>, <<>>, <<>>, conn', c2s')
      BY <1>3, <1>7, CarriesNothing
    <3>2. Requested' = <<>> /\ (alive' => out' = <<>>)
      BY <1>3, <1>7, <2>1, <2>5 DEF Requested
    <3>3. QED
      BY <3>1, <3>2 DEF Upstream
  <2>9. Downstream'
    <3>1. CASE alive
      <4>1. in = <<>> /\ s2c = <<>>
        BY <1>2, <2>5, <3>1 DEF Downstream
      <4>2. Streams(m, <<>>, m, <<>>, <<>>)
        <5>1. Cat(Cat(<<>>, <<>>), m) = Cat(m, <<>>)
          BY <2>3, CatNothing, EmptySeq
        <5>2. Len(m) \in Nat
          BY <2>3, LenProperties
        <5>3. QED
          BY <2>2, <2>3, <5>1, <5>2, EmptySeq DEF Streams
      <4>3. Streams(Reply(handled'), <<>>, m, in', s2c') /\ (up' => m = ack')
        BY <1>3, <1>7, <2>2, <4>1, <4>2
      <4>4. handled' = req'[mutex'] /\ out' = <<>> /\ handled' # NULL
        BY <1>3, <1>7, <2>1, <2>5, <3>1
      <4>5. QED
        BY <4>3, <4>4 DEF Downstream
    <3>2. CASE mutex = NULL
      BY <1>3, <3>2 DEF Downstream
    <3>3. QED
      BY <2>6, <3>1, <3>2
  <2>10. QED
    BY <1>5, <2>4, <2>7, <2>8, <2>9 DEF RpcInv
<1>8. QED
  BY <1>1, <1>4, <1>6, <1>7, DispatchCases

\* send() of some units of the reply.
LEMMA ServerSendKeeps == RpcInv /\ ServerSend => RpcInv'
<1>1. SUFFICES ASSUME RpcInv, ServerSend PROVE RpcInv'
  OBVIOUS
<1>2. WireTypes /\ Threading /\ Silent /\ Upstream /\ Downstream /\ InRoom
  BY <1>1 DEF RpcInv
<1>3. /\ up /\ ack # <<>>
      /\ UNCHANGED <<pc, req, mutex, out, in, alive, listening, up, conn, handled, c2s>>
  BY <1>1 DEF ServerSend, client
<1>4. Threading' /\ InRoom' /\ Upstream'
  BY <1>2, <1>3 DEF Threading, Setter, InRoom, Upstream, Requested
<1>5. CASE ~ alive
  <2>1. ack' = <<>> /\ s2c' = s2c
    BY <1>1, <1>5 DEF ServerSend
  <2>2. WireTypes' /\ Silent' /\ Downstream'
    BY <1>2, <1>3, <1>5, <2>1, EmptySeq DEF WireTypes, Silent, Downstream
  <2>3. QED
    BY <1>4, <2>2 DEF RpcInv
<1>6. CASE alive
  <2>1. PICK n : Posted(ack, s2c, n, ack', s2c')
    <3>1. PICK n \in Sizes(ack, s2c) :
             s2c' = s2c \o SubSeq(ack, 1, n) /\ ack' = SubSeq(ack, n + 1, Len(ack))
      BY <1>1, <1>6 DEF ServerSend
    <3>2. QED
      BY <3>1 DEF Posted, Cat, Sizes
  <2>2. mutex # NULL
    BY <1>2, <1>3, <1>6 DEF Silent
  <2>3. handled # NULL /\ handled = req[mutex] /\ out = <<>>
    BY <1>2, <1>3, <2>2 DEF Downstream
  <2>4. PICK m : m = Reply(handled) /\ Streams(m, <<>>, ack, in, s2c)
    BY <1>2, <1>3, <2>2, <2>3 DEF Downstream
  <2>5. /\ IsFrame(m) /\ ack \in Seq(Int) /\ in \in Seq(Int) /\ s2c \in Seq(Int)
        /\ Cat(Cat(in, s2c), ack) = Cat(m, <<>>) /\ Len(in) <= Len(m)
    BY <2>4 DEF Streams
  <2>6. PICK o, w : o = ack' /\ w = s2c' /\ Posted(ack, s2c, n, o, w)
    BY <2>1
  <2>7. w \in Seq(Int) /\ o \in Seq(Int) /\ Cat(Cat(in, w), o) = Cat(Cat(in, s2c), ack)
    BY <2>5, <2>6, StreamSend
  <2>8. Streams(m, <<>>, o, in, w)
    BY <2>5, <2>7, EmptySeq DEF Streams
  <2>9. Downstream'
    <3>1. Streams(Reply(handled'), <<>>, o, in', s2c') /\ (up' => o = ack')
      BY <1>3, <2>4, <2>6, <2>8
    <3>2. QED
      BY <1>3, <2>2, <2>3, <3>1 DEF Downstream
  <2>10. WireTypes'
    BY <1>2, <1>3, <2>6, <2>7 DEF WireTypes
  <2>11. Silent'
    BY <1>2, <1>3, <1>6, <2>2 DEF Silent
  <2>12. QED
    BY <1>4, <2>9, <2>10, <2>11 DEF RpcInv
<1>7. QED
  BY <1>5, <1>6

\* The entry of the connection is closed and used for the next client.
LEMMA ReacceptKeeps == RpcInv /\ Reaccept => RpcInv'
<1>1. SUFFICES ASSUME RpcInv, Reaccept PROVE RpcInv'
  OBVIOUS
<1>2. WireTypes /\ Threading /\ Silent /\ Downstream /\ InRoom
  BY <1>1 DEF RpcInv
<1>3. /\ up /\ ~ alive /\ alive' = TRUE /\ ack = <<>> /\ conn' = <<>> /\ c2s' = <<>>
      /\ UNCHANGED <<pc, req, mutex, out, in, listening, s2c, up, ack, handled>>
  BY <1>1 DEF Reaccept, NoParcel
<1>4. mutex = NULL /\ out = <<>> /\ ~ listening
  BY <1>2, <1>3 DEF Silent
<1>5. WireTypes'
  BY <1>2, <1>3, EmptySeq DEF WireTypes
<1>6. Threading' /\ Silent' /\ Downstream' /\ InRoom'
  BY <1>2, <1>3, <1>4 DEF Threading, Setter, Silent, Downstream, InRoom
<1>7. Upstream'
  <2>1. Carries(<<>>, <<>>, <<>>, conn', c2s')
    BY <1>3, CarriesNothing
  <2>2. Requested' = <<>> /\ out' = <<>>
    BY <1>3, <1>4 DEF Requested
  <2>3. QED
    BY <2>1, <2>2 DEF Upstream
<1>8. QED
  BY <1>5, <1>6, <1>7 DEF RpcInv

\* The daemon ends.
LEMMA ServerEndsKeeps == RpcInv /\ ServerEnds => RpcInv'
<1>1. SUFFICES ASSUME RpcInv, ServerEnds PROVE RpcInv'
  OBVIOUS
<1>2. WireTypes /\ Threading /\ Silent /\ Downstream /\ InRoom
  BY <1>1 DEF RpcInv
<1>3. /\ up' = FALSE /\ conn' = <<>> /\ ack' = <<>> /\ c2s' = <<>>
      /\ UNCHANGED <<pc, req, mutex, out, in, alive, listening, s2c, handled>>
  BY <1>1 DEF ServerEnds, client, NoParcel
<1>4. WireTypes'
  BY <1>2, <1>3, EmptySeq DEF WireTypes
<1>5. Threading' /\ Silent' /\ InRoom' /\ Upstream'
  BY <1>2, <1>3 DEF Threading, Setter, Silent, InRoom, Upstream
<1>6. Downstream'
  BY <1>2, <1>3 DEF Downstream
<1>7. QED
  BY <1>4, <1>5, <1>6 DEF RpcInv

\* Every step keeps the invariant.
LEMMA RpcStep == RpcInv /\ [Next]_vars => RpcInv'
<1>1. SUFFICES ASSUME RpcInv, [Next]_vars PROVE RpcInv'
  OBVIOUS
<1>2. CASE UNCHANGED vars
  <2>1. UNCHANGED <<pc, req, mutex, out, in, c2s, s2c, alive, listening, up, conn, ack, handled>>
    BY <1>2 DEF vars, client, server
  <2>2. WireTypes' /\ Threading' /\ Silent' /\ Upstream' /\ Downstream' /\ InRoom'
    BY <1>1, <2>1 DEF RpcInv, WireTypes, Threading, Setter, Silent, Upstream, Requested, Downstream, InRoom
  <2>3. QED
    BY <2>2 DEF RpcInv
<1>3. ASSUME NEW t \in Threads, NEW r \in Requests, media_proxy_once(t, r) PROVE RpcInv'
  BY <1>1, <1>3, CallKeeps
<1>4. ASSUME NEW t \in Threads, media_proxy_set_event_cb(t) PROVE RpcInv'
  BY <1>1, <1>4, ListenKeeps
<1>5. ASSUME NEW t \in Threads, Thread(t) PROVE RpcInv'
  BY <1>1, <1>5, LockKeeps, SendKeeps, ReceiveKeeps, ReturnKeeps, FailKeeps DEF Thread
<1>6. CASE Daemon
  BY <1>1, <1>6, ServerReceiveKeeps, DispatchKeeps, ServerSendKeeps, ReacceptKeeps DEF Daemon
<1>7. CASE ClientDies \/ ServerEnds
  BY <1>1, <1>7, DiesKeeps, ServerEndsKeeps
<1>8. QED
  BY <1>1, <1>2, <1>3, <1>4, <1>5, <1>6, <1>7 DEF Next

\* The invariant of the connection holds, for every number of threads, every
\* request and every size of the sockets.
THEOREM RpcInvariant == Spec => []RpcInv
BY RpcInit, RpcStep, PTL DEF Spec

\* The invariant bounds what parcels hold.
LEMMA RpcInvInBounds == RpcInv => InBounds
<1>1. SUFFICES ASSUME RpcInv PROVE InBounds
  OBVIOUS
<1>2. Len(in) <= MEDIA_PARCEL_HEADER_LEN + Room(in)
  BY <1>1 DEF RpcInv, InRoom
<1>3. Len(conn) <= MEDIA_PARCEL_HEADER_LEN + Room(conn)
  <2>1. CASE up
    <3>1. PICK x, y, rest : Carries(x, y, rest, conn, c2s)
      BY <1>1, <2>1 DEF RpcInv, Upstream
    <3>2. QED
      BY <3>1, CarriesRoom
  <2>2. CASE ~ up
    <3>1. conn = <<>>
      BY <1>1, <2>2 DEF RpcInv, Silent
    <3>2. QED
      BY <3>1, DataLenAssumption DEF Room, MEDIA_PARCEL_HEADER_LEN
  <2>3. QED
    BY <2>1, <2>2
<1>4. ASSUME NEW t \in Threads, req[t] # NULL
      PROVE  Len(InParcel(req[t]).chunk) <= MEDIA_PARCEL_HEADER_LEN + InParcel(req[t]).cap
  <2>1. PICK r \in Requests : r = req[t]
    BY <1>1, <1>4 DEF RpcInv, WireTypes
  <2>2. PICK p : p = InParcel(r) /\ Whole(p)
    BY RequestCarried
  <2>3. Len(p.chunk) <= MEDIA_PARCEL_HEADER_LEN + p.cap
    <3>1. /\ p.chunk \in Seq(Int) /\ p.cap \in Nat /\ p.chunk[2] = Len(p.chunk) - 2
          /\ p.chunk[2] <= p.cap
      BY <2>2 DEF Whole
    <3>2. Len(p.chunk) \in Nat
      BY <3>1, LenProperties
    <3>3. QED
      BY <3>1, <3>2 DEF MEDIA_PARCEL_HEADER_LEN
  <2>4. QED
    BY <2>1, <2>2, <2>3
<1>5. QED
  BY <1>2, <1>3, <1>4 DEF InBounds

\* No parcel is written beyond its memory (media_parcel_grow), neither when it is
\* put together nor when it arrives in pieces.
THEOREM RpcInBounds == Spec => []InBounds
BY RpcInvariant, RpcInvInBounds, PTL

-----------------------------------------------------------------------------

\* The variable of ProxyCall under the refinement mapping.
Served == [t \in Threads |-> IF mutex = t /\ req[t] # NULL THEN handled ELSE NULL]

\* A call of media_proxy_once is a call.
LEMMA CallRefines ==
    ASSUME RpcInv, NEW t \in Threads, NEW r \in Requests, media_proxy_once(t, r)
    PROVE  Abstract!Call(t, r)
<1>1. WireTypes /\ Threading
  BY DEF RpcInv
<1>2. /\ pc[t] = "idle" /\ req' = [req EXCEPT ![t] = r]
      /\ result' = [result EXCEPT ![t] = NULL] /\ UNCHANGED <<mutex, handled>>
  BY DEF media_proxy_once, server
<1>3. req[t] = NULL /\ mutex # t
  BY <1>1, <1>2, RequestsAssumption DEF Threading
<1>4. \A u \in Threads : req'[u] = IF u = t THEN r ELSE req[u]
  BY <1>1, <1>2 DEF WireTypes
<1>5. Served' = Served
  BY <1>2, <1>3, <1>4 DEF Served
<1>6. QED
  BY <1>2, <1>3, <1>5 DEF Abstract!Call, Served

\* The mutex has been free: nothing is served before and after.
LEMMA LockRefines ==
    ASSUME RpcInv, NEW t \in Threads, Lock(t)
    PROVE  UNCHANGED Abstract!vars
<1>1. mutex = NULL /\ mutex' = t /\ handled' = NULL /\ UNCHANGED <<req, result>>
  BY DEF Lock
<1>2. Served = [u \in Threads |-> NULL] /\ Served' = [u \in Threads |-> NULL]
  BY <1>1, RequestsAssumption DEF Served
<1>3. QED
  BY <1>1, <1>2 DEF Abstract!vars, Served

\* The variables of ProxyCall when the mutex is released.
LEMMA UnlockRefines ==
    ASSUME RpcInv, NEW t \in Threads, mutex = t, NEW res, Unlock(t, res)
    PROVE  /\ req[t] = NULL => UNCHANGED Abstract!vars
           /\ req[t] # NULL => /\ req' = [req EXCEPT ![t] = NULL]
                               /\ result' = [result EXCEPT ![t] = res]
                               /\ Served[t] = handled
                               /\ Served' = [Served EXCEPT ![t] = NULL]
<1>1. /\ mutex' = NULL /\ req' = [req EXCEPT ![t] = NULL]
      /\ result' = IF req[t] = NULL THEN result ELSE [result EXCEPT ![t] = res]
  BY DEF Unlock
<1>2. req \in [Threads -> Requests \cup {NULL}]
  BY DEF RpcInv, WireTypes
<1>3. Served' = [u \in Threads |-> NULL]
  BY <1>1, RequestsAssumption DEF Served
<1>4. \A u \in Threads : u # t => Served[u] = NULL
  BY DEF Served
<1>5. ASSUME req[t] = NULL PROVE UNCHANGED Abstract!vars
  <2>1. req' = req /\ result' = result
    BY <1>1, <1>2, <1>5
  <2>2. Served' = Served
    BY <1>3, <1>5 DEF Served
  <2>3. QED
    BY <2>1, <2>2 DEF Abstract!vars, Served
<1>6. ASSUME req[t] # NULL
      PROVE  Served[t] = handled /\ Served' = [Served EXCEPT ![t] = NULL]
  <2>1. Served[t] = handled
    BY <1>6 DEF Served
  <2>2. QED
    BY <1>3, <1>4, <2>1 DEF Served
<1>7. QED
  BY <1>1, <1>5, <1>6

\* A call that returns has its own answer; media_proxy_set_event_cb is no call.
LEMMA ReturnRefines ==
    ASSUME RpcInv, NEW t \in Threads, Return(t)
    PROVE  Abstract!Return(t) \/ UNCHANGED Abstract!vars
<1>1. mutex = t
  BY DEF RpcInv, Threading, Return
<1>2. PICK res : /\ Unlock(t, res)
                 /\ req[t] # NULL => Received(in) /\ res = ReadReply(Parcel(in), req[t].res_len)
  BY DEF Return
<1>3. CASE req[t] = NULL
  BY <1>1, <1>2, <1>3, UnlockRefines
<1>4. CASE req[t] # NULL
  <2>1. PICK r \in Requests : r = req[t] /\ handled = r /\ in = Reply(r)
    BY <1>1, <1>2, <1>4, CallReturns
  <2>2. res = CallAnswer(r)
    BY <1>2, <1>4, <2>1, ReplyCarried
  <2>3. /\ req' = [req EXCEPT ![t] = NULL] /\ result' = [result EXCEPT ![t] = res]
        /\ Served[t] = handled /\ Served' = [Served EXCEPT ![t] = NULL]
    BY <1>1, <1>2, <1>4, UnlockRefines
  <2>4. result' = [result EXCEPT ![t] = CallAnswer(req[t])]
    BY <2>1, <2>2, <2>3
  <2>5. Abstract!Return(t)
    BY <1>4, <2>1, <2>3, <2>4 DEF Abstract!Return, Served
  <2>6. QED
    BY <2>5
<1>5. QED
  BY <1>3, <1>4

\* A call that fails returns the error.
LEMMA FailRefines ==
    ASSUME RpcInv, NEW t \in Threads, Fail(t)
    PROVE  Abstract!Fail(t) \/ UNCHANGED Abstract!vars
<1>1. mutex = t
  BY DEF RpcInv, Threading, Fail
<1>2. Unlock(t, [ret |-> EPIPE, res |-> NULL])
  BY DEF Fail
<1>3. CASE req[t] = NULL
  BY <1>1, <1>2, <1>3, UnlockRefines
<1>4. CASE req[t] # NULL
  <2>1. PICK res : res = [ret |-> EPIPE, res |-> NULL] /\ Unlock(t, res)
    BY <1>2
  <2>2. /\ req' = [req EXCEPT ![t] = NULL] /\ result' = [result EXCEPT ![t] = res]
        /\ Served' = [Served EXCEPT ![t] = NULL]
    BY <1>1, <1>4, <2>1, UnlockRefines
  <2>3. QED
    BY <1>4, <2>1, <2>2 DEF Abstract!Fail, Served
<1>5. QED
  BY <1>3, <1>4

\* The handler of a request is given the arguments of the call that waits for it;
\* a request of a client that died, or an address, is no service of a call.
LEMMA DispatchRefines ==
    ASSUME RpcInv, Dispatch
    PROVE  (\E t \in Threads : Abstract!Serve(t)) \/ UNCHANGED Abstract!vars
<1>1. WireTypes /\ Silent
  BY DEF RpcInv
<1>2. up /\ UNCHANGED <<mutex, req, result>>
  BY DEF Dispatch, client
<1>3. PICK x, y, rest : Carries(x, y, rest, conn, c2s) /\ (alive => y = Requested)
  BY <1>2 DEF RpcInv, Upstream
<1>4. CASE handled' = handled
  <2>1. Served' = Served
    BY <1>2, <1>4 DEF Served
  <2>2. QED
    BY <1>2, <2>1 DEF Abstract!vars, Served
<1>5. CASE mutex = NULL
  <2>1. Served' = Served
    BY <1>2, <1>5, RequestsAssumption DEF Served
  <2>2. QED
    BY <1>2, <2>1 DEF Abstract!vars, Served
<1>6. ASSUME alive, NEW r \in Requests, y = Sent(r), handled' = r
      PROVE  \E t \in Threads : Abstract!Serve(t)
  <2>1. PICK t \in Threads : mutex = t /\ req[t] = r /\ handled = NULL
    BY <1>3, <1>6, DispatchServes
  <2>2. r # NULL
    BY RequestsAssumption
  <2>3. Served[t] = NULL
    BY <2>1 DEF Served
  <2>4. Served' = [Served EXCEPT ![t] = req[t]]
    BY <1>2, <1>6, <2>1, <2>2 DEF Served
  <2>5. Abstract!Serve(t)
    BY <1>2, <2>1, <2>2, <2>3, <2>4 DEF Abstract!Serve, Served
  <2>6. QED
    BY <2>5
<1>7. alive \/ mutex = NULL
  BY <1>1 DEF Silent
<1>8. handled' = handled \/ \E r \in Requests : y = Sent(r) /\ handled' = r
  BY <1>3, DispatchCases
<1>9. QED
  BY <1>4, <1>5, <1>6, <1>7, <1>8

\* The process that takes the place of one that died has made no call.
LEMMA DiesRefines == ClientDies => Abstract!Restart
<1>1. SUFFICES ASSUME ClientDies PROVE Abstract!Restart
  OBVIOUS
<1>2. /\ mutex' = NULL /\ req' = [t \in Threads |-> NULL] /\ result' = [t \in Threads |-> NULL]
  BY <1>1 DEF ClientDies
<1>3. Served' = [t \in Threads |-> NULL]
  BY <1>2 DEF Served
<1>4. QED
  BY <1>2, <1>3 DEF Abstract!Restart, Served

\* Steps about units, and not about calls.
LEMMA RestRefines == UNCHANGED <<req, mutex, handled, result>> => UNCHANGED Abstract!vars
BY DEF Abstract!vars

\* A new connection is one without calls.
LEMMA RpcRefinesInit == Init => Abstract!Init
<1>1. SUFFICES ASSUME Init PROVE Abstract!Init
  OBVIOUS
<1>2. /\ req = [t \in Threads |-> NULL] /\ result = [t \in Threads |-> NULL] /\ handled = NULL
  BY <1>1 DEF Init, Fresh
<1>3. Served = [t \in Threads |-> NULL]
  BY <1>2 DEF Served
<1>4. QED
  BY <1>2, <1>3 DEF Abstract!Init, Served

\* Every step of the connection is a step of ProxyCall or none.
LEMMA RpcRefinesStep == RpcInv /\ [Next]_vars => [Abstract!Next]_(Abstract!vars)
<1>1. SUFFICES ASSUME RpcInv, [Next]_vars PROVE Abstract!Next \/ UNCHANGED Abstract!vars
  OBVIOUS
<1>2. CASE UNCHANGED <<req, mutex, handled, result>>
  BY <1>2, RestRefines
<1>3. ASSUME NEW t \in Threads, NEW r \in Requests, media_proxy_once(t, r) PROVE Abstract!Next
  BY <1>1, <1>3, CallRefines DEF Abstract!Next
<1>4. ASSUME NEW t \in Threads, media_proxy_set_event_cb(t) \/ Send(t) \/ Receive(t)
      PROVE  UNCHANGED <<req, mutex, handled, result>>
  BY <1>4 DEF media_proxy_set_event_cb, Send, Receive, server
<1>5. ASSUME NEW t \in Threads, Lock(t) PROVE UNCHANGED Abstract!vars
  BY <1>1, <1>5, LockRefines
<1>6. ASSUME NEW t \in Threads, Return(t) PROVE Abstract!Next \/ UNCHANGED Abstract!vars
  BY <1>1, <1>6, ReturnRefines DEF Abstract!Next
<1>7. ASSUME NEW t \in Threads, Fail(t) PROVE Abstract!Next \/ UNCHANGED Abstract!vars
  BY <1>1, <1>7, FailRefines DEF Abstract!Next
<1>8. CASE Dispatch
  BY <1>1, <1>8, DispatchRefines DEF Abstract!Next
<1>9. CASE ClientDies
  BY <1>9, DiesRefines DEF Abstract!Next
<1>10. CASE ServerReceive \/ ServerSend \/ Reaccept \/ ServerEnds
  <2>1. UNCHANGED <<req, mutex, handled, result>>
    BY <1>10 DEF ServerReceive, ServerSend, Reaccept, ServerEnds, client
  <2>2. QED
    BY <1>2, <2>1
<1>11. CASE UNCHANGED vars
  <2>1. UNCHANGED <<req, mutex, handled, result>>
    BY <1>11 DEF vars, client, server
  <2>2. QED
    BY <1>2, <2>1
<1>12. QED
  BY <1>1, <1>2, <1>3, <1>4, <1>5, <1>6, <1>7, <1>8, <1>9, <1>10, <1>11 DEF Next, Thread, Daemon

\* However the sockets cut parcels into pieces, however threads compete for the
\* connection and whoever ends in between, media_proxy_once behaves as a procedure
\* call: at most one service with the arguments of the call, and its own answer or
\* an error.  (That every call returns is left to TLC.)
THEOREM RpcRefines == Spec => Abstract!Init /\ [][Abstract!Next]_(Abstract!vars)
BY RpcInvariant, RpcRefinesInit, RpcRefinesStep, PTL DEF Spec
=============================================================================
