----------------------------- MODULE MediaParcel -----------------------------
(***************************************************************************)
(* utils/media_parcel.c: parcels, as operators on a parcel's memory.       *)
(*                                                                         *)
(* A parcel is a header (code and length) and a payload into which values  *)
(* are appended one behind the other.  The model counts in units: an       *)
(* integer, a character and each of the two words of the header take one.  *)
(* A string is a sequence of positive numbers and ends with a zero, as an  *)
(* integer may look like a character, and the other way round.             *)
(***************************************************************************)
EXTENDS MediaDefs, Sequences

CONSTANT MEDIA_PARCEL_DATA_LEN  \* units of a parcel that needs no malloc

ASSUME DataLenAssumption == MEDIA_PARCEL_DATA_LEN \in Nat \ {0}

MEDIA_PARCEL_HEADER_LEN == 2

MEDIA_PARCEL_SEND == 1
MEDIA_PARCEL_SEND_ACK == 2
MEDIA_PARCEL_REPLY == 3
MEDIA_PARCEL_CREATE_NOTIFY == 4

\* chunk: header and payload as far as they are filled; next: the reading
\* position in the payload; cap: room for the payload.
media_parcel_init == [chunk |-> <<0, 0>>, next |-> 0, cap |-> MEDIA_PARCEL_DATA_LEN]

Payload(p) == SubSeq(p.chunk, MEDIA_PARCEL_HEADER_LEN + 1, Len(p.chunk))
media_parcel_get_code(p) == p.chunk[1]
ChunkLen(p) == p.chunk[2]

\* The room after media_parcel_grow by "size": doubled when that is enough.
\* A mutant: the test and the new size forget what the payload already holds.
GrowForNewOnly(p, size) == IF size <= p.cap THEN p.cap ELSE 2 * p.cap
media_parcel_grow(p, size) ==
    LET newsz == size + ChunkLen(p)
    IN  IF newsz <= p.cap THEN p.cap
        ELSE IF newsz <= 2 * p.cap THEN 2 * p.cap
        ELSE newsz

-----------------------------------------------------------------------------
(* Writing and reading                                                     *)

\* Op(s, c), with s evaluated once: Op uses it in many places.
Step(Op(_, _), s, c) == CHOOSE r \in {Op(v, c) : v \in {s}} : TRUE

media_parcel_append(p, units) ==
    [chunk |-> [p.chunk EXCEPT ![2] = @ + Len(units)] \o units,
     next |-> p.next,
     cap |-> media_parcel_grow(p, Len(units))]

media_parcel_append_string(p, str) ==
    media_parcel_append(p, Append(IF str = NULL THEN <<>> ELSE str, 0))

media_parcel_append_int32(p, val) == media_parcel_append(p, <<val>>)

\* A format is a sequence of "i" and "s".
media_parcel_append_printf(p, fmt, args) ==
    LET One(q, k) == IF fmt[k] = "i" THEN media_parcel_append_int32(q, args[k])
                     ELSE media_parcel_append_string(q, args[k])
        printed[k \in 0 .. Len(fmt)] == IF k = 0 THEN p ELSE Step(One, printed[k - 1], k)
    IN  printed[Len(fmt)]

\* What media_parcel_read_string finds at p.next: no zero, no string; and the
\* empty string is returned as NULL too.
StringEnds(p) == {k \in p.next + 1 .. Len(Payload(p)) : Payload(p)[k] = 0}
media_parcel_read_string(p) ==
    LET end == CHOOSE k \in StringEnds(p) : \A j \in StringEnds(p) : k <= j
    IN  IF StringEnds(p) = {} THEN [parcel |-> p, val |-> NULL]
        ELSE [parcel |-> [p EXCEPT !.next = end],
              val |-> IF end = p.next + 1 THEN NULL ELSE SubSeq(Payload(p), p.next + 1, end - 1)]

\* media_parcel_copy fails beyond the end; the caller's variable keeps its zero.
media_parcel_read_int32(p) ==
    IF p.next + 1 > ChunkLen(p) THEN [parcel |-> p, ret |-> ENOSPC, val |-> 0]
    ELSE [parcel |-> [p EXCEPT !.next = @ + 1], ret |-> 0, val |-> Payload(p)[p.next + 1]]

\* Values for the whole format; after a failure the rest is not read.
ScanOne(s, c) ==
    LET i == media_parcel_read_int32(s.parcel)
        t == media_parcel_read_string(s.parcel)
    IN  IF s.ret < 0 THEN [s EXCEPT !.vals = Append(@, IF c = "i" THEN 0 ELSE NULL)]
        ELSE IF c = "i"
        THEN [parcel |-> i.parcel, ret |-> i.ret, vals |-> Append(s.vals, i.val)]
        ELSE [parcel |-> t.parcel, ret |-> 0, vals |-> Append(s.vals, t.val)]
media_parcel_read_scanf(p, fmt) ==
    LET scanned[k \in 0 .. Len(fmt)] ==
            IF k = 0 THEN [parcel |-> p, ret |-> 0, vals |-> <<>>]
            ELSE Step(ScanOne, scanned[k - 1], fmt[k])
    IN  scanned[Len(fmt)]

-----------------------------------------------------------------------------
(* On a socket                                                             *)

\* media_parcel_send: the units it writes for a parcel.
media_parcel_send(p, code) == [p.chunk EXCEPT ![1] = code]

\* What media_parcel_recv asks recv() for when "got" has arrived: the rest of
\* the header, then the rest of the payload, never a unit of the next parcel.
Want(got) ==
    IF Len(got) < MEDIA_PARCEL_HEADER_LEN THEN MEDIA_PARCEL_HEADER_LEN - Len(got)
    ELSE MEDIA_PARCEL_HEADER_LEN + got[2] - Len(got)

\* offset = len ends the loop.
Received(got) == Len(got) >= MEDIA_PARCEL_HEADER_LEN /\ Want(got) = 0

\* The room while a parcel arrives: it grows when the header is complete, by
\* the length the header says, counted twice.
Room(got) ==
    IF Len(got) < MEDIA_PARCEL_HEADER_LEN THEN MEDIA_PARCEL_DATA_LEN
    ELSE media_parcel_grow([media_parcel_init EXCEPT !.chunk = got], got[2])

\* The parcel that has arrived.
Parcel(got) == [chunk |-> got, next |-> 0, cap |-> Room(got)]

\* recv() of what the socket holds and no more than was asked for.
\* "got" after it, and what is left in the socket.
Recv(got, wire) ==
    LET n == IF Want(got) < Len(wire) THEN Want(got) ELSE Len(wire)
    IN  [got |-> got \o SubSeq(wire, 1, n), wire |-> SubSeq(wire, n + 1, Len(wire))]
=============================================================================
