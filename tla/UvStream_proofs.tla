--------------------------- MODULE UvStream_proofs ---------------------------
(***************************************************************************)
(* The asynchronous player or recorder outlives the objects beside it, and *)
(* calls the application as often as it should, for any number of          *)
(* listeners, focus requests, prepares and calls.                          *)
(*                                                                         *)
(* The C functions are operators from a stream t to the stream r they      *)
(* leave.  The first part says what each of the small ones changes, the    *)
(* second what all of them keep, the third that every action does.         *)
(***************************************************************************)
EXTENDS UvStream, SequenceTheorems, FiniteSetTheorems, TLAPS

\* Groups of fields that r has from t.
Aside(r, t) ==
    /\ r.kind = t.kind /\ r.prepared = t.prepared /\ r.dialed = t.dialed
    /\ r.calls = t.calls /\ r.volumes = t.volumes /\ r.lost = t.lost /\ r.bad = t.bad
Life(r, t) ==
    /\ r.link = t.link /\ r.closing = t.closing /\ r.closed = t.closed
    /\ r.freed = t.freed /\ r.expected = t.expected
SamePipe(r, t) == r.pipe = t.pipe /\ r.on_connection = t.on_connection /\ r.told = t.told
SameFocus(r, t) == r.focus = t.focus /\ r.focuses = t.focuses

\* Focus r is e without its stream.
Detached(r, e) ==
    /\ r \in FocusType /\ r.phase = e.phase /\ r.on_play = e.on_play /\ r.told = e.told
    /\ r.stream = FALSE

\* A request is put behind the others, or nothing changes.
LEMMA SendEffect ==
    ASSUME NEW t \in StreamType, NEW x \in Requests, NEW r, r = media_uv_stream_send(t, x)
    PROVE  /\ r \in StreamType
           /\ Aside(r, t) /\ Life(r, t) /\ SamePipe(r, t) /\ SameFocus(r, t)
           /\ r.listeners = t.listeners
           /\ r.q = IF Refuses(t) THEN t.q ELSE Append(t.q, x)
<1>1. CASE Refuses(t)
  <2>1. r = t
    BY <1>1 DEF media_uv_stream_send
  <2>2. QED
    BY <1>1, <2>1 DEF Aside, Life, SamePipe, SameFocus
<1>2. CASE ~ Refuses(t)
  <2>1. PICK q \in Seq(Requests) : q = Append(t.q, x)
    <3>1. t.q \in Seq(Requests)
      BY DEF StreamType
    <3>2. Append(t.q, x) \in Seq(Requests)
      BY <3>1, AppendProperties
    <3>3. QED
      BY <3>2
  <2>2. r = [t EXCEPT !.q = q]
    BY <1>2, <2>1 DEF media_uv_stream_send
  <2>3. /\ r \in StreamType
        /\ Aside(r, t) /\ Life(r, t) /\ SamePipe(r, t) /\ SameFocus(r, t)
        /\ r.listeners = t.listeners /\ r.q = q
    BY <2>2 DEF StreamType, Aside, Life, SamePipe, SameFocus
  <2>4. QED
    BY <1>2, <2>1, <2>3
<1>3. QED
  BY <1>1, <1>2

\* The prepare that waits is called, if there is one.
LEMMA ClosePipeEffect ==
    ASSUME NEW t \in StreamType, NEW r, r = media_uv_stream_close_pipe(t)
    PROVE  /\ r \in StreamType
           /\ Aside(r, t) /\ Life(r, t) /\ SameFocus(r, t)
           /\ r.listeners = t.listeners /\ r.q = t.q
           /\ r.pipe = FALSE /\ r.on_connection = NULL
           /\ \A n \in Prepares : r.told[n] = IF n = t.on_connection THEN t.told[n] + 1 ELSE t.told[n]
<1>1. CASE t.on_connection = NULL
  <2>1. r = [t EXCEPT !.pipe = FALSE]
    BY <1>1 DEF media_uv_stream_close_pipe
  <2>2. \A n \in Prepares : n # NULL
    BY NullAssumption DEF Prepares
  <2>3. QED
    BY <1>1, <2>1, <2>2 DEF StreamType, Aside, Life, SameFocus
<1>2. CASE t.on_connection # NULL
  <2> DEFINE n == t.on_connection
  <2>1. n \in Prepares /\ t.told \in [Prepares -> Nat]
    BY <1>2 DEF StreamType
  <2>2. PICK u : u = [t.told EXCEPT ![n] = @ + 1]
    OBVIOUS
  <2>3. u \in [Prepares -> Nat] /\ \A m \in Prepares : u[m] = IF m = n THEN t.told[m] + 1 ELSE t.told[m]
    BY <2>1, <2>2
  <2>4. r = [[[t EXCEPT !.pipe = FALSE] EXCEPT !.told = u] EXCEPT !.on_connection = NULL]
    BY <1>2, <2>2 DEF media_uv_stream_close_pipe
  <2> HIDE DEF n
  <2>5. PICK v : v = [t EXCEPT !.pipe = FALSE]
    OBVIOUS
  <2>6. /\ v \in StreamType /\ Aside(v, t) /\ Life(v, t) /\ SameFocus(v, t)
        /\ v.listeners = t.listeners /\ v.q = t.q /\ v.pipe = FALSE
    BY <2>5 DEF StreamType, Aside, Life, SameFocus
  <2>7. PICK w : w = [v EXCEPT !.told = u]
    OBVIOUS
  <2>8. /\ w \in StreamType /\ Aside(w, v) /\ Life(w, v) /\ SameFocus(w, v)
        /\ w.listeners = v.listeners /\ w.q = v.q /\ w.pipe = v.pipe /\ w.told = u
    BY <2>3, <2>6, <2>7 DEF StreamType, Aside, Life, SameFocus
  <2>9. r = [w EXCEPT !.on_connection = NULL]
    BY <2>4, <2>5, <2>7
  <2>10. /\ r \in StreamType /\ Aside(r, w) /\ Life(r, w) /\ SameFocus(r, w)
         /\ r.listeners = w.listeners /\ r.q = w.q /\ r.pipe = w.pipe /\ r.told = w.told
         /\ r.on_connection = NULL
    BY <2>8, <2>9 DEF StreamType, Aside, Life, SameFocus
  <2>11. QED
    BY <2>3, <2>6, <2>8, <2>10 DEF n, Aside, Life, SameFocus
<1>3. QED
  BY <1>1, <1>2

\* Open listeners begin to end, but the one that is excepted.
LEMMA ListenClearEffect ==
    ASSUME NEW t \in StreamType, NEW a, NEW r, r = media_uv_stream_listen_clear(t, a)
    PROVE  /\ r \in StreamType
           /\ Aside(r, t) /\ Life(r, t) /\ SamePipe(r, t) /\ SameFocus(r, t) /\ r.q = t.q
           /\ \A k \in Cpus : r.listeners[k] = IF t.listeners[k] = "open" /\ k # a THEN "closing"
                                               ELSE t.listeners[k]
BY DEF media_uv_stream_listen_clear, StreamType, Aside, Life, SamePipe, SameFocus

\* Focus f becomes d, and nothing else changes.
FocusSet(r, t, f, d) ==
    /\ r \in StreamType
    /\ Aside(r, t) /\ Life(r, t) /\ SamePipe(r, t) /\ r.listeners = t.listeners /\ r.q = t.q
    /\ r.focus = t.focus /\ r.focuses[f] = d
    /\ \A g \in Focuses \ {f} : r.focuses[g] = t.focuses[g]

\* What the update of one focus changes.
LEMMA SetFocus ==
    ASSUME NEW t \in StreamType, NEW f \in Focuses, NEW d \in FocusType, NEW r,
           r = [t EXCEPT !.focuses = [t.focuses EXCEPT ![f] = d]]
    PROVE  FocusSet(r, t, f, d)
<1>1. PICK w : w = [t.focuses EXCEPT ![f] = d]
  OBVIOUS
<1>2. t.focuses \in [Focuses -> FocusType]
  BY DEF StreamType
<1>3. w \in [Focuses -> FocusType] /\ w[f] = d /\ \A g \in Focuses \ {f} : w[g] = t.focuses[g]
  BY <1>1, <1>2
<1>4. r = [t EXCEPT !.focuses = w]
  BY <1>1
<1>5. /\ r \in StreamType /\ r.focuses = w
      /\ Aside(r, t) /\ Life(r, t) /\ SamePipe(r, t) /\ r.listeners = t.listeners /\ r.q = t.q
      /\ r.focus = t.focus
  BY <1>3, <1>4 DEF StreamType, Aside, Life, SamePipe
<1>6. QED
  BY <1>3, <1>5 DEF FocusSet

\* The focus is detached when "abandon" can be sent, and stays otherwise.
LEMMA AbandonEffect ==
    ASSUME NEW t \in StreamType, NEW r, r = media_uv_stream_abandon_focus(t)
    PROVE  /\ r \in StreamType
           /\ Aside(r, t) /\ Life(r, t) /\ SamePipe(r, t) /\ r.listeners = t.listeners /\ r.q = t.q
           /\ \/ SameFocus(r, t) /\ (t.focus = NULL \/ t.focuses[t.focus].phase = "dead")
              \/ /\ t.focus \in Focuses /\ r.focus = NULL
                 /\ \A f \in Focuses \ {t.focus} : r.focuses[f] = t.focuses[f]
                 /\ Detached(r.focuses[t.focus], t.focuses[t.focus])
<1>1. CASE t.focus = NULL \/ t.focuses[t.focus].phase = "dead"
  <2>1. r = t
    BY <1>1 DEF media_uv_stream_abandon_focus, media_uv_focus_abandon
  <2>2. QED
    BY <1>1, <2>1 DEF Aside, Life, SamePipe, SameFocus
<1>2. CASE ~ (t.focus = NULL \/ t.focuses[t.focus].phase = "dead")
  <2>1. PICK f \in Focuses : f = t.focus
    BY <1>2 DEF StreamType
  <2>2. PICK e : e = t.focuses[f]
    OBVIOUS
  <2>3. t.focuses \in [Focuses -> FocusType] /\ e \in FocusType
    BY <2>1, <2>2 DEF StreamType
  <2>4. PICK u : u = [t EXCEPT !.focuses[f].leaving = TRUE]
    OBVIOUS
  <2>5. PICK d : d = [e EXCEPT !.leaving = TRUE]
    OBVIOUS
  <2>6. u = [t EXCEPT !.focuses = [t.focuses EXCEPT ![f] = d]]
    BY <2>2, <2>4, <2>5
  <2>7. /\ d \in FocusType /\ d.phase = e.phase /\ d.stream = e.stream
        /\ d.on_play = e.on_play /\ d.told = e.told
    BY <2>3, <2>5 DEF FocusType
  <2>8. FocusSet(u, t, f, d)
    BY <2>6, <2>7, SetFocus
  <2>9. PICK v : v = [u EXCEPT !.focuses[f].stream = FALSE]
    OBVIOUS
  <2>10. PICK c : c = [d EXCEPT !.stream = FALSE]
    OBVIOUS
  <2>11. v = [u EXCEPT !.focuses = [u.focuses EXCEPT ![f] = c]]
    BY <2>8, <2>9, <2>10 DEF FocusSet
  <2>12. Detached(c, e)
    BY <2>7, <2>10 DEF FocusType, Detached
  <2>13. FocusSet(v, u, f, c)
    <3>1. u \in StreamType /\ c \in FocusType
      BY <2>8, <2>12 DEF FocusSet, Detached
    <3>2. QED
      BY <2>11, <3>1, SetFocus
  <2>14. r = [v EXCEPT !.focus = NULL]
    <3>1. media_uv_focus_abandon(t, t.focus) = {u}
      BY <1>2, <2>1, <2>4 DEF media_uv_focus_abandon
    <3>2. (CHOOSE x \in {u} : TRUE) = u
      OBVIOUS
    <3>3. QED
      BY <1>2, <2>1, <2>9, <3>1, <3>2 DEF media_uv_stream_abandon_focus
  <2>15. /\ r \in StreamType
         /\ Aside(r, v) /\ Life(r, v) /\ SamePipe(r, v) /\ r.listeners = v.listeners /\ r.q = v.q
         /\ r.focus = NULL /\ r.focuses = v.focuses
    BY <2>13, <2>14 DEF FocusSet, StreamType, Aside, Life, SamePipe
  <2>16. /\ Aside(r, t) /\ Life(r, t) /\ SamePipe(r, t) /\ r.listeners = t.listeners /\ r.q = t.q
    BY <2>8, <2>13, <2>15 DEF FocusSet, Aside, Life, SamePipe
  <2>17. /\ \A g \in Focuses \ {f} : r.focuses[g] = t.focuses[g]
         /\ r.focuses[f] = c
    BY <2>8, <2>13, <2>15 DEF FocusSet
  <2>18. QED
    BY <2>1, <2>2, <2>12, <2>15, <2>16, <2>17
<1>3. QED
  BY <1>1, <1>2

-----------------------------------------------------------------------------

(***************************************************************************)
(* What every stream keeps.  That no callback finds the stream freed is    *)
(* not inductive: it follows from what is still expected when, and that    *)
(* from how the flags, the queue and the objects beside the stream hang    *)
(* together.                                                               *)
(***************************************************************************)

\* Stream and focus point to each other; a focus without a server may keep
\* its pointer, since nothing will come from it.
Links(t) ==
    /\ t.focus # NULL => t.focuses[t.focus].stream
    /\ \A f \in Focuses : t.focuses[f].stream => t.focus = f \/ t.focuses[f].phase = "dead"

\* The request that calls on_play of focus f when it is answered.
IsPlay(x, f) == x = [op |-> "play", of |-> f]

\* on_play of a focus is still to be called, or a "play" is queued that will,
\* or it was called.
Plays(t) ==
    \A f \in Focuses :
        /\ t.focuses[f].phase = "none" => t.focuses[f] = Focus0
        /\ \A i, j \in DOMAIN t.q : IsPlay(t.q[i], f) /\ IsPlay(t.q[j], f) => i = j
        /\ \A i \in DOMAIN t.q : IsPlay(t.q[i], f) =>
              /\ t.focuses[f].phase # "none" /\ t.focuses[f].on_play = FALSE
              /\ t.focuses[f].told = 0
        /\ t.focuses[f].on_play => t.focuses[f].told = 0
        /\ t.focuses[f].told <= 1

\* Every prepare was called, but the one that waits.
Pipes(t) ==
    /\ \A n \in Prepares : t.told[n] = IF n <= t.prepared /\ n # t.on_connection THEN 1 ELSE 0
    /\ t.on_connection # NULL => t.on_connection <= t.prepared

\* A freed stream has nothing beside it; a volume under way is expected.
Released(t) ==
    /\ t.freed => /\ t.link = "gone" /\ t.expected = {}
                  /\ \A k \in Cpus : t.listeners[k] = "none"
    /\ t.closed = IF t.freed THEN 1 ELSE 0
    /\ t.volumes > 0 => "volume" \in t.expected
    /\ t.volumes <= 1

\* The connection is only given up, and "close" only queued, by who closes.
Closing(t) ==
    /\ t.link \in {"disconnecting", "gone"} => t.closing
    /\ \A i \in DOMAIN t.q : t.q[i].op = "close" => t.closing

\* A picture has only its connection.
Bare(t) ==
    t.kind = "picture" =>
        /\ t.on_connection = NULL /\ t.pipe = FALSE
        /\ \A k \in Cpus : t.listeners[k] = "none"
        /\ \A f \in Focuses : t.focuses[f].phase = "none"

Good(t) ==
    /\ t \in StreamType /\ t.bad = FALSE
    /\ Links(t) /\ Plays(t) /\ Pipes(t) /\ Released(t) /\ Closing(t) /\ Bare(t)

\* What close has ended, and what cannot begin again after it.
Closed(t) ==
    t.closing => /\ t.on_connection = NULL /\ t.pipe = FALSE
                 /\ \A k \in Cpus : t.listeners[k] # "open"
                 /\ \A f \in Focuses : t.focuses[f].stream => t.focuses[f].phase = "dead"

\* The elements of a queue one request longer.
LEMMA Appended ==
    ASSUME NEW q \in Seq(Requests), NEW x \in Requests, NEW r, r = Append(q, x)
    PROVE  /\ Len(q) \in Nat /\ DOMAIN q = 1 .. Len(q) /\ DOMAIN r = 1 .. Len(q) + 1
           /\ r[Len(q) + 1] = x /\ \A i \in 1 .. Len(q) : r[i] = q[i]
BY AppendProperties

\* A request that is not "play" may be sent at any time; "close" only by who closes.
LEMMA SendGood ==
    ASSUME NEW t, Good(t), NEW x \in Requests, x.op # "play", x.op = "close" => t.closing,
           NEW r, r = media_uv_stream_send(t, x)
    PROVE  Good(r) /\ (Closed(t) => Closed(r))
<1>1. /\ r \in StreamType /\ t \in StreamType
      /\ Aside(r, t) /\ Life(r, t) /\ SamePipe(r, t) /\ SameFocus(r, t)
      /\ r.listeners = t.listeners
      /\ r.q = IF Refuses(t) THEN t.q ELSE Append(t.q, x)
  BY SendEffect DEF Good
<1>2. t.q \in Seq(Requests)
  BY <1>1 DEF StreamType
<1>3. \A i \in DOMAIN r.q : (i \in DOMAIN t.q /\ r.q[i] = t.q[i]) \/ r.q[i] = x
  <2>1. CASE Refuses(t)
    BY <1>1, <2>1
  <2>2. CASE ~ Refuses(t)
    BY <1>1, <1>2, <2>2, Appended
  <2>3. QED
    BY <2>1, <2>2
<1>4. \A f : ~ IsPlay(x, f)
  BY DEF IsPlay
<1>5. Links(r) /\ Pipes(r) /\ Released(r) /\ Bare(r)
  BY <1>1 DEF Good, Links, Pipes, Released, Bare, Aside, Life, SamePipe, SameFocus
<1>6. Plays(r)
  BY <1>1, <1>3, <1>4 DEF Good, Plays, SameFocus
<1>7. Closing(r)
  BY <1>1, <1>3 DEF Good, Closing, Life
<1>8. Closed(t) => Closed(r)
  BY <1>1 DEF Closed, Life, SamePipe, SameFocus
<1>9. QED
  BY <1>1, <1>5, <1>6, <1>7, <1>8 DEF Good, Aside

\* Whoever waited has been called: the count of that prepare becomes one.
LEMMA ClosePipeGood ==
    ASSUME NEW t, Good(t), NEW r, r = media_uv_stream_close_pipe(t)
    PROVE  Good(r) /\ (Closed(t) => Closed(r))
<1>1. /\ t \in StreamType /\ r \in StreamType
      /\ Aside(r, t) /\ Life(r, t) /\ SameFocus(r, t)
      /\ r.listeners = t.listeners /\ r.q = t.q
      /\ r.pipe = FALSE /\ r.on_connection = NULL
      /\ \A n \in Prepares : r.told[n] = IF n = t.on_connection THEN t.told[n] + 1 ELSE t.told[n]
  BY ClosePipeEffect DEF Good
<1>2. Links(r) /\ Plays(r) /\ Released(r) /\ Closing(r) /\ Bare(r)
  BY <1>1 DEF Good, Links, Plays, Released, Closing, Bare, Aside, Life, SameFocus
<1>3. Pipes(r)
  <2>1. \A n \in Prepares : n # NULL
    BY NullAssumption DEF Prepares
  <2>2. QED
    BY <1>1, <2>1 DEF Good, Pipes, Aside
<1>4. Closed(t) => Closed(r)
  BY <1>1 DEF Closed, Life, SameFocus
<1>5. QED
  BY <1>1, <1>2, <1>3, <1>4 DEF Good, Aside

\* Listeners that end are still waited for.
LEMMA ListenClearGood ==
    ASSUME NEW t, Good(t), NEW a, NEW r, r = media_uv_stream_listen_clear(t, a)
    PROVE  Good(r) /\ (Closed(t) => Closed(r))
<1>1. /\ t \in StreamType /\ r \in StreamType
      /\ Aside(r, t) /\ Life(r, t) /\ SamePipe(r, t) /\ SameFocus(r, t) /\ r.q = t.q
      /\ \A k \in Cpus : r.listeners[k] = IF t.listeners[k] = "open" /\ k # a THEN "closing"
                                          ELSE t.listeners[k]
  BY ListenClearEffect DEF Good
<1>2. Links(r) /\ Plays(r) /\ Pipes(r) /\ Closing(r)
  BY <1>1 DEF Good, Links, Plays, Pipes, Closing, Aside, Life, SamePipe, SameFocus
<1>3. Released(r) /\ Bare(r)
  BY <1>1 DEF Good, Released, Bare, Aside, Life, SamePipe, SameFocus
<1>4. Closed(t) => Closed(r)
  BY <1>1 DEF Closed, Life, SamePipe, SameFocus
<1>5. QED
  BY <1>1, <1>2, <1>3, <1>4 DEF Good, Aside

\* A focus is a number.
LEMMA FocusNotNull == \A f \in Focuses : f # NULL
BY UvStreamAssumption, NullAssumption, FS_CardinalityType

\* The focus of the stream and the stream are detached.
LEMMA DetachGood ==
    ASSUME NEW t, Good(t), NEW r, r \in StreamType,
           Aside(r, t), Life(r, t), SamePipe(r, t), r.listeners = t.listeners, r.q = t.q,
           NEW f0 \in Focuses, f0 = t.focus, r.focus = NULL,
           \A f \in Focuses \ {f0} : r.focuses[f] = t.focuses[f],
           Detached(r.focuses[f0], t.focuses[f0])
    PROVE  /\ Good(r) /\ (Closed(t) => Closed(r))
           /\ \A f \in Focuses : /\ r.focuses[f].stream => r.focuses[f].phase = "dead"
                               /\ r.focuses[f].on_play = t.focuses[f].on_play
                               /\ r.focuses[f].phase = t.focuses[f].phase
<1>1. \A f \in Focuses : /\ r.focuses[f].phase = t.focuses[f].phase
                         /\ r.focuses[f].on_play = t.focuses[f].on_play
                         /\ r.focuses[f].told = t.focuses[f].told
  BY DEF Detached
<1>2. \A f \in Focuses : r.focuses[f].stream => (t.focuses[f].stream /\ f # f0)
  BY DEF Detached
<1>3. Links(r)
  BY <1>1, <1>2 DEF Good, Links
<1>4. t.focuses[f0].phase # "none"
  BY FocusNotNull DEF Good, Plays, Links, Focus0
<1>5. Plays(r)
  BY <1>1, <1>4 DEF Good, Plays
<1>6. Bare(r)
  BY <1>1 DEF Good, Bare, Aside, SamePipe
<1>7. Closed(t) => Closed(r)
  BY <1>1, <1>2 DEF Closed, Life, SamePipe
<1>8. \A f \in Focuses : r.focuses[f].stream => r.focuses[f].phase = "dead"
  BY <1>1, <1>2 DEF Good, Links
<1>9. Pipes(r) /\ Released(r) /\ Closing(r)
  BY DEF Good, Pipes, Released, Closing, Aside, Life, SamePipe
<1>10. QED
  BY <1>1, <1>3, <1>5, <1>6, <1>7, <1>8, <1>9 DEF Good, Aside

\* No focus with a server belongs to the stream any more.
LEMMA AbandonGood ==
    ASSUME NEW t, Good(t), NEW r, r = media_uv_stream_abandon_focus(t)
    PROVE  /\ Good(r) /\ (Closed(t) => Closed(r))
           /\ \A f \in Focuses : /\ r.focuses[f].stream => r.focuses[f].phase = "dead"
                               /\ r.focuses[f].on_play = t.focuses[f].on_play
                               /\ r.focuses[f].phase = t.focuses[f].phase
<1>1. /\ t \in StreamType /\ r \in StreamType
      /\ Aside(r, t) /\ Life(r, t) /\ SamePipe(r, t) /\ r.listeners = t.listeners /\ r.q = t.q
  BY AbandonEffect DEF Good
<1>2. CASE SameFocus(r, t) /\ (t.focus = NULL \/ t.focuses[t.focus].phase = "dead")
  <2>1. Links(r) /\ Plays(r) /\ Bare(r)
    BY <1>1, <1>2 DEF Good, Links, Plays, Bare, Aside, SamePipe, SameFocus
  <2>2. Pipes(r) /\ Released(r) /\ Closing(r)
    BY <1>1 DEF Good, Pipes, Released, Closing, Aside, Life, SamePipe
  <2>3. /\ Closed(t) => Closed(r)
        /\ \A f \in Focuses : /\ r.focuses[f].stream => r.focuses[f].phase = "dead"
                            /\ r.focuses[f].on_play = t.focuses[f].on_play
                            /\ r.focuses[f].phase = t.focuses[f].phase
    BY <1>1, <1>2, FocusNotNull DEF Good, Links, Closed, Life, SamePipe, SameFocus
  <2>4. QED
    BY <1>1, <2>1, <2>2, <2>3 DEF Good, Aside
<1>3. CASE /\ t.focus \in Focuses /\ r.focus = NULL
           /\ \A f \in Focuses \ {t.focus} : r.focuses[f] = t.focuses[f]
           /\ Detached(r.focuses[t.focus], t.focuses[t.focus])
  <2>1. PICK f0 \in Focuses : f0 = t.focus
    BY <1>3
  <2>2. /\ r.focus = NULL /\ \A f \in Focuses \ {f0} : r.focuses[f] = t.focuses[f]
        /\ Detached(r.focuses[f0], t.focuses[f0])
    BY <1>3, <2>1
  <2>3. QED
    BY <1>1, <2>1, <2>2, DetachGood
<1>4. QED
  BY <1>2, <1>3, AbandonEffect DEF Good

\* A focus that was requested may become d.
LEMMA FocusGood ==
    ASSUME NEW t, Good(t), NEW f \in Focuses, NEW d, NEW r, FocusSet(r, t, f, d),
           t.focuses[f].phase # "none", d.phase # "none", d.stream = t.focuses[f].stream,
           t.focuses[f].phase = "dead" => d.phase = "dead",
           d.on_play => d.told = 0, d.told <= 1,
           \A i \in DOMAIN t.q : IsPlay(t.q[i], f) => d.on_play = FALSE /\ d.told = 0
    PROVE  Good(r) /\ (Closed(t) => Closed(r))
<1>1. /\ r \in StreamType
      /\ Aside(r, t) /\ Life(r, t) /\ SamePipe(r, t) /\ r.listeners = t.listeners /\ r.q = t.q
      /\ r.focus = t.focus /\ r.focuses[f] = d
      /\ \A g \in Focuses \ {f} : r.focuses[g] = t.focuses[g]
  BY DEF FocusSet
<1>2. Pipes(r) /\ Released(r) /\ Closing(r)
  BY <1>1 DEF Good, Pipes, Released, Closing, Aside, Life, SamePipe
<1>3. \A g \in Focuses : /\ r.focuses[g].stream = t.focuses[g].stream
                         /\ t.focuses[g].phase = "dead" => r.focuses[g].phase = "dead"
                         /\ r.focuses[g].phase = "none" <=> t.focuses[g].phase = "none"
  BY <1>1
<1>4. t.focus # NULL => t.focus \in Focuses
  BY DEF Good, StreamType
<1>5. Links(r)
  BY <1>1, <1>3, <1>4 DEF Good, Links
<1>6. Plays(r)
  BY <1>1 DEF Good, Plays
<1>7. Bare(r)
  BY <1>1 DEF Good, Bare, Aside
<1>8. Closed(t) => Closed(r)
  BY <1>1, <1>3 DEF Closed, Life, SamePipe
<1>9. QED
  BY <1>1, <1>2, <1>5, <1>6, <1>7, <1>8 DEF Good, Aside

\* The connection comes into another state; it is only given up by who closes.
LEMMA LinkGood ==
    ASSUME NEW t, Good(t), NEW x \in {"up", "refused", "disconnecting", "gone"},
           x \in {"disconnecting", "gone"} => t.closing, t.freed => x = "gone",
           NEW r, r = [t EXCEPT !.link = x]
    PROVE  /\ Good(r) /\ (Closed(t) => Closed(r))
           /\ Aside(r, t) /\ SamePipe(r, t) /\ SameFocus(r, t)
           /\ r.listeners = t.listeners /\ r.q = t.q /\ r.link = x
           /\ r.closing = t.closing /\ r.closed = t.closed /\ r.freed = t.freed /\ r.expected = t.expected
<1>1. /\ r \in StreamType /\ Aside(r, t) /\ SamePipe(r, t) /\ SameFocus(r, t)
      /\ r.listeners = t.listeners /\ r.q = t.q /\ r.link = x
      /\ r.closing = t.closing /\ r.closed = t.closed /\ r.freed = t.freed /\ r.expected = t.expected
  BY DEF Good, StreamType, Aside, SamePipe, SameFocus
<1>2. Links(r) /\ Plays(r) /\ Pipes(r) /\ Released(r) /\ Closing(r) /\ Bare(r)
  BY <1>1 DEF Good, Links, Plays, Pipes, Released, Closing, Bare, Aside, SamePipe, SameFocus
<1>3. Closed(t) => Closed(r)
  BY <1>1 DEF Closed, SamePipe, SameFocus
<1>4. QED
  BY <1>1, <1>2, <1>3 DEF Good, Aside

\* One more call of the application.
LEMMA CalledGood ==
    ASSUME NEW t, Good(t), t.calls < MaxCalls, NEW r, r = [t EXCEPT !.calls = @ + 1]
    PROVE  /\ Good(r) /\ (Closed(t) => Closed(r))
           /\ Life(r, t) /\ SamePipe(r, t) /\ SameFocus(r, t) /\ r.listeners = t.listeners /\ r.q = t.q
           /\ r.kind = t.kind /\ r.prepared = t.prepared /\ r.dialed = t.dialed
           /\ r.volumes = t.volumes /\ r.lost = t.lost
<1>1. /\ r \in StreamType
      /\ Life(r, t) /\ SamePipe(r, t) /\ SameFocus(r, t) /\ r.listeners = t.listeners /\ r.q = t.q
      /\ r.kind = t.kind /\ r.prepared = t.prepared /\ r.dialed = t.dialed
      /\ r.volumes = t.volumes /\ r.lost = t.lost /\ r.bad = t.bad
  <2>1. PICK n \in 0 .. MaxCalls : n = t.calls + 1
    BY UvStreamAssumption DEF Good, StreamType
  <2>2. r = [t EXCEPT !.calls = n]
    BY <2>1
  <2>3. QED
    BY <2>2 DEF Good, StreamType, Life, SamePipe, SameFocus
<1>2. Links(r) /\ Plays(r) /\ Pipes(r) /\ Released(r) /\ Closing(r) /\ Bare(r)
  BY <1>1 DEF Good, Links, Plays, Pipes, Released, Closing, Bare, Life, SamePipe, SameFocus
<1>3. Closed(t) => Closed(r)
  BY <1>1 DEF Closed, Life, SamePipe, SameFocus
<1>4. QED
  BY <1>1, <1>2, <1>3 DEF Good

\* A request without a meaning of its own here.
LEMMA CallRequest == Request("call") \in Requests /\ Request("call").op = "call"
BY DEF Request, Requests

\* The request of close.
LEMMA CloseRequest == Request("close") \in Requests /\ Request("close").op = "close"
BY DEF Request, Requests

\* Stopping keeps what on_play needs, and neither frees nor closes.
LEMMA StopGood ==
    ASSUME NEW t, Good(t), NEW cb \in BOOLEAN, NEW r, r = Stop(t, cb)
    PROVE  /\ Good(r) /\ (Closed(t) => Closed(r))
           /\ Aside(r, t) /\ Life(r, t)
           /\ \A f \in Focuses : /\ r.focuses[f].on_play = t.focuses[f].on_play
                               /\ r.focuses[f].phase = t.focuses[f].phase
<1>1. PICK p : p = media_uv_stream_close_pipe(t)
  OBVIOUS
<1>2. PICK u : u = media_uv_stream_abandon_focus(p)
  OBVIOUS
<1>3. /\ Good(p) /\ (Closed(t) => Closed(p))
      /\ p \in StreamType /\ Aside(p, t) /\ Life(p, t) /\ SameFocus(p, t)
  <2>1. t \in StreamType
    BY DEF Good
  <2>2. QED
    BY <1>1, <2>1, ClosePipeGood, ClosePipeEffect
<1>4. /\ Good(u) /\ (Closed(p) => Closed(u)) /\ u \in StreamType
      /\ \A f \in Focuses : /\ u.focuses[f].on_play = p.focuses[f].on_play
                          /\ u.focuses[f].phase = p.focuses[f].phase
  BY <1>2, <1>3, AbandonGood DEF Good
<1>5. Aside(u, p) /\ Life(u, p)
  BY <1>2, <1>3, AbandonEffect
<1>6. /\ Good(r) /\ (Closed(u) => Closed(r))
      /\ Aside(r, u) /\ Life(r, u) /\ SameFocus(r, u)
  <2>1. CASE cb
    <3>1. r = media_uv_stream_send(u, Request("call"))
      BY <1>1, <1>2, <2>1 DEF Stop
    <3>2. PICK x \in Requests : x = Request("call") /\ x.op = "call"
      BY CallRequest
    <3>3. r = media_uv_stream_send(u, x)
      BY <3>1, <3>2
    <3>4. Good(r) /\ (Closed(u) => Closed(r))
      BY <1>4, <3>2, <3>3, SendGood
    <3>5. Aside(r, u) /\ Life(r, u) /\ SameFocus(r, u)
      BY <1>4, <3>3, SendEffect
    <3>6. QED
      BY <3>4, <3>5
  <2>2. CASE ~ cb
    <3>1. r = u
      BY <1>1, <1>2, <2>2 DEF Stop
    <3>2. QED
      BY <1>4, <3>1 DEF Aside, Life, SameFocus
  <2>3. QED
    BY <2>1, <2>2
<1>7. Aside(r, t) /\ Life(r, t)
  BY <1>3, <1>5, <1>6 DEF Aside, Life
<1>8. \A f \in Focuses : /\ r.focuses[f].on_play = t.focuses[f].on_play
                         /\ r.focuses[f].phase = t.focuses[f].phase
  BY <1>3, <1>4, <1>6 DEF SameFocus
<1>9. QED
  BY <1>3, <1>4, <1>6, <1>7, <1>8

\* The application is closing.
LEMMA ClosingGood ==
    ASSUME NEW t, Good(t), NEW r, r = [t EXCEPT !.closing = TRUE]
    PROVE  /\ Good(r)
           /\ Aside(r, t) /\ SamePipe(r, t) /\ SameFocus(r, t)
           /\ r.listeners = t.listeners /\ r.q = t.q /\ r.link = t.link
           /\ r.closing = TRUE /\ r.closed = t.closed /\ r.freed = t.freed /\ r.expected = t.expected
<1>1. /\ r \in StreamType /\ Aside(r, t) /\ SamePipe(r, t) /\ SameFocus(r, t)
      /\ r.listeners = t.listeners /\ r.q = t.q /\ r.link = t.link
      /\ r.closing = TRUE /\ r.closed = t.closed /\ r.freed = t.freed /\ r.expected = t.expected
  BY DEF Good, StreamType, Aside, SamePipe, SameFocus
<1>2. Links(r) /\ Plays(r) /\ Pipes(r) /\ Released(r) /\ Closing(r) /\ Bare(r)
  BY <1>1 DEF Good, Links, Plays, Pipes, Released, Closing, Bare, Aside, SamePipe, SameFocus
<1>3. QED
  BY <1>1, <1>2 DEF Good, Aside

\* Closing calls who waits, ends the listeners and detaches the focus.
LEMMA CloseGood ==
    ASSUME NEW t, Good(t), t.closing = FALSE, NEW r, r = Close(t)
    PROVE  /\ Good(r) /\ Closed(r) /\ Aside(r, t)
           /\ r.freed = t.freed /\ r.expected = t.expected
<1>1. PICK u : u = [t EXCEPT !.closing = TRUE]
  OBVIOUS
<1>2. PICK v : v = IF Refuses(u) THEN [u EXCEPT !.link = "disconnecting"]
                   ELSE media_uv_stream_send(u, Request("close"))
  OBVIOUS
<1>3. PICK p : p = media_uv_stream_close_pipe(v)
  OBVIOUS
<1>4. PICK l : l = media_uv_stream_listen_clear(p, NULL)
  OBVIOUS
<1>5. r = media_uv_stream_abandon_focus(l)
  BY <1>1, <1>2, <1>3, <1>4 DEF Close
<1>6. /\ Good(u) /\ Aside(u, t) /\ u.closing = TRUE
      /\ u.freed = t.freed /\ u.expected = t.expected /\ u.link = t.link
  BY <1>1, ClosingGood
<1>7. /\ Good(v) /\ Aside(v, u) /\ v.closing = TRUE
      /\ v.freed = u.freed /\ v.expected = u.expected
  <2>1. CASE Refuses(u)
    <3>1. v = [u EXCEPT !.link = "disconnecting"]
      BY <1>2, <2>1
    <3>2. u.freed = FALSE
      BY <1>6 DEF Good, Released, Closing, StreamType
    <3>3. QED
      BY <1>6, <3>1, <3>2, LinkGood
  <2>2. CASE ~ Refuses(u)
    <3>1. PICK x \in Requests : x = Request("close") /\ x.op = "close"
      BY CloseRequest
    <3>2. v = media_uv_stream_send(u, x)
      BY <1>2, <2>2, <3>1
    <3>3. Good(v)
      BY <1>6, <3>1, <3>2, SendGood
    <3>4. Aside(v, u) /\ Life(v, u)
      BY <1>6, <3>2, SendEffect DEF Good
    <3>5. QED
      BY <1>6, <3>3, <3>4 DEF Life
  <2>3. QED
    BY <2>1, <2>2
<1>8. /\ Good(p) /\ Aside(p, v) /\ Life(p, v) /\ p.pipe = FALSE /\ p.on_connection = NULL
  BY <1>3, <1>7, ClosePipeGood, ClosePipeEffect DEF Good
<1>9. /\ Good(l) /\ Aside(l, p) /\ Life(l, p) /\ SamePipe(l, p)
      /\ \A k \in Cpus : l.listeners[k] # "open"
  <2>1. /\ Good(l) /\ Aside(l, p) /\ Life(l, p) /\ SamePipe(l, p)
        /\ \A k \in Cpus : l.listeners[k] = IF p.listeners[k] = "open" /\ k # NULL THEN "closing"
                                            ELSE p.listeners[k]
    <3>1. Good(l)
      BY <1>4, <1>8, ListenClearGood
    <3>2. p \in StreamType
      BY <1>8 DEF Good
    <3>3. QED
      BY <1>4, <3>1, <3>2, ListenClearEffect
  <2>2. \A k \in Cpus : k # NULL
    BY UvStreamAssumption, NullAssumption, FS_CardinalityType
  <2>3. QED
    BY <2>1, <2>2
<1>10. /\ Good(r) /\ \A f \in Focuses : r.focuses[f].stream => r.focuses[f].phase = "dead"
  BY <1>5, <1>9, AbandonGood
<1>11. /\ Aside(r, l) /\ Life(r, l) /\ SamePipe(r, l) /\ r.listeners = l.listeners
  BY <1>5, <1>9, AbandonEffect DEF Good
<1>12. Closed(r)
  BY <1>8, <1>9, <1>10, <1>11 DEF Closed, SamePipe
<1>13. QED
  BY <1>6, <1>7, <1>8, <1>9, <1>10, <1>11, <1>12 DEF Aside, Life

\* A picture has nothing that close would have to end.
LEMMA PictureClosed ==
    ASSUME NEW t, Good(t), t.kind = "picture"
    PROVE  Closed(t)
BY DEF Good, Bare, Plays, Closed, Focus0

\* The same of take_picture, which has only the connection.
LEMMA PictureCloseGood ==
    ASSUME NEW t, Good(t), t.kind = "picture", NEW r, r = PictureClose(t)
    PROVE  Good(r) /\ Closed(r)
<1>1. CASE t.link \in {"disconnecting", "gone"}
  <2>1. r = t
    BY <1>1 DEF PictureClose
  <2>2. QED
    BY <2>1, PictureClosed
<1>2. CASE t.link \notin {"disconnecting", "gone"}
  <2>1. PICK u : u = [t EXCEPT !.closing = TRUE]
    OBVIOUS
  <2>2. r = [u EXCEPT !.link = "disconnecting"]
    BY <1>2, <2>1 DEF PictureClose, Good, StreamType
  <2>3. Good(u) /\ u.closing = TRUE /\ u.freed = t.freed /\ Aside(u, t)
    BY <2>1, ClosingGood
  <2>4. t.freed = FALSE
    BY <1>2 DEF Good, Released, StreamType
  <2>5. Good(r) /\ Aside(r, u)
    BY <2>2, <2>3, <2>4, LinkGood
  <2>6. r.kind = "picture"
    BY <2>3, <2>5 DEF Aside
  <2>7. QED
    BY <2>5, <2>6, PictureClosed
<1>3. QED
  BY <1>1, <1>2

\* Whatever the application does inside a callback, the stream stays
\* allocated and goes on waiting for the answers it waited for.
LEMMA ApplicationGood ==
    ASSUME NEW t, Good(t), Closed(t), NEW then \in Thens, NEW r, r = Application(t, then)
    PROVE  /\ Good(r) /\ Closed(r)
           /\ r.freed = t.freed /\ r.expected = t.expected /\ r.volumes = t.volumes
           /\ then = "nothing" => r = t
<1>1. CASE t.closing \/ t.kind = "picture"
  <2>1. r = t
    BY <1>1 DEF Application
  <2>2. QED
    BY <2>1
<1>2. CASE ~ (t.closing \/ t.kind = "picture")
  <2>1. t.closing = FALSE
    BY <1>2 DEF Good, StreamType
  <2>2. CASE then = "close"
    <3>1. r = Close(t)
      BY <1>2, <2>2 DEF Application
    <3>2. QED
      BY <2>1, <2>2, <3>1, CloseGood DEF Aside
  <2>3. CASE then = "stop" /\ t.calls < MaxCalls
    <3>1. PICK u : u = [t EXCEPT !.calls = @ + 1]
      OBVIOUS
    <3>2. r = Stop(u, TRUE)
      BY <1>2, <2>3, <3>1 DEF Application
    <3>3. Good(u) /\ Closed(u) /\ Life(u, t) /\ u.volumes = t.volumes
      BY <2>3, <3>1, CalledGood
    <3>4. Good(r) /\ (Closed(u) => Closed(r)) /\ Aside(r, u) /\ Life(r, u)
      BY <3>2, <3>3, StopGood
    <3>5. QED
      BY <2>3, <3>3, <3>4 DEF Aside, Life
  <2>4. CASE then # "close" /\ ~ (then = "stop" /\ t.calls < MaxCalls)
    <3>1. r = t
      BY <1>2, <2>4 DEF Application
    <3>2. QED
      BY <3>1
  <2>5. QED
    BY <2>2, <2>3, <2>4
<1>3. QED
  BY <1>1, <1>2

\* The stream is freed once, with nothing left that would come back to it.
LEMMA ReleaseGood ==
    ASSUME NEW t, Good(t), Closed(t), t.freed = FALSE, NEW r, r = media_uv_stream_release(t)
    PROVE  Good(r) /\ Closed(r)
<1>1. CASE t.link # "gone" \/ (\E k \in Cpus : t.listeners[k] # "none") \/ t.expected # {}
  <2>1. r = t
    BY <1>1 DEF media_uv_stream_release
  <2>2. QED
    BY <2>1
<1>2. CASE ~ (t.link # "gone" \/ (\E k \in Cpus : t.listeners[k] # "none") \/ t.expected # {})
  <2>1. r = [[t EXCEPT !.closed = t.closed + 1] EXCEPT !.freed = TRUE]
    BY <1>2 DEF media_uv_stream_release
  <2>2. t.closed = 0
    BY DEF Good, Released
  <2>3. PICK u : u = [t EXCEPT !.closed = 1]
    OBVIOUS
  <2>4. r = [u EXCEPT !.freed = TRUE]
    BY <2>1, <2>2, <2>3
  <2>5. /\ u \in StreamType /\ Aside(u, t) /\ SamePipe(u, t) /\ SameFocus(u, t)
        /\ u.listeners = t.listeners /\ u.q = t.q /\ u.link = t.link
        /\ u.closing = t.closing /\ u.expected = t.expected /\ u.closed = 1
    BY <2>3 DEF Good, StreamType, Aside, SamePipe, SameFocus
  <2>6. /\ r \in StreamType /\ Aside(r, u) /\ SamePipe(r, u) /\ SameFocus(r, u)
        /\ r.listeners = u.listeners /\ r.q = u.q /\ r.link = u.link
        /\ r.closing = u.closing /\ r.expected = u.expected /\ r.closed = u.closed /\ r.freed = TRUE
    BY <2>4, <2>5 DEF StreamType, Aside, SamePipe, SameFocus
  <2>7. /\ r \in StreamType /\ Aside(r, t) /\ SamePipe(r, t) /\ SameFocus(r, t)
        /\ r.listeners = t.listeners /\ r.q = t.q /\ r.link = t.link
        /\ r.closing = t.closing /\ r.expected = t.expected /\ r.closed = 1 /\ r.freed = TRUE
    BY <2>5, <2>6 DEF Aside, SamePipe, SameFocus
  <2>8. Links(r) /\ Plays(r) /\ Pipes(r) /\ Closing(r) /\ Bare(r)
    BY <2>7 DEF Good, Links, Plays, Pipes, Closing, Bare, Aside, SamePipe, SameFocus
  <2>9. Released(r)
    BY <1>2, <2>7 DEF Good, Released, Aside
  <2>10. Closed(r)
    BY <2>7 DEF Closed, SamePipe, SameFocus
  <2>11. QED
    BY <2>7, <2>8, <2>9, <2>10 DEF Good, Aside
<1>3. QED
  BY <1>1, <1>2

\* The answers t expects become x.
Expecting(r, t, x) == r = [t EXCEPT !.expected = x]

\* The query expects one answer less; a volume is expected as long as its
\* query is under way.
LEMMA ExpectedGood ==
    ASSUME NEW t, Good(t), NEW x, x \subseteq Fields, t.freed = FALSE,
           t.volumes > 0 => "volume" \in x, NEW r, Expecting(r, t, x)
    PROVE  /\ Good(r) /\ (Closed(t) => Closed(r))
           /\ Aside(r, t) /\ SamePipe(r, t) /\ SameFocus(r, t)
           /\ r.listeners = t.listeners /\ r.q = t.q /\ r.link = t.link /\ r.expected = x
           /\ r.closing = t.closing /\ r.closed = t.closed /\ r.freed = FALSE
<1>1. /\ r \in StreamType /\ Aside(r, t) /\ SamePipe(r, t) /\ SameFocus(r, t)
      /\ r.listeners = t.listeners /\ r.q = t.q /\ r.link = t.link /\ r.expected = x
      /\ r.closing = t.closing /\ r.closed = t.closed /\ r.freed = FALSE
  BY DEF Good, StreamType, Aside, SamePipe, SameFocus, Expecting
<1>2. Links(r) /\ Plays(r) /\ Pipes(r) /\ Closing(r) /\ Bare(r)
  BY <1>1 DEF Good, Links, Plays, Pipes, Closing, Bare, Aside, SamePipe, SameFocus
<1>3. Released(r)
  BY <1>1 DEF Good, Released, Aside
<1>4. Closed(t) => Closed(r)
  BY <1>1 DEF Closed, SamePipe, SameFocus
<1>5. QED
  BY <1>1, <1>2, <1>3, <1>4 DEF Good, Aside

\* An answer to a query, or the volume, comes before the stream is freed.
LEMMA QueryAnswerGood ==
    ASSUME NEW t, Good(t), Closed(t), t.freed = FALSE, NEW field \in Fields,
           t.volumes > 0 => field # "volume", NEW then \in Thens,
           NEW r, r = QueryAnswer(t, field, then)
    PROVE  Good(r) /\ Closed(r)
<1>1. PICK x : x = t.expected \ {field}
  OBVIOUS
<1>2. x \in SUBSET Fields /\ (t.volumes > 0 => "volume" \in x)
  BY <1>1 DEF Good, StreamType, Released
<1>3. PICK u : Expecting(u, t, x)
  BY DEF Expecting
<1>4. Good(u) /\ Closed(u) /\ u.freed = FALSE
  <2>1. x \subseteq Fields
    BY <1>2
  <2>2. t.volumes > 0 => "volume" \in x
    BY <1>2
  <2>3. Good(u) /\ (Closed(t) => Closed(u)) /\ u.freed = FALSE
    BY <1>3, <2>1, <2>2, ExpectedGood
  <2>4. QED
    BY <2>3
<1>5. PICK a : a = Application(u, then)
  OBVIOUS
<1>6. Good(a) /\ Closed(a) /\ a.freed = u.freed
  BY <1>4, <1>5, ApplicationGood
<1>7. r = media_uv_stream_release(a) \/ r = media_uv_stream_release(u)
  BY <1>1, <1>3, <1>5 DEF QueryAnswer, Expecting
<1>8. QED
  BY <1>4, <1>6, <1>7, ReleaseGood

\* on_play of focus f is not to be called any more, or is called.
\* on_play is not to be called any more, or is called now.
PlayOff(r, t, f) == r = [t EXCEPT !.focuses[f].on_play = FALSE]
PlayCalled(r, t, f) ==
    r = [[t EXCEPT !.focuses[f].on_play = FALSE] EXCEPT !.focuses[f].told = @ + 1]

LEMMA PlayDone ==
    ASSUME NEW t, Good(t), NEW f \in Focuses, t.focuses[f].phase # "none",
           NEW r, PlayOff(r, t, f) \/ (t.focuses[f].on_play = TRUE /\ PlayCalled(r, t, f))
    PROVE  /\ Good(r) /\ (Closed(t) => Closed(r))
           /\ Aside(r, t) /\ Life(r, t)
<1>1. PICK e : e = t.focuses[f]
  OBVIOUS
<1>2. t.focuses \in [Focuses -> FocusType] /\ e \in FocusType
  BY <1>1 DEF Good, StreamType
<1>3. PICK c : c = [e EXCEPT !.on_play = FALSE]
  OBVIOUS
<1>4. /\ c \in FocusType /\ c.phase = e.phase /\ c.stream = e.stream /\ c.told = e.told
      /\ c.on_play = FALSE
  BY <1>2, <1>3 DEF FocusType
<1>5. PICK u : u = [t EXCEPT !.focuses[f].on_play = FALSE]
  OBVIOUS
<1>6. u = [t EXCEPT !.focuses = [t.focuses EXCEPT ![f] = c]]
  BY <1>1, <1>3, <1>5
<1>7. FocusSet(u, t, f, c)
  BY <1>4, <1>6, SetFocus DEF Good
<1>8. e.told <= 1 /\ \A i \in DOMAIN t.q : IsPlay(t.q[i], f) => e.told = 0
  BY <1>1 DEF Good, Plays
<1>9. CASE r = u
  <2>1. Good(u) /\ (Closed(t) => Closed(u))
    BY <1>1, <1>4, <1>7, <1>8, FocusGood
  <2>2. QED
    BY <1>7, <1>9, <2>1 DEF FocusSet
<1>10. CASE e.on_play /\ r = [u EXCEPT !.focuses[f].told = @ + 1]
  <2>1. e.told = 0 /\ \A i \in DOMAIN t.q : ~ IsPlay(t.q[i], f)
    BY <1>1, <1>10 DEF Good, Plays
  <2>2. PICK d : d = [c EXCEPT !.told = 1]
    OBVIOUS
  <2>3. /\ d \in FocusType /\ d.phase = e.phase /\ d.stream = e.stream /\ d.told = 1
        /\ d.on_play = FALSE
    BY <1>4, <2>2 DEF FocusType
  <2>4. r = [t EXCEPT !.focuses = [t.focuses EXCEPT ![f] = d]]
    <3>1. PICK w : w = [t.focuses EXCEPT ![f] = c]
      OBVIOUS
    <3>2. w[f] = c /\ u.focuses = w /\ [w EXCEPT ![f] = d] = [t.focuses EXCEPT ![f] = d]
      <4>1. u.focuses = w
        BY <1>6, <3>1 DEF Good, StreamType
      <4>2. QED
        BY <1>2, <3>1, <4>1
    <3>3. d = [c EXCEPT !.told = c.told + 1]
      BY <1>4, <2>1, <2>2
    <3>4. r = [u EXCEPT !.focuses = [w EXCEPT ![f] = d]]
      BY <1>10, <3>2, <3>3
    <3>5. QED
      BY <1>6, <3>2, <3>4 DEF Good, StreamType
  <2>5. FocusSet(r, t, f, d)
    BY <2>3, <2>4, SetFocus DEF Good
  <2>6. Good(r) /\ (Closed(t) => Closed(r))
    <3>1. /\ d.phase # "none" /\ d.stream = t.focuses[f].stream
          /\ t.focuses[f].phase = "dead" => d.phase = "dead"
          /\ d.on_play => d.told = 0
          /\ d.told <= 1
          /\ \A i \in DOMAIN t.q : IsPlay(t.q[i], f) => d.on_play = FALSE /\ d.told = 0
      BY <1>1, <2>1, <2>3
    <3>2. QED
      BY <2>5, <3>1, FocusGood, Zenon
  <2>7. QED
    BY <2>5, <2>6 DEF FocusSet
<1>11. QED
  BY <1>1, <1>5, <1>9, <1>10 DEF PlayOff, PlayCalled

\* A suggestion calls on_play, or sends the request that will, or keeps it
\* for a later one; each only once, and none with a freed stream.
LEMMA SuggestGood ==
    ASSUME NEW t, Good(t), Closed(t), NEW f \in Focuses, t.focuses[f].phase # "none",
           t.focuses[f].stream => t.freed = FALSE,
           NEW suggest, NEW then \in Thens, NEW r, r = Suggest(t, f, suggest, then)
    PROVE  Good(r) /\ Closed(r)
<1> DEFINE u == IF t.focuses[f].stream THEN Suggested(t, f, suggest) ELSE t
           v == [u EXCEPT !.focuses[f].on_play = FALSE]
           w == [v EXCEPT !.focuses[f].told = @ + 1]
           a == Application(w, then)
           active == t.focuses[f].stream /\ suggest \in Active
<1>1. ~ (t.freed /\ t.focuses[f].stream)
  OBVIOUS
<1>2. PlayOff(v, u, f) /\ PlayCalled(w, u, f)
  BY DEF PlayOff, PlayCalled
<1>3. r = IF t.focuses[f].on_play /\ ~ active THEN a ELSE v
  BY <1>1 DEF Suggest
<1>4. a = Application(w, then)
  OBVIOUS
<1>5. (u = Suggested(t, f, suggest) /\ t.focuses[f].stream) \/ u = t
  OBVIOUS
<1> HIDE DEF u, v, w, a
<1>6. t.focuses[f] \in FocusType
  BY DEF Good, StreamType
<1>7. CASE u = t \/ u = Stop(t, FALSE)
  <2>1. /\ Good(u) /\ Closed(u)
        /\ u.focuses[f].on_play = t.focuses[f].on_play /\ u.focuses[f].phase = t.focuses[f].phase
    <3>1. CASE u = t
      BY <3>1
    <3>2. CASE u = Stop(t, FALSE)
      BY <3>2, StopGood
    <3>3. QED
      BY <1>7, <3>1, <3>2
  <2>2. Good(v) /\ Closed(v)
    BY <1>2, <2>1, PlayDone
  <2>3. CASE t.focuses[f].on_play
    <3>1. u.focuses[f].on_play = TRUE
      BY <1>6, <2>1, <2>3 DEF FocusType
    <3>2. Good(w) /\ Closed(w)
      BY <1>2, <2>1, <3>1, PlayDone
    <3>3. Good(a) /\ Closed(a)
      BY <1>4, <3>2, ApplicationGood
    <3>4. QED
      BY <1>3, <2>2, <3>3
  <2>4. CASE ~ t.focuses[f].on_play
    BY <1>3, <2>2, <2>4
  <2>5. QED
    BY <2>3, <2>4
<1>8. CASE /\ active /\ t.focuses[f].on_play
           /\ u = media_uv_stream_send(t, [op |-> "play", of |-> f])
  <2>1. PICK x \in Requests : x = [op |-> "play", of |-> f]
    BY DEF Requests
  <2>2. /\ u \in StreamType /\ t \in StreamType
        /\ Aside(u, t) /\ Life(u, t) /\ SamePipe(u, t) /\ SameFocus(u, t)
        /\ u.listeners = t.listeners
        /\ u.q = IF Refuses(t) THEN t.q ELSE Append(t.q, x)
    BY <1>8, <2>1, SendEffect DEF Good
  <2>3. PICK e : e = t.focuses[f]
    OBVIOUS
  <2>4. t.focuses \in [Focuses -> FocusType] /\ e \in FocusType /\ t.q \in Seq(Requests)
    BY <2>2, <2>3 DEF StreamType
  <2>5. PICK d : d = [e EXCEPT !.on_play = FALSE]
    OBVIOUS
  <2>6. /\ d \in FocusType /\ d.phase = e.phase /\ d.stream = e.stream /\ d.told = e.told
        /\ d.on_play = FALSE
    BY <2>4, <2>5 DEF FocusType
  <2>7. v = [u EXCEPT !.focuses = [u.focuses EXCEPT ![f] = d]]
    BY <1>2, <2>2, <2>3, <2>5 DEF SameFocus, PlayOff
  <2>8. FocusSet(v, u, f, d)
    BY <2>2, <2>6, <2>7, SetFocus
  <2>9. /\ v \in StreamType /\ Aside(v, t) /\ Life(v, t) /\ SamePipe(v, t)
        /\ v.listeners = t.listeners /\ v.focus = t.focus /\ v.q = u.q /\ v.focuses[f] = d
        /\ \A g \in Focuses \ {f} : v.focuses[g] = t.focuses[g]
    BY <2>2, <2>8 DEF FocusSet, Aside, Life, SamePipe, SameFocus
  <2>10. e.told = 0 /\ \A i \in DOMAIN t.q : ~ IsPlay(t.q[i], f)
    BY <1>8, <2>3 DEF Good, Plays
  <2>11. \A i \in DOMAIN v.q : \/ i \in DOMAIN t.q /\ v.q[i] = t.q[i]
                               \/ v.q[i] = x /\ i = Len(t.q) + 1
    <3>1. CASE Refuses(t)
      BY <2>2, <2>9, <3>1
    <3>2. CASE ~ Refuses(t)
      BY <2>2, <2>4, <2>9, <3>2, Appended
    <3>3. QED
      BY <3>1, <3>2
  <2>12. \A g \in Focuses : IsPlay(x, g) => g = f
    BY <2>1 DEF IsPlay
  <2>13. Pipes(v) /\ Released(v)
    BY <2>9 DEF Good, Pipes, Released, Aside, Life, SamePipe
  <2>14. Closing(v)
    BY <2>1, <2>9, <2>11 DEF Good, Closing, Life
  <2>15. \A g \in Focuses : /\ v.focuses[g].stream = t.focuses[g].stream
                            /\ v.focuses[g].phase = t.focuses[g].phase
    BY <2>3, <2>6, <2>9
  <2>16. t.focus # NULL => t.focus \in Focuses
    BY <2>2 DEF StreamType
  <2>17. Links(v)
    BY <2>9, <2>15, <2>16 DEF Good, Links
  <2>18. Bare(v)
    BY <2>9, <2>15 DEF Good, Bare, Aside, SamePipe
  <2>19. Closed(v)
    BY <2>9, <2>15 DEF Closed, Life, SamePipe
  <2>20. Plays(v)
    <3> SUFFICES ASSUME NEW g \in Focuses
                 PROVE  /\ v.focuses[g].phase = "none" => v.focuses[g] = Focus0
                        /\ \A i, j \in DOMAIN v.q : IsPlay(v.q[i], g) /\ IsPlay(v.q[j], g) => i = j
                        /\ \A i \in DOMAIN v.q : IsPlay(v.q[i], g) =>
                              /\ v.focuses[g].phase # "none" /\ v.focuses[g].on_play = FALSE
                              /\ v.focuses[g].told = 0
                        /\ v.focuses[g].on_play => v.focuses[g].told = 0
                        /\ v.focuses[g].told <= 1
      BY DEF Plays
    <3>1. CASE g = f
      BY <2>3, <2>6, <2>9, <2>10, <2>11, <3>1
    <3>2. CASE g # f
      <4>1. \A i \in DOMAIN v.q : IsPlay(v.q[i], g) => i \in DOMAIN t.q /\ v.q[i] = t.q[i]
        BY <2>11, <2>12, <3>2
      <4>2. v.focuses[g] = t.focuses[g]
        BY <2>9, <3>2
      <4>3. QED
        BY <4>1, <4>2 DEF Good, Plays
    <3>3. QED
      BY <3>1, <3>2
  <2>21. Good(v)
    BY <2>9, <2>13, <2>14, <2>17, <2>18, <2>20 DEF Good, Aside
  <2>22. r = v
    BY <1>3, <1>8
  <2>23. QED
    BY <2>19, <2>21, <2>22
<1>9. u = t \/ u = Stop(t, FALSE) \/ (active /\ t.focuses[f].on_play
                                      /\ u = media_uv_stream_send(t, [op |-> "play", of |-> f]))
  <2>1. MEDIA_FOCUS_STOP \notin Active
    BY DEF Active, MEDIA_FOCUS_PLAY, MEDIA_FOCUS_STOP, MEDIA_FOCUS_PLAY_BUT_SILENT,
           MEDIA_FOCUS_PLAY_WITH_DUCK
  <2>2. CASE suggest \in Active /\ (suggest = MEDIA_FOCUS_PLAY \/ t.kind # "player")
    BY <1>5, <2>1, <2>2 DEF Suggested
  <2>3. CASE suggest = MEDIA_FOCUS_STOP
    BY <1>5, <2>1, <2>3 DEF Suggested
  <2>4. CASE /\ suggest # MEDIA_FOCUS_STOP
             /\ ~ (suggest \in Active /\ (suggest = MEDIA_FOCUS_PLAY \/ t.kind # "player"))
    BY <1>5, <2>4 DEF Suggested
  <2>5. QED
    BY <2>2, <2>3, <2>4
<1>10. QED
  BY <1>7, <1>8, <1>9

-----------------------------------------------------------------------------

\* The first request is answered.
Popped(r, t) == r = [t EXCEPT !.q = Tail(@)]

LEMMA PopGood ==
    ASSUME NEW t, Good(t), Closed(t), t.q # <<>>, NEW r, Popped(r, t)
    PROVE  /\ Good(r) /\ Closed(r) /\ Head(t.q) \in Requests
           /\ Aside(r, t) /\ Life(r, t) /\ SamePipe(r, t) /\ SameFocus(r, t) /\ r.listeners = t.listeners
           /\ Head(t.q).op = "close" => t.closing
           /\ \A f \in Focuses : IsPlay(Head(t.q), f) =>
                 /\ \A i \in DOMAIN r.q : ~ IsPlay(r.q[i], f)
                 /\ r.focuses[f].phase # "none" /\ r.focuses[f].on_play = FALSE /\ r.focuses[f].told = 0
<1>1. t \in StreamType /\ t.q \in Seq(Requests)
  BY DEF Good, StreamType
<1>2. PICK q : q = Tail(t.q)
  OBVIOUS
<1>3. /\ q \in Seq(Requests) /\ Len(q) = Len(t.q) - 1 /\ Len(t.q) \in Nat \ {0}
      /\ \A i \in 1 .. Len(q) : q[i] = t.q[i + 1]
      /\ Head(t.q) \in Requests /\ Head(t.q) = t.q[1]
  BY <1>1, <1>2, HeadTailProperties
<1>4. r = [t EXCEPT !.q = q]
  BY <1>2 DEF Popped
<1>5. /\ r \in StreamType /\ Aside(r, t) /\ Life(r, t) /\ SamePipe(r, t) /\ SameFocus(r, t)
      /\ r.listeners = t.listeners /\ r.q = q
  BY <1>1, <1>3, <1>4 DEF StreamType, Aside, Life, SamePipe, SameFocus
<1>6. /\ 1 \in DOMAIN t.q
      /\ \A i \in DOMAIN r.q : i + 1 \in DOMAIN t.q /\ r.q[i] = t.q[i + 1] /\ i \in Nat \ {0}
  BY <1>1, <1>3, <1>5
<1>7. Links(r) /\ Pipes(r) /\ Released(r) /\ Bare(r)
  BY <1>5 DEF Good, Links, Pipes, Released, Bare, Aside, Life, SamePipe, SameFocus
<1>8. Closing(r)
  BY <1>5, <1>6 DEF Good, Closing, Life
<1>9. Plays(r)
  <2>1. \A f \in Focuses : \A i, j \in DOMAIN r.q : IsPlay(r.q[i], f) /\ IsPlay(r.q[j], f) => i = j
    <3> SUFFICES ASSUME NEW f \in Focuses, NEW i \in DOMAIN r.q, NEW j \in DOMAIN r.q,
                        IsPlay(r.q[i], f), IsPlay(r.q[j], f)
                 PROVE  i = j
      OBVIOUS
    <3>1. PICK k \in DOMAIN t.q : k = i + 1
      BY <1>6
    <3>2. PICK l \in DOMAIN t.q : l = j + 1
      BY <1>6
    <3>3. IsPlay(t.q[k], f) /\ IsPlay(t.q[l], f)
      BY <1>6, <3>1, <3>2
    <3>4. k = l
      BY <3>3 DEF Good, Plays
    <3>5. QED
      BY <1>6, <3>1, <3>2, <3>4
  <2>2. \A f \in Focuses : \A i \in DOMAIN r.q : IsPlay(r.q[i], f) =>
           t.focuses[f].phase # "none" /\ t.focuses[f].on_play = FALSE /\ t.focuses[f].told = 0
    BY <1>6 DEF Good, Plays
  <2>3. QED
    BY <1>5, <2>1, <2>2 DEF Good, Plays, SameFocus
<1>10. Closed(r)
  BY <1>5 DEF Closed, Life, SamePipe, SameFocus
<1>11. Head(t.q).op = "close" => t.closing
  BY <1>3, <1>6 DEF Good, Closing
<1>12. ASSUME NEW f \in Focuses, IsPlay(Head(t.q), f)
       PROVE  /\ \A i \in DOMAIN r.q : ~ IsPlay(r.q[i], f)
              /\ r.focuses[f].phase # "none" /\ r.focuses[f].on_play = FALSE /\ r.focuses[f].told = 0
  <2>1. IsPlay(t.q[1], f)
    BY <1>3, <1>12
  <2>2. \A i \in DOMAIN r.q : ~ IsPlay(r.q[i], f)
    <3> SUFFICES ASSUME NEW i \in DOMAIN r.q, IsPlay(r.q[i], f)
                 PROVE  FALSE
      OBVIOUS
    <3>1. PICK k \in DOMAIN t.q : k = i + 1
      BY <1>6
    <3>2. IsPlay(t.q[k], f)
      BY <1>6, <3>1
    <3>3. k = 1
      BY <1>6, <2>1, <3>2 DEF Good, Plays
    <3>4. QED
      BY <1>6, <3>1, <3>3
  <2>3. t.focuses[f].phase # "none" /\ t.focuses[f].on_play = FALSE /\ t.focuses[f].told = 0
    BY <1>6, <2>1 DEF Good, Plays
  <2>4. QED
    BY <1>5, <2>2, <2>3 DEF SameFocus
<1>13. QED
  BY <1>3, <1>5, <1>7, <1>8, <1>9, <1>10, <1>11, <1>12 DEF Good, Aside

\* The queue is gone.
LEMMA DropGood ==
    ASSUME NEW t, Good(t), Closed(t), NEW r, r = [t EXCEPT !.q = <<>>]
    PROVE  /\ Good(r) /\ Closed(r)
           /\ Aside(r, t) /\ Life(r, t) /\ SamePipe(r, t) /\ SameFocus(r, t) /\ r.listeners = t.listeners
<1>1. <<>> \in Seq(Requests) /\ DOMAIN <<>> = {}
  OBVIOUS
<1>2. /\ r \in StreamType /\ Aside(r, t) /\ Life(r, t) /\ SamePipe(r, t) /\ SameFocus(r, t)
      /\ r.listeners = t.listeners /\ DOMAIN r.q = {}
  BY <1>1 DEF Good, StreamType, Aside, Life, SamePipe, SameFocus
<1>3. Links(r) /\ Plays(r) /\ Pipes(r) /\ Released(r) /\ Closing(r) /\ Bare(r)
  BY <1>2 DEF Good, Links, Plays, Pipes, Released, Closing, Bare, Aside, Life, SamePipe, SameFocus
<1>4. Closed(r)
  BY <1>2 DEF Closed, Life, SamePipe, SameFocus
<1>5. QED
  BY <1>2, <1>3, <1>4 DEF Good, Aside

\* An answer is that of the first request; behind "open" and "query" the
\* application may close at once.
LEMMA AnswerGood ==
    ASSUME Good(s), Closed(s), NEW then \in Thens, Answer(then)
    PROVE  Good(s)' /\ Closed(s)'
<1>1. PICK t : t = s
  OBVIOUS
<1>2. PICK r : r = s'
  OBVIOUS
<1>3. PICK p : Popped(p, t)
  BY DEF Popped
<1>4. PICK x : x = Head(t.q)
  OBVIOUS
<1>5. /\ Good(t) /\ Closed(t) /\ t.q # <<>> /\ t.link \in {"opening", "up", "disconnecting"}
      /\ r = CASE x.op = "open" ->
                    Application([p EXCEPT !.link = IF @ = "opening" THEN "up" ELSE @], then)
               [] x.op = "close" -> [p EXCEPT !.link = "disconnecting"]
               [] x.op = "call"  -> Application(p, then)
               [] x.op = "play"  -> Application([p EXCEPT !.focuses[x.of].told = @ + 1], then)
               [] x.op = "query" -> QueryAnswer(p, x.of, then)
  BY <1>1, <1>2, <1>3, <1>4 DEF Answer, Popped
<1>6. /\ Good(p) /\ Closed(p) /\ x \in Requests
      /\ Aside(p, t) /\ Life(p, t) /\ SamePipe(p, t) /\ SameFocus(p, t) /\ p.listeners = t.listeners
      /\ x.op = "close" => t.closing
      /\ \A f \in Focuses : IsPlay(x, f) =>
            /\ \A i \in DOMAIN p.q : ~ IsPlay(p.q[i], f)
            /\ p.focuses[f].phase # "none" /\ p.focuses[f].on_play = FALSE /\ p.focuses[f].told = 0
  BY <1>3, <1>4, <1>5, PopGood
<1>7. p.freed = FALSE /\ p.link = t.link
  BY <1>5, <1>6 DEF Good, Released, StreamType, Life
<1>8. Good(r) /\ Closed(r)
  <2>1. CASE x.op = "open"
    <3>1. PICK y : y = IF p.link = "opening" THEN "up" ELSE p.link
      OBVIOUS
    <3>2. y \in {"up", "disconnecting"} /\ (y = "disconnecting" => p.closing)
      BY <1>5, <1>6, <1>7, <3>1 DEF Good, Closing
    <3>3. PICK u : u = [p EXCEPT !.link = y]
      OBVIOUS
    <3>4. Good(u) /\ Closed(u)
      BY <1>6, <1>7, <3>2, <3>3, LinkGood
    <3>5. r = Application(u, then)
      BY <1>5, <2>1, <3>1, <3>3
    <3>6. QED
      BY <3>4, <3>5, ApplicationGood
  <2>2. CASE x.op = "close"
    <3>1. r = [p EXCEPT !.link = "disconnecting"]
      BY <1>5, <2>2
    <3>2. p.closing
      BY <1>6, <2>2 DEF Life
    <3>3. QED
      BY <1>6, <1>7, <3>1, <3>2, LinkGood
  <2>3. CASE x.op = "call"
    <3>1. r = Application(p, then)
      BY <1>5, <2>3
    <3>2. QED
      BY <1>6, <3>1, ApplicationGood
  <2>4. CASE x.op = "play"
    <3>1. PICK f \in Focuses : f = x.of
      BY <1>6, <2>4 DEF Requests
    <3>2. IsPlay(x, f)
      BY <1>6, <2>4, <3>1 DEF Requests, IsPlay
    <3>3. /\ \A i \in DOMAIN p.q : ~ IsPlay(p.q[i], f)
          /\ p.focuses[f].phase # "none" /\ p.focuses[f].on_play = FALSE /\ p.focuses[f].told = 0
      BY <1>6, <3>2
    <3>4. PICK e : e = p.focuses[f]
      OBVIOUS
    <3>5. p \in StreamType /\ p.focuses \in [Focuses -> FocusType] /\ e \in FocusType
      BY <1>6, <3>4 DEF Good, StreamType
    <3>6. PICK d : d = [e EXCEPT !.told = 1]
      OBVIOUS
    <3>7. /\ d \in FocusType /\ d.phase = e.phase /\ d.stream = e.stream /\ d.told = 1
          /\ d.on_play = FALSE
      BY <3>3, <3>4, <3>5, <3>6 DEF FocusType
    <3>8. PICK u : u = [p EXCEPT !.focuses = [p.focuses EXCEPT ![f] = d]]
      OBVIOUS
    <3>9. FocusSet(u, p, f, d)
      BY <3>5, <3>7, <3>8, SetFocus
    <3>10. Good(u) /\ Closed(u)
      <4>1. /\ p.focuses[f].phase # "none" /\ d.phase # "none"
            /\ d.stream = p.focuses[f].stream
            /\ p.focuses[f].phase = "dead" => d.phase = "dead"
            /\ d.on_play => d.told = 0
            /\ d.told <= 1
            /\ \A i \in DOMAIN p.q : IsPlay(p.q[i], f) => d.on_play = FALSE /\ d.told = 0
        BY <3>3, <3>4, <3>7
      <4>2. QED
        BY <1>6, <3>9, <4>1, FocusGood, Zenon
    <3>11. u = [p EXCEPT !.focuses[f].told = @ + 1]
      BY <3>3, <3>4, <3>6, <3>8
    <3>12. r = Application(u, then)
      BY <1>5, <2>4, <3>1, <3>11
    <3>13. QED
      BY <3>10, <3>12, ApplicationGood
  <2>5. CASE x.op = "query"
    <3>1. PICK field \in Fields : field = x.of /\ field # "volume"
      BY <1>6, <2>5 DEF Requests
    <3>2. r = QueryAnswer(p, field, then)
      BY <1>5, <2>5, <3>1
    <3>3. QED
      BY <1>6, <1>7, <3>1, <3>2, QueryAnswerGood
  <2>6. x.op \in {"open", "close", "call", "play", "query"}
    BY <1>6 DEF Requests
  <2>7. QED
    BY <2>1, <2>2, <2>3, <2>4, <2>5, <2>6
<1>9. QED
  BY <1>2, <1>8 DEF Good, Closed, Links, Plays, Pipes, Released, Closing, Bare

\* What a callback of the loop or a call of the application finds.
LEMMA Found ==
    ASSUME Good(s), Closed(s)
    PROVE  /\ s \in StreamType
           /\ s.freed \in BOOLEAN /\ s.closing \in BOOLEAN
           /\ s.freed => s.closing
           /\ s.freed => s.link = "gone" /\ s.expected = {} /\ \A k \in Cpus : s.listeners[k] = "none"
           /\ s.volumes > 0 => s.volumes = 1 /\ "volume" \in s.expected
<1>1. s \in StreamType
  BY DEF Good
<1>2. /\ s.freed => s.link = "gone" /\ s.expected = {} /\ \A k \in Cpus : s.listeners[k] = "none"
      /\ s.link = "gone" => s.closing
      /\ s.volumes > 0 => "volume" \in s.expected
      /\ s.volumes <= 1
  BY DEF Good, Released, Closing
<1>3. s.freed \in BOOLEAN /\ s.closing \in BOOLEAN /\ s.volumes \in Nat
  BY <1>1 DEF StreamType
<1>4. QED
  BY <1>1, <1>2, <1>3

\* The connection is gone, and the requests with it.
LEMMA DisconnectGood ==
    ASSUME Good(s), Closed(s), media_uv_stream_disconnect_cb
    PROVE  Good(s)' /\ Closed(s)'
<1>1. PICK t : t = s
  OBVIOUS
<1>2. PICK r : r = s'
  OBVIOUS
<1>3. PICK u : u = [t EXCEPT !.link = "gone"]
  OBVIOUS
<1>4. PICK v : v = [u EXCEPT !.q = <<>>]
  OBVIOUS
<1>5. /\ Good(t) /\ Closed(t) /\ t.link = "disconnecting" /\ t.freed = FALSE /\ t.closing
      /\ r = media_uv_stream_release(v)
  <2>1. s.link = "disconnecting"
    BY DEF media_uv_stream_disconnect_cb
  <2>2. r = media_uv_stream_release(v)
    BY <1>1, <1>2, <1>3, <1>4 DEF media_uv_stream_disconnect_cb
  <2>3. QED
    BY <1>1, <2>1, <2>2, Found DEF Good, Closing
<1>6. Good(u) /\ Closed(u) /\ u.freed = FALSE
  BY <1>3, <1>5, LinkGood
<1>7. Good(v) /\ Closed(v) /\ v.freed = FALSE
  BY <1>4, <1>6, DropGood DEF Life
<1>8. Good(r) /\ Closed(r)
  BY <1>5, <1>7, ReleaseGood
<1>9. QED
  BY <1>2, <1>8 DEF Good, Closed, Links, Plays, Pipes, Released, Closing, Bare

\* Listeners change, of a stream that is still there.
LEMMA ListenersSet ==
    ASSUME NEW t, Good(t), t.kind # "picture",
           NEW l \in [Cpus -> {"none", "open", "closing"}],
           t.freed => \A k \in Cpus : l[k] = "none",
           NEW r, r = [t EXCEPT !.listeners = l]
    PROVE  /\ Good(r) /\ Aside(r, t) /\ Life(r, t) /\ SamePipe(r, t) /\ SameFocus(r, t)
           /\ r.listeners = l /\ r.q = t.q
           /\ (Closed(t) /\ \A k \in Cpus : l[k] = "open" => t.listeners[k] = "open") => Closed(r)
<1>1. /\ r \in StreamType /\ Aside(r, t) /\ Life(r, t) /\ SamePipe(r, t) /\ SameFocus(r, t)
      /\ r.listeners = l /\ r.q = t.q
  BY DEF Good, StreamType, Aside, Life, SamePipe, SameFocus
<1>2. Links(r) /\ Plays(r) /\ Pipes(r) /\ Closing(r)
  BY <1>1 DEF Good, Links, Plays, Pipes, Closing, Aside, Life, SamePipe, SameFocus
<1>3. Released(r) /\ Bare(r)
  BY <1>1 DEF Good, Released, Bare, Aside, Life
<1>4. (Closed(t) /\ \A k \in Cpus : l[k] = "open" => t.listeners[k] = "open") => Closed(r)
  BY <1>1 DEF Closed, Life, SamePipe, SameFocus
<1>5. QED
  BY <1>1, <1>2, <1>3, <1>4 DEF Good, Aside

\* One listener ends, or is gone.
LEMMA ListenerGood ==
    ASSUME NEW t, Good(t), Closed(t), t.freed = FALSE, NEW k \in Cpus, t.listeners[k] # "none",
           NEW x \in {"none", "closing"}, NEW r, r = [t EXCEPT !.listeners[k] = x]
    PROVE  /\ Good(r) /\ Closed(r) /\ Aside(r, t) /\ Life(r, t) /\ SamePipe(r, t) /\ SameFocus(r, t)
<1>1. t.listeners \in [Cpus -> {"none", "open", "closing"}]
  BY DEF Good, StreamType
<1>2. PICK l : l = [t.listeners EXCEPT ![k] = x]
  OBVIOUS
<1>3. /\ l \in [Cpus -> {"none", "open", "closing"}]
      /\ \A j \in Cpus : l[j] = "open" => t.listeners[j] = "open"
  BY <1>1, <1>2
<1>4. r = [t EXCEPT !.listeners = l]
  BY <1>2
<1>5. t.kind # "picture"
  BY DEF Good, Bare
<1>6. QED
  BY <1>3, <1>4, <1>5, ListenersSet

\* A listener has ended; it may be the last thing waited for.
LEMMA ListenerClosedGood ==
    ASSUME Good(s), Closed(s), NEW k \in Cpus, ListenerClosed(k)
    PROVE  Good(s)' /\ Closed(s)'
<1>1. PICK t : t = s
  OBVIOUS
<1>2. PICK r : r = s'
  OBVIOUS
<1>3. PICK u : u = [t EXCEPT !.listeners[k] = "none"]
  OBVIOUS
<1>4. s.listeners[k] = "closing" /\ s.freed = FALSE
  <2>1. s.listeners[k] = "closing"
    BY DEF ListenerClosed
  <2>2. QED
    BY <2>1, Found
<1>5. /\ Good(t) /\ Closed(t) /\ t.listeners[k] # "none" /\ t.freed = FALSE
      /\ r = media_uv_stream_release(u)
  BY <1>1, <1>2, <1>3, <1>4 DEF ListenerClosed
<1>6. Good(u) /\ Closed(u) /\ u.freed = FALSE
  BY <1>3, <1>5, ListenerGood DEF Life
<1>7. Good(r) /\ Closed(r)
  BY <1>5, <1>6, ReleaseGood
<1>8. QED
  BY <1>2, <1>7 DEF Good, Closed, Links, Plays, Pipes, Released, Closing, Bare

\* A volume query begins or ends.
LEMMA VolumesSet ==
    ASSUME NEW t, Good(t), NEW n \in {0, 1}, n > 0 => "volume" \in t.expected,
           NEW r, r = [t EXCEPT !.volumes = n]
    PROVE  /\ Good(r) /\ (Closed(t) => Closed(r)) /\ Life(r, t) /\ r.volumes = n
           /\ r.link = t.link /\ r.q = t.q /\ r.calls = t.calls
<1>1. /\ r \in StreamType /\ Life(r, t) /\ SamePipe(r, t) /\ SameFocus(r, t)
      /\ r.listeners = t.listeners /\ r.q = t.q /\ r.volumes = n /\ r.kind = t.kind
      /\ r.prepared = t.prepared /\ r.bad = t.bad /\ r.calls = t.calls
  <2>1. n \in Nat
    OBVIOUS
  <2>2. QED
    BY <2>1 DEF Good, StreamType, Life, SamePipe, SameFocus
<1>2. Links(r) /\ Plays(r) /\ Pipes(r) /\ Closing(r) /\ Bare(r)
  BY <1>1 DEF Good, Links, Plays, Pipes, Closing, Bare, Life, SamePipe, SameFocus
<1>3. Released(r)
  BY <1>1 DEF Good, Released, Life
<1>4. Closed(t) => Closed(r)
  BY <1>1 DEF Closed, Life, SamePipe, SameFocus
<1>5. QED
  BY <1>1, <1>2, <1>3, <1>4 DEF Good, Life

\* The volume comes on a connection of its own.
LEMMA VolumeAnsweredGood ==
    ASSUME Good(s), Closed(s), NEW then \in Thens, VolumeAnswered(then)
    PROVE  Good(s)' /\ Closed(s)'
<1>1. PICK t : t = s
  OBVIOUS
<1>2. PICK r : r = s'
  OBVIOUS
<1>3. PICK u : u = [t EXCEPT !.volumes = 0]
  OBVIOUS
<1>4. s.volumes = 1 /\ "volume" \in s.expected /\ s.freed = FALSE
  <2>1. s.volumes > 0
    BY DEF VolumeAnswered
  <2>2. QED
    BY <2>1, Found
<1>5. Good(t) /\ Closed(t) /\ t.freed = FALSE /\ r = QueryAnswer(u, "volume", then)
  BY <1>1, <1>2, <1>3, <1>4 DEF VolumeAnswered
<1>6. Good(u) /\ Closed(u) /\ u.freed = FALSE /\ ~ u.volumes > 0
  BY <1>3, <1>5, VolumesSet DEF Life
<1>7. PICK field \in Fields : field = "volume"
  BY DEF Fields
<1>8. Good(r) /\ Closed(r)
  BY <1>5, <1>6, <1>7, QueryAnswerGood
<1>9. QED
  BY <1>2, <1>8 DEF Good, Closed, Links, Plays, Pipes, Released, Closing, Bare

\* An answer will not come.
LEMMA LostGood ==
    ASSUME NEW t, Good(t), NEW x \in BOOLEAN, NEW r, r = [t EXCEPT !.lost = x]
    PROVE  /\ Good(r) /\ (Closed(t) => Closed(r)) /\ Life(r, t) /\ r.kind = t.kind
<1>1. /\ r \in StreamType /\ Life(r, t) /\ SamePipe(r, t) /\ SameFocus(r, t)
      /\ r.listeners = t.listeners /\ r.q = t.q /\ r.volumes = t.volumes /\ r.kind = t.kind
      /\ r.prepared = t.prepared /\ r.bad = t.bad
  BY DEF Good, StreamType, Life, SamePipe, SameFocus
<1>2. Links(r) /\ Plays(r) /\ Pipes(r) /\ Released(r) /\ Closing(r) /\ Bare(r)
  BY <1>1 DEF Good, Links, Plays, Pipes, Released, Closing, Bare, Life, SamePipe, SameFocus
<1>3. Closed(t) => Closed(r)
  BY <1>1 DEF Closed, Life, SamePipe, SameFocus
<1>4. QED
  BY <1>1, <1>2, <1>3 DEF Good

\* It never comes, and the stream goes on expecting it.
LEMMA VolumeLostGood ==
    ASSUME Good(s), Closed(s), VolumeLost
    PROVE  Good(s)' /\ Closed(s)'
<1>1. PICK t : t = s
  OBVIOUS
<1>2. PICK r : r = s'
  OBVIOUS
<1>3. PICK u : u = [t EXCEPT !.volumes = 0]
  OBVIOUS
<1>4. s.volumes = 1
  <2>1. s.volumes > 0
    BY DEF VolumeLost
  <2>2. QED
    BY <2>1, Found
<1>5. Good(t) /\ Closed(t) /\ r = [u EXCEPT !.lost = TRUE]
  BY <1>1, <1>2, <1>3, <1>4 DEF VolumeLost
<1>6. Good(u) /\ Closed(u)
  BY <1>3, <1>5, VolumesSet
<1>7. Good(r) /\ Closed(r)
  BY <1>5, <1>6, LostGood
<1>8. QED
  BY <1>2, <1>7 DEF Good, Closed, Links, Plays, Pipes, Released, Closing, Bare

\* No server takes the stream.
LEMMA OpenRefusedGood ==
    ASSUME Good(s), Closed(s), OpenRefused
    PROVE  Good(s)' /\ Closed(s)'
<1>1. PICK t : t = s
  OBVIOUS
<1>2. PICK r : r = s'
  OBVIOUS
<1>3. PICK x \in BOOLEAN : x = (t.lost \/ t.expected \ {"volume"} # {} \/ t.closing)
  OBVIOUS
<1>4. PICK u : u = [t EXCEPT !.link = "refused"]
  OBVIOUS
<1>5. PICK v : v = [u EXCEPT !.q = <<>>]
  OBVIOUS
<1>6. PICK w : w = [v EXCEPT !.lost = x]
  OBVIOUS
<1>7. s.link = "opening" /\ s.freed = FALSE
  <2>1. s.link = "opening"
    BY DEF OpenRefused
  <2>2. QED
    BY <2>1, Found
<1>8. /\ Good(t) /\ Closed(t) /\ t.freed = FALSE
      /\ r = IF t.kind = "picture" THEN PictureClose(w) ELSE Application(w, "close")
  BY <1>1, <1>2, <1>3, <1>4, <1>5, <1>6, <1>7 DEF OpenRefused
<1>9. Good(u) /\ Closed(u) /\ u.kind = t.kind
  BY <1>4, <1>8, LinkGood DEF Aside
<1>10. Good(v) /\ Closed(v) /\ v.kind = u.kind
  BY <1>5, <1>9, DropGood DEF Aside
<1>11. Good(w) /\ Closed(w) /\ w.kind = t.kind
  BY <1>6, <1>9, <1>10, LostGood
<1>12. Good(r) /\ Closed(r)
  <2>1. CASE t.kind = "picture"
    BY <1>8, <1>11, <2>1, PictureCloseGood
  <2>2. CASE t.kind # "picture"
    <3>1. PICK then \in Thens : then = "close"
      BY DEF Thens
    <3>2. r = Application(w, then)
      BY <1>8, <2>2, <3>1
    <3>3. QED
      BY <1>11, <3>2, ApplicationGood
  <2>3. QED
    BY <2>1, <2>2
<1>13. QED
  BY <1>2, <1>12 DEF Good, Closed, Links, Plays, Pipes, Released, Closing, Bare

\* An event of the server.
LEMMA EventGood ==
    ASSUME Good(s), Closed(s), NEW e, NEW then \in Thens, Event(e, then)
    PROVE  Good(s)' /\ Closed(s)'
<1>1. PICK t : t = s
  OBVIOUS
<1>2. PICK r : r = s'
  OBVIOUS
<1>3. PICK u : u = IF e = "COMPLETED" THEN media_uv_stream_abandon_focus(t) ELSE t
  OBVIOUS
<1>4. /\ Good(t) /\ Closed(t)
      /\ (r = PictureClose(t) /\ t.kind = "picture") \/ r = t \/ r = Application(u, then)
  BY <1>1, <1>2, <1>3 DEF Event
<1>5. Good(u) /\ Closed(u)
  <2>1. CASE u = t
    BY <1>4, <2>1
  <2>2. CASE u = media_uv_stream_abandon_focus(t)
    BY <1>4, <2>2, AbandonGood
  <2>3. QED
    BY <1>3, <2>1, <2>2
<1>6. Good(r) /\ Closed(r)
  <2>1. CASE r = PictureClose(t) /\ t.kind = "picture"
    BY <1>4, <2>1, PictureCloseGood
  <2>2. CASE r = t
    BY <1>4, <2>2
  <2>3. CASE r = Application(u, then)
    BY <1>5, <2>3, ApplicationGood
  <2>4. QED
    BY <1>4, <2>1, <2>2, <2>3
<1>7. QED
  BY <1>2, <1>6 DEF Good, Closed, Links, Plays, Pipes, Released, Closing, Bare

\* Focus f, which has a server or waits for one, comes to phase x.
Phased(r, t, f, x) == r = [t EXCEPT !.focuses[f].phase = x]

LEMMA PhaseGood ==
    ASSUME NEW t, Good(t), Closed(t), NEW f \in Focuses,
           t.focuses[f].phase \notin {"none", "dead"},
           NEW x \in {"asking", "held", "deaf", "dead", "freed"}, NEW r, Phased(r, t, f, x)
    PROVE  /\ Good(r) /\ Closed(r) /\ Life(r, t)
           /\ r.focuses[f].phase = x /\ r.focuses[f].stream = t.focuses[f].stream
<1>1. PICK e : e = t.focuses[f]
  OBVIOUS
<1>2. t.focuses \in [Focuses -> FocusType] /\ e \in FocusType
  BY <1>1 DEF Good, StreamType
<1>3. PICK d : d = [e EXCEPT !.phase = x]
  OBVIOUS
<1>4. /\ d \in FocusType /\ d.phase = x /\ d.stream = e.stream /\ d.told = e.told
      /\ d.on_play = e.on_play
  BY <1>2, <1>3 DEF FocusType
<1>5. r = [t EXCEPT !.focuses = [t.focuses EXCEPT ![f] = d]]
  BY <1>1, <1>3 DEF Phased
<1>6. FocusSet(r, t, f, d)
  BY <1>4, <1>5, SetFocus DEF Good
<1>7. /\ e.on_play => e.told = 0
      /\ e.told <= 1
      /\ \A i \in DOMAIN t.q : IsPlay(t.q[i], f) => e.on_play = FALSE /\ e.told = 0
  BY <1>1 DEF Good, Plays
<1>8. /\ t.focuses[f].phase # "none" /\ d.phase # "none"
      /\ d.stream = t.focuses[f].stream
      /\ t.focuses[f].phase = "dead" => d.phase = "dead"
      /\ d.on_play => d.told = 0
      /\ d.told <= 1
      /\ \A i \in DOMAIN t.q : IsPlay(t.q[i], f) => d.on_play = FALSE /\ d.told = 0
  BY <1>1, <1>4, <1>7
<1>9. Good(r) /\ (Closed(t) => Closed(r))
  BY <1>6, <1>8, FocusGood, Zenon
<1>10. QED
  BY <1>1, <1>4, <1>6, <1>9 DEF FocusSet

\* The stream is not freed while a focus with a server belongs to it.
LEMMA FocusStream ==
    ASSUME Good(s), Closed(s), NEW f \in Focuses, s.focuses[f].phase # "dead"
    PROVE  s.focuses[f].stream => s.freed = FALSE
BY Found DEF Closed

\* The focus is asked for, or its connection fails and it is stopped.
LEMMA FocusConnectedGood ==
    ASSUME Good(s), Closed(s), NEW f \in Focuses, NEW phase \in {"asking", "deaf", "dead"},
           NEW then \in Thens, FocusConnected(f, phase, then)
    PROVE  Good(s)' /\ Closed(s)'
<1>1. PICK t : t = s
  OBVIOUS
<1>2. PICK r : r = s'
  OBVIOUS
<1>3. PICK u : Phased(u, t, f, phase)
  BY DEF Phased
<1>4. s.focuses[f].phase = "connecting" /\ (s.focuses[f].stream => s.freed = FALSE)
  BY FocusStream DEF FocusConnected
<1>5. /\ Good(t) /\ Closed(t) /\ t.focuses[f].phase = "connecting"
      /\ t.focuses[f].stream => t.freed = FALSE
      /\ r = IF phase = "asking" THEN u ELSE Suggest(u, f, EPERM, then)
  BY <1>1, <1>2, <1>3, <1>4 DEF FocusConnected, Phased
<1>6. /\ Good(u) /\ Closed(u) /\ u.focuses[f].phase # "none"
      /\ u.focuses[f].stream => u.freed = FALSE
  BY <1>3, <1>5, PhaseGood DEF Life
<1>7. PICK suggest : suggest = EPERM
  OBVIOUS
<1>8. Good(r) /\ Closed(r)
  <2>1. CASE r = u
    BY <1>6, <2>1
  <2>2. CASE r = Suggest(u, f, suggest, then)
    BY <1>6, <2>2, SuggestGood
  <2>3. QED
    BY <1>5, <1>7, <2>1, <2>2
<1>9. QED
  BY <1>2, <1>8 DEF Good, Closed, Links, Plays, Pipes, Released, Closing, Bare

\* The answer to the request is a suggestion.
LEMMA FocusAnsweredGood ==
    ASSUME Good(s), Closed(s), NEW f \in Focuses, NEW suggest,
           NEW then \in Thens, FocusAnswered(f, suggest, then)
    PROVE  Good(s)' /\ Closed(s)'
<1>1. PICK t : t = s
  OBVIOUS
<1>2. PICK r : r = s'
  OBVIOUS
<1>3. PICK u : Phased(u, t, f, "held")
  BY DEF Phased
<1>4. s.focuses[f].phase = "asking" /\ (s.focuses[f].stream => s.freed = FALSE)
  BY FocusStream DEF FocusAnswered
<1>5. /\ Good(t) /\ Closed(t) /\ t.focuses[f].phase = "asking"
      /\ t.focuses[f].stream => t.freed = FALSE
      /\ r = Suggest(u, f, suggest, then)
  BY <1>1, <1>2, <1>3, <1>4 DEF FocusAnswered, Phased
<1>6. /\ Good(u) /\ Closed(u) /\ u.focuses[f].phase # "none"
      /\ u.focuses[f].stream => u.freed = FALSE
  BY <1>3, <1>5, PhaseGood DEF Life
<1>7. Good(r) /\ Closed(r)
  BY <1>5, <1>6, SuggestGood
<1>8. QED
  BY <1>2, <1>7 DEF Good, Closed, Links, Plays, Pipes, Released, Closing, Bare

\* A later suggestion; it may overtake the answer.
LEMMA FocusEventGood ==
    ASSUME Good(s), Closed(s), NEW f \in Focuses, NEW suggest,
           NEW then \in Thens, FocusEvent(f, suggest, then)
    PROVE  Good(s)' /\ Closed(s)'
<1>1. PICK t : t = s
  OBVIOUS
<1>2. PICK r : r = s'
  OBVIOUS
<1>3. s.focuses[f].phase \in {"asking", "held"} /\ (s.focuses[f].stream => s.freed = FALSE)
  BY FocusStream DEF FocusEvent
<1>4. /\ Good(t) /\ Closed(t) /\ t.focuses[f].phase # "none"
      /\ t.focuses[f].stream => t.freed = FALSE
      /\ r = Suggest(t, f, suggest, then)
  BY <1>1, <1>2, <1>3 DEF FocusEvent
<1>5. Good(r) /\ Closed(r)
  BY <1>4, SuggestGood
<1>6. QED
  BY <1>2, <1>5 DEF Good, Closed, Links, Plays, Pipes, Released, Closing, Bare

\* The focus is freed; the stream was detached before.
LEMMA FocusAbandonedGood ==
    ASSUME Good(s), Closed(s), NEW f \in Focuses, FocusAbandoned(f)
    PROVE  Good(s)' /\ Closed(s)'
<1>1. PICK t : t = s
  OBVIOUS
<1>2. PICK r : r = s'
  OBVIOUS
<1>3. Good(t) /\ Closed(t) /\ t.focuses[f].phase \in {"held", "deaf"} /\ Phased(r, t, f, "freed")
  BY <1>1, <1>2 DEF FocusAbandoned, Phased
<1>4. Good(r) /\ Closed(r)
  BY <1>3, PhaseGood
<1>5. QED
  BY <1>2, <1>4 DEF Good, Closed, Links, Plays, Pipes, Released, Closing, Bare

\* The server has made one more connection.
LEMMA DialedGood ==
    ASSUME NEW t, Good(t), t.dialed < t.prepared, NEW r, r = [t EXCEPT !.dialed = @ + 1]
    PROVE  /\ Good(r) /\ (Closed(t) => Closed(r)) /\ Life(r, t) /\ r.kind = t.kind
           /\ r.listeners = t.listeners
<1>1. PICK n \in 0 .. MaxPrepares : n = t.dialed + 1
  BY UvStreamAssumption DEF Good, StreamType
<1>2. r = [t EXCEPT !.dialed = n]
  BY <1>1
<1>3. /\ r \in StreamType /\ Life(r, t) /\ SamePipe(r, t) /\ SameFocus(r, t)
      /\ r.listeners = t.listeners /\ r.q = t.q /\ r.volumes = t.volumes /\ r.kind = t.kind
      /\ r.prepared = t.prepared /\ r.bad = t.bad
  BY <1>2 DEF Good, StreamType, Life, SamePipe, SameFocus
<1>4. Links(r) /\ Plays(r) /\ Pipes(r) /\ Released(r) /\ Closing(r) /\ Bare(r)
  BY <1>3 DEF Good, Links, Plays, Pipes, Released, Closing, Bare, Life, SamePipe, SameFocus
<1>5. Closed(t) => Closed(r)
  BY <1>3 DEF Closed, Life, SamePipe, SameFocus
<1>6. QED
  BY <1>3, <1>4, <1>5 DEF Good

\* There is a pipe.
LEMMA PipeGood ==
    ASSUME NEW t, Good(t), t.kind # "picture", t.closing = FALSE, NEW r, r = [t EXCEPT !.pipe = TRUE]
    PROVE  /\ Good(r) /\ r.closing = FALSE /\ Life(r, t)
<1>1. /\ r \in StreamType /\ Aside(r, t) /\ Life(r, t) /\ SameFocus(r, t)
      /\ r.listeners = t.listeners /\ r.q = t.q /\ r.told = t.told /\ r.on_connection = t.on_connection
  BY DEF Good, StreamType, Aside, Life, SameFocus
<1>2. Links(r) /\ Plays(r) /\ Pipes(r) /\ Released(r) /\ Closing(r) /\ Bare(r)
  BY <1>1 DEF Good, Links, Plays, Pipes, Released, Closing, Bare, Aside, Life, SameFocus
<1>3. QED
  BY <1>1, <1>2 DEF Good, Aside, Life

\* on_connection is called for the prepare that waits for it.
LEMMA ConnectedGood ==
    ASSUME NEW t, Good(t), t.closing = FALSE, t.on_connection # NULL,
           NEW r, r = [[t EXCEPT !.told[t.on_connection] = @ + 1] EXCEPT !.on_connection = NULL]
    PROVE  Good(r) /\ Closed(r)
<1>1. PICK n \in Prepares : n = t.on_connection /\ t.told \in [Prepares -> Nat]
  BY DEF Good, StreamType
<1>2. PICK w : w = [t.told EXCEPT ![n] = @ + 1]
  OBVIOUS
<1>3. w \in [Prepares -> Nat] /\ \A m \in Prepares : w[m] = IF m = n THEN t.told[m] + 1 ELSE t.told[m]
  BY <1>1, <1>2
<1>4. PICK v : v = [t EXCEPT !.told = w]
  OBVIOUS
<1>5. r = [v EXCEPT !.on_connection = NULL]
  BY <1>1, <1>2, <1>4
<1>6. /\ v \in StreamType /\ Aside(v, t) /\ Life(v, t) /\ SameFocus(v, t)
      /\ v.listeners = t.listeners /\ v.q = t.q /\ v.pipe = t.pipe /\ v.told = w
  BY <1>3, <1>4 DEF Good, StreamType, Aside, Life, SameFocus
<1>7. /\ r \in StreamType /\ Aside(r, v) /\ Life(r, v) /\ SameFocus(r, v)
      /\ r.listeners = v.listeners /\ r.q = v.q /\ r.pipe = v.pipe /\ r.told = v.told
      /\ r.on_connection = NULL
  BY <1>5, <1>6 DEF StreamType, Aside, Life, SameFocus
<1>8. /\ r \in StreamType /\ Aside(r, t) /\ Life(r, t) /\ SameFocus(r, t)
      /\ r.listeners = t.listeners /\ r.q = t.q /\ r.pipe = t.pipe /\ r.told = w
      /\ r.on_connection = NULL
  BY <1>6, <1>7 DEF Aside, Life, SameFocus
<1>9. Links(r) /\ Plays(r) /\ Released(r) /\ Closing(r) /\ Bare(r)
  BY <1>8 DEF Good, Links, Plays, Released, Closing, Bare, Aside, Life, SameFocus
<1>10. Pipes(r)
  <2>1. \A m \in Prepares : m # NULL
    BY NullAssumption DEF Prepares
  <2>2. QED
    BY <1>1, <1>3, <1>8, <2>1 DEF Good, Pipes, Aside
<1>11. Closed(r)
  BY <1>8 DEF Closed, Life
<1>12. QED
  BY <1>8, <1>9, <1>10, <1>11 DEF Good, Aside

\* A connection gives the prepare that waits its pipe, and ends the listeners;
\* the application does not stop or close inside on_connection.
LEMMA ConnectionGood ==
    ASSUME Good(s), Closed(s), "reenter" \notin Faults, NEW k \in Cpus, NEW outcome,
           NEW then \in Thens, Connection(k, outcome, then)
    PROVE  Good(s)' /\ Closed(s)'
<1>1. PICK t0 : t0 = s
  OBVIOUS
<1>2. PICK r : r = s'
  OBVIOUS
<1>3. PICK t : t = [t0 EXCEPT !.dialed = @ + 1]
  OBVIOUS
<1>4. PICK one : one = [t EXCEPT !.listeners[k] = "closing"]
  OBVIOUS
<1>5. PICK o : o = [t EXCEPT !.pipe = TRUE]
  OBVIOUS
<1>6. PICK u : u = media_uv_stream_listen_clear(o, k)
  OBVIOUS
<1>7. PICK c : c = media_uv_stream_close_pipe(t)
  OBVIOUS
<1>8. PICK w : w = [u EXCEPT !.told[u.on_connection] = @ + 1]
  OBVIOUS
<1>9. /\ Good(t0) /\ Closed(t0) /\ t0.listeners[k] = "open" /\ t0.dialed < t0.prepared
      /\ then = "nothing"
  BY <1>1 DEF Connection
<1>10. \/ r = one
       \/ r = media_uv_stream_listen_clear(c, NULL)
       \/ u.on_connection = NULL /\ r = media_uv_stream_close_pipe(u)
       \/ u.on_connection # NULL /\ r = [Application(w, then) EXCEPT !.on_connection = NULL]
  BY <1>1, <1>2, <1>3, <1>4, <1>5, <1>6, <1>7, <1>8 DEF Connection
<1>11. t0.closing = FALSE /\ t0.freed = FALSE /\ t0.kind # "picture"
  BY <1>1, <1>9, Found DEF Closed, Good, Bare
<1>12. /\ Good(t) /\ Closed(t) /\ t.closing = FALSE /\ t.freed = FALSE /\ t.kind # "picture"
       /\ t.listeners[k] = "open"
  BY <1>3, <1>9, <1>11, DialedGood DEF Life
<1>13. Good(one) /\ Closed(one)
  BY <1>4, <1>12, ListenerGood
<1>14. Good(c) /\ Closed(c)
  BY <1>7, <1>12, ClosePipeGood
<1>15. Good(o) /\ o.closing = FALSE
  BY <1>5, <1>12, PipeGood
<1>16. Good(u) /\ u.closing = FALSE
  <2>1. Good(u)
    BY <1>6, <1>15, ListenClearGood
  <2>2. o \in StreamType
    BY <1>15 DEF Good
  <2>3. Life(u, o)
    BY <1>6, <2>2, ListenClearEffect
  <2>4. QED
    BY <1>15, <2>1, <2>3 DEF Life
<1>17. Good(r) /\ Closed(r)
  <2>1. CASE r = one
    BY <1>13, <2>1
  <2>2. CASE r = media_uv_stream_listen_clear(c, NULL)
    <3>1. PICK a : a = NULL
      OBVIOUS
    <3>2. r = media_uv_stream_listen_clear(c, a)
      BY <2>2, <3>1
    <3>3. QED
      BY <1>14, <3>2, ListenClearGood
  <2>3. CASE u.on_connection = NULL /\ r = media_uv_stream_close_pipe(u)
    BY <1>16, <2>3, ClosePipeGood DEF Closed
  <2>4. CASE u.on_connection # NULL /\ r = [Application(w, then) EXCEPT !.on_connection = NULL]
    <3>1. Application(w, then) = w
      BY <1>9 DEF Application
    <3>2. r = [w EXCEPT !.on_connection = NULL]
      BY <2>4, <3>1
    <3>3. r = [[u EXCEPT !.told[u.on_connection] = @ + 1] EXCEPT !.on_connection = NULL]
      BY <1>8, <3>2
    <3>4. QED
      BY <1>16, <2>4, <3>3, ConnectedGood
  <2>5. QED
    BY <1>10, <2>1, <2>2, <2>3, <2>4
<1>18. QED
  BY <1>2, <1>17 DEF Good, Closed, Links, Plays, Pipes, Released, Closing, Bare

-----------------------------------------------------------------------------

\* What the application calls is open, and a player or recorder.
LEMMA CallFound ==
    ASSUME Good(s), Closed(s), Call, NEW t, t = Called
    PROVE  /\ Good(t) /\ Closed(t) /\ t.closing = FALSE /\ t.freed = FALSE /\ t.kind # "picture"
           /\ SamePipe(t, s) /\ SameFocus(t, s) /\ t.prepared = s.prepared
           /\ t.listeners = s.listeners /\ t.volumes = s.volumes /\ t.expected = s.expected
           /\ t.link = s.link
<1>1. PICK u : u = s
  OBVIOUS
<1>2. Good(u) /\ Closed(u) /\ u.calls < MaxCalls /\ ~ u.closing /\ u.kind # "picture"
  BY <1>1 DEF Call, MayCall
<1>3. t = [u EXCEPT !.calls = @ + 1]
  BY <1>1 DEF Called
<1>4. u.closing = FALSE /\ u.freed = FALSE
  BY <1>1, <1>2, Found
<1>5. /\ Good(t) /\ Closed(t)
      /\ Life(t, u) /\ SamePipe(t, u) /\ SameFocus(t, u) /\ t.listeners = u.listeners
      /\ t.kind = u.kind /\ t.prepared = u.prepared /\ t.volumes = u.volumes
  BY <1>2, <1>3, CalledGood
<1>6. QED
  BY <1>1, <1>2, <1>4, <1>5 DEF Life, SamePipe, SameFocus

\* A request that only gets an answer.
LEMMA CallGood ==
    ASSUME NEW t, Good(t), NEW r, r = media_uv_stream_send(t, Request("call"))
    PROVE  Good(r) /\ (Closed(t) => Closed(r))
<1>1. PICK x \in Requests : x = Request("call") /\ x.op = "call"
  BY CallRequest
<1>2. r = media_uv_stream_send(t, x)
  BY <1>1
<1>3. QED
  BY <1>1, <1>2, SendGood

\* media_uv_player_set_volume and its likes.
LEMMA UserSendGood ==
    ASSUME Good(s), Closed(s), UserSend
    PROVE  Good(s)' /\ Closed(s)'
<1>1. PICK r : r = s'
  OBVIOUS
<1>2. PICK t : t = Called
  OBVIOUS
<1>3. Good(t) /\ Closed(t) /\ r = media_uv_stream_send(t, Request("call"))
  BY <1>1, <1>2, CallFound DEF UserSend
<1>4. Good(r) /\ Closed(r)
  BY <1>3, CallGood
<1>5. QED
  BY <1>1, <1>4 DEF Good, Closed, Links, Plays, Pipes, Released, Closing, Bare

\* Pausing gives the focus up.
LEMMA PauseGood ==
    ASSUME Good(s), Closed(s), Pause
    PROVE  Good(s)' /\ Closed(s)'
<1>1. PICK r : r = s'
  OBVIOUS
<1>2. PICK t : t = Called
  OBVIOUS
<1>3. PICK u : u = media_uv_stream_abandon_focus(t)
  OBVIOUS
<1>4. Good(t) /\ Closed(t) /\ r = media_uv_stream_send(u, Request("call"))
  BY <1>1, <1>2, <1>3, CallFound DEF Pause
<1>5. Good(u) /\ Closed(u)
  BY <1>3, <1>4, AbandonGood
<1>6. Good(r) /\ Closed(r)
  BY <1>4, <1>5, CallGood
<1>7. QED
  BY <1>1, <1>6 DEF Good, Closed, Links, Plays, Pipes, Released, Closing, Bare

\* Stopping from outside of a callback.
LEMMA UserStopGood ==
    ASSUME Good(s), Closed(s), UserStop
    PROVE  Good(s)' /\ Closed(s)'
<1>1. PICK r : r = s'
  OBVIOUS
<1>2. PICK t : t = Called
  OBVIOUS
<1>3. Good(t) /\ Closed(t) /\ r = Stop(t, TRUE)
  BY <1>1, <1>2, CallFound DEF UserStop
<1>4. Good(r) /\ Closed(r)
  BY <1>3, StopGood
<1>5. QED
  BY <1>1, <1>4 DEF Good, Closed, Links, Plays, Pipes, Released, Closing, Bare

\* Closing from outside of a callback.
LEMMA UserCloseGood ==
    ASSUME Good(s), Closed(s), UserClose
    PROVE  Good(s)' /\ Closed(s)'
<1>1. PICK t : t = s
  OBVIOUS
<1>2. PICK r : r = s'
  OBVIOUS
<1>3. Good(t) /\ t.closing = FALSE /\ r = Close(t)
  BY <1>1, <1>2, Found DEF UserClose, MayCall
<1>4. Good(r) /\ Closed(r)
  BY <1>3, CloseGood
<1>5. QED
  BY <1>2, <1>4 DEF Good, Closed, Links, Plays, Pipes, Released, Closing, Bare

\* The listeners are there, or those made before the one that failed end.
LEMMA ListenInitGood ==
    ASSUME NEW t, Good(t), t.closing = FALSE, t.freed = FALSE, t.kind # "picture",
           NEW failed, NEW r, r = media_uv_stream_listen_init(t, failed)
    PROVE  /\ Good(r) /\ Closed(r) /\ r.closing = FALSE /\ r.freed = FALSE /\ r.kind # "picture"
           /\ SamePipe(r, t) /\ r.prepared = t.prepared
<1>1. CASE r = t
  BY <1>1 DEF SamePipe, Closed
<1>2. ASSUME NEW l \in [Cpus -> {"none", "open", "closing"}], r = [t EXCEPT !.listeners = l]
      PROVE  /\ Good(r) /\ Closed(r) /\ r.closing = FALSE /\ r.freed = FALSE /\ r.kind # "picture"
             /\ SamePipe(r, t) /\ r.prepared = t.prepared
  <2>1. Good(r) /\ Aside(r, t) /\ Life(r, t) /\ SamePipe(r, t)
    BY <1>2, ListenersSet
  <2>2. QED
    BY <2>1 DEF Aside, Life, Closed
<1>3. r = t \/ \E l \in [Cpus -> {"none", "open", "closing"}] : r = [t EXCEPT !.listeners = l]
  <2>1. CASE \E k \in Cpus : t.listeners[k] # "none"
    BY <2>1 DEF media_uv_stream_listen_init
  <2>2. CASE ~ (\E k \in Cpus : t.listeners[k] # "none") /\ failed = NULL
    <3>1. PICK l : l = [k \in Cpus |-> "open"]
      OBVIOUS
    <3>2. l \in [Cpus -> {"none", "open", "closing"}]
      BY <3>1
    <3>3. r = [t EXCEPT !.listeners = l]
      BY <2>2, <3>1 DEF media_uv_stream_listen_init
    <3>4. QED
      BY <3>2, <3>3
  <2>3. CASE ~ (\E k \in Cpus : t.listeners[k] # "none") /\ failed # NULL
    <3>1. PICK l : l = [k \in Cpus |-> IF k <= failed THEN "closing" ELSE "none"]
      OBVIOUS
    <3>2. l \in [Cpus -> {"none", "open", "closing"}]
      BY <3>1
    <3>3. r = [t EXCEPT !.listeners = l]
      BY <2>3, <3>1 DEF media_uv_stream_listen_init
    <3>4. QED
      BY <3>2, <3>3
  <2>4. QED
    BY <2>1, <2>2, <2>3
<1>4. QED
  BY <1>1, <1>2, <1>3

\* One more prepare waits for its on_connection.
LEMMA PreparedGood ==
    ASSUME NEW t, Good(t), t.closing = FALSE, t.kind # "picture",
           t.on_connection = NULL, t.prepared < MaxPrepares,
           NEW r, r = [t EXCEPT !.on_connection = t.prepared + 1, !.prepared = @ + 1]
    PROVE  Good(r) /\ Closed(r)
<1>1. PICK n \in Prepares : n = t.prepared + 1 /\ n \in 0 .. MaxPrepares
  BY UvStreamAssumption DEF Good, StreamType, Prepares
<1>2. PICK v : v = [t EXCEPT !.on_connection = n]
  OBVIOUS
<1>3. r = [v EXCEPT !.prepared = n]
  BY <1>1, <1>2
<1>4. /\ v \in StreamType /\ Life(v, t) /\ SameFocus(v, t) /\ v.kind = t.kind
      /\ v.volumes = t.volumes /\ v.bad = t.bad
      /\ v.listeners = t.listeners /\ v.q = t.q /\ v.told = t.told /\ v.on_connection = n
  BY <1>2 DEF Good, StreamType, Life, SameFocus
<1>5. /\ r \in StreamType /\ Life(r, v) /\ SameFocus(r, v) /\ r.kind = v.kind
      /\ r.volumes = v.volumes /\ r.bad = v.bad
      /\ r.listeners = v.listeners /\ r.q = v.q /\ r.told = v.told /\ r.on_connection = n
      /\ r.prepared = n
  BY <1>1, <1>3, <1>4 DEF StreamType, Life, SameFocus
<1>6. /\ r \in StreamType /\ Life(r, t) /\ SameFocus(r, t) /\ r.kind = t.kind
      /\ r.volumes = t.volumes /\ r.bad = t.bad
      /\ r.listeners = t.listeners /\ r.q = t.q /\ r.told = t.told /\ r.on_connection = n
      /\ r.prepared = n
  BY <1>4, <1>5 DEF Life, SameFocus
<1>7. Links(r) /\ Plays(r) /\ Released(r) /\ Closing(r) /\ Bare(r)
  BY <1>6 DEF Good, Links, Plays, Released, Closing, Bare, Life, SameFocus
<1>8. Pipes(r)
  <2>1. \A m \in Prepares : m # NULL /\ m \in Nat
    BY NullAssumption, UvStreamAssumption DEF Prepares
  <2>2. t.prepared \in Nat
    BY DEF Good, StreamType
  <2>3. \A m \in Prepares : t.told[m] = IF m <= t.prepared THEN 1 ELSE 0
    BY <2>1 DEF Good, Pipes
  <2>4. \A m \in Prepares : (m <= n /\ m # n) <=> m <= t.prepared
    BY <1>1, <2>1, <2>2
  <2>5. QED
    BY <1>1, <1>6, <2>1, <2>3, <2>4 DEF Pipes
<1>9. Closed(r)
  BY <1>6 DEF Closed, Life
<1>10. QED
  BY <1>6, <1>7, <1>8, <1>9 DEF Good

\* A prepare that is accepted waits for its on_connection; no other does.
LEMMA PrepareGood ==
    ASSUME Good(s), Closed(s), NEW failed, Prepare(failed)
    PROVE  Good(s)' /\ Closed(s)'
<1>1. PICK r : r = s'
  OBVIOUS
<1>2. PICK c : c = Called
  OBVIOUS
<1>3. PICK t : t = media_uv_stream_listen_init(c, failed)
  OBVIOUS
<1>4. PICK p : p = [t EXCEPT !.on_connection = t.prepared + 1, !.prepared = @ + 1]
  OBVIOUS
<1>5. /\ Good(c) /\ c.closing = FALSE /\ c.freed = FALSE /\ c.kind # "picture"
      /\ SamePipe(c, s) /\ c.prepared = s.prepared
  BY <1>2, CallFound DEF Prepare
<1>6. /\ Good(t) /\ Closed(t) /\ t.closing = FALSE /\ t.kind # "picture"
      /\ SamePipe(t, c) /\ t.prepared = c.prepared
  BY <1>3, <1>5, ListenInitGood
<1>7. t.prepared = s.prepared /\ t.on_connection = NULL /\ t.prepared < MaxPrepares
  BY <1>5, <1>6 DEF SamePipe, Prepare
<1>8. r = t \/ r = media_uv_stream_send(p, Request("call"))
  BY <1>1, <1>2, <1>3, <1>4, <1>7 DEF Prepare
<1>9. Good(p) /\ Closed(p)
  BY <1>4, <1>6, <1>7, PreparedGood
<1>10. Good(r) /\ Closed(r)
  BY <1>6, <1>8, <1>9, CallGood
<1>11. QED
  BY <1>1, <1>10 DEF Good, Closed, Links, Plays, Pipes, Released, Closing, Bare

\* The stream has focus f, which begins to connect.
LEMMA RequestGood ==
    ASSUME NEW t, Good(t), t.closing = FALSE, t.kind # "picture", t.focus = NULL,
           NEW f \in Focuses, t.focuses[f].phase = "none",
           NEW r, r = media_uv_stream_request_focus(t, f)
    PROVE  Good(r) /\ Closed(r)
<1>1. PICK d : d = [media_uv_focus_request EXCEPT !.stream = TRUE, !.on_play = TRUE]
  OBVIOUS
<1>2. d = [phase |-> "connecting", stream |-> TRUE, on_play |-> TRUE, leaving |-> FALSE, told |-> 0]
  BY <1>1 DEF media_uv_focus_request, Focus0
<1>3. /\ d \in FocusType /\ d.phase = "connecting" /\ d.stream = TRUE /\ d.on_play = TRUE
      /\ d.told = 0
  BY <1>2 DEF FocusType
<1>4. PICK v : v = [t EXCEPT !.focuses = [t.focuses EXCEPT ![f] = d]]
  OBVIOUS
<1>5. FocusSet(v, t, f, d)
  BY <1>3, <1>4, SetFocus DEF Good
<1>6. r = [v EXCEPT !.focus = f]
  BY <1>1, <1>4 DEF media_uv_stream_request_focus
<1>7. /\ r \in StreamType /\ Aside(r, v) /\ Life(r, v) /\ SamePipe(r, v)
      /\ r.listeners = v.listeners /\ r.q = v.q /\ r.focuses = v.focuses /\ r.focus = f
  BY <1>5, <1>6 DEF FocusSet, StreamType, Aside, Life, SamePipe
<1>8. /\ r \in StreamType /\ Aside(r, t) /\ Life(r, t) /\ SamePipe(r, t)
      /\ r.listeners = t.listeners /\ r.q = t.q /\ r.focus = f /\ r.focuses[f] = d
      /\ \A g \in Focuses \ {f} : r.focuses[g] = t.focuses[g]
  BY <1>5, <1>7 DEF FocusSet, Aside, Life, SamePipe
<1>9. Pipes(r) /\ Released(r) /\ Closing(r)
  BY <1>8 DEF Good, Pipes, Released, Closing, Aside, Life, SamePipe
<1>10. Bare(r) /\ Closed(r)
  BY <1>8 DEF Bare, Closed, Aside, Life
<1>11. Links(r)
  <2>1. \A g \in Focuses : t.focuses[g].stream => t.focuses[g].phase = "dead"
    BY FocusNotNull DEF Good, Links
  <2>2. QED
    BY <1>3, <1>8, <2>1 DEF Links
<1>12. Plays(r)
  <2>1. \A i \in DOMAIN t.q : ~ IsPlay(t.q[i], f)
    BY DEF Good, Plays
  <2>2. QED
    BY <1>3, <1>8, <2>1 DEF Good, Plays
<1>13. QED
  BY <1>8, <1>9, <1>10, <1>11, <1>12 DEF Good, Aside

\* The first start with a focus takes one that was never asked for.
LEMMA StartAutoGood ==
    ASSUME Good(s), Closed(s), StartAuto
    PROVE  Good(s)' /\ Closed(s)'
<1>1. PICK r : r = s'
  OBVIOUS
<1>2. PICK t : t = Called
  OBVIOUS
<1>3. /\ Good(t) /\ Closed(t) /\ t.closing = FALSE /\ t.kind # "picture"
      /\ SameFocus(t, s)
  BY <1>2, CallFound DEF StartAuto
<1>4. Good(r) /\ Closed(r)
  <2>1. CASE s.focus # NULL
    <3>1. r = media_uv_stream_send(t, Request("call"))
      BY <1>1, <1>2, <2>1 DEF StartAuto
    <3>2. QED
      BY <1>3, <3>1, CallGood
  <2>2. CASE s.focus = NULL
    <3>1. PICK f \in Focuses : /\ \A g \in Focuses : s.focuses[g].phase = "none" <=> g >= f
                               /\ s' = media_uv_stream_request_focus(Called, f)
      BY <2>2 DEF StartAuto
    <3>2. r = media_uv_stream_request_focus(t, f)
      BY <1>1, <1>2, <3>1
    <3>3. f >= f
      BY UvStreamAssumption, FS_CardinalityType
    <3>4. t.focus = NULL /\ t.focuses[f].phase = "none"
      BY <1>3, <2>2, <3>1, <3>3 DEF SameFocus
    <3>5. QED
      BY <1>3, <3>2, <3>4, RequestGood
  <2>3. QED
    BY <2>1, <2>2
<1>5. QED
  BY <1>1, <1>4 DEF Good, Closed, Links, Plays, Pipes, Released, Closing, Bare

\* One request of a query.
LEMMA GetGood ==
    ASSUME NEW t, Good(t), Closed(t), t.freed = FALSE, NEW field \in Fields \ {"volume"},
           NEW r, r = media_uv_stream_send(t, [op |-> "query", of |-> field])
    PROVE  Good(r) /\ Closed(r) /\ r.freed = FALSE
<1>1. PICK x \in Requests : x = [op |-> "query", of |-> field] /\ x.op = "query"
  BY DEF Requests
<1>2. r = media_uv_stream_send(t, x)
  BY <1>1
<1>3. Good(r) /\ Closed(r)
  BY <1>1, <1>2, SendGood
<1>4. t \in StreamType
  BY DEF Good
<1>5. Life(r, t)
  BY <1>2, <1>4, SendEffect
<1>6. QED
  BY <1>3, <1>5 DEF Life

\* A query expects nothing of an earlier one.
LEMMA QueryGood ==
    ASSUME Good(s), Closed(s), "requery" \notin Faults, Query
    PROVE  Good(s)' /\ Closed(s)'
<1>1. PICK r : r = s'
  OBVIOUS
<1>2. PICK c : c = Called
  OBVIOUS
<1>3. PICK x : x = {"volume"}
  OBVIOUS
<1>4. PICK e : Expecting(e, c, x)
  BY DEF Expecting
<1>5. PICK t : t = [e EXCEPT !.volumes = 1]
  OBVIOUS
<1>6. PICK a : a = media_uv_stream_send(t, [op |-> "query", of |-> "state"])
  OBVIOUS
<1>7. PICK b : b = media_uv_stream_send(a, [op |-> "query", of |-> "duration"])
  OBVIOUS
<1>8. PICK d : d = media_uv_stream_send(b, [op |-> "query", of |-> "position"])
  OBVIOUS
<1>9. PICK y : y = Fields
  OBVIOUS
<1>10. /\ Good(c) /\ Closed(c) /\ c.freed = FALSE /\ c.volumes = 0
       /\ Query
  <2>1. s.expected = {}
    BY DEF Query
  <2>2. ~ s.volumes > 0 /\ s.volumes \in Nat
    BY <2>1, Found DEF StreamType
  <2>3. Call
    BY DEF Query
  <2>4. Good(c) /\ Closed(c) /\ c.freed = FALSE /\ c.volumes = s.volumes
    BY <1>2, <2>3, CallFound
  <2>5. s.volumes = 0
    BY <2>2
  <2>6. QED
    BY <2>4, <2>5
<1>11. Good(e) /\ Closed(e) /\ e.freed = FALSE
  <2>1. x \subseteq Fields
    BY <1>3 DEF Fields
  <2>2. c.volumes > 0 => "volume" \in x
    BY <1>3
  <2>3. QED
    BY <1>4, <1>10, <2>1, <2>2, ExpectedGood
<1>12. "volume" \in e.expected /\ e.volumes = 0
  BY <1>3, <1>4, <1>10 DEF Expecting, Good, StreamType
<1>13. t = media_uv_policy_get_int([Called EXCEPT !.expected = {"volume"}])
  <2>1. e = [Called EXCEPT !.expected = {"volume"}]
    BY <1>2, <1>3, <1>4 DEF Expecting
  <2>2. t = media_uv_policy_get_int(e)
    BY <1>5, <1>12 DEF media_uv_policy_get_int
  <2>3. QED
    BY <2>1, <2>2
<1>14. Good(t) /\ Closed(t) /\ t.freed = FALSE
  BY <1>5, <1>11, <1>12, VolumesSet DEF Life
<1>15. r = t \/ Expecting(r, d, y)
  <2> DEFINE v == media_uv_policy_get_int([Called EXCEPT !.expected = {"volume"}])
             Get(w, field) == media_uv_stream_send(w, [op |-> "query", of |-> field])
             full == Get(Get(Get(v, "state"), "duration"), "position")
  <2>1. r = IF Refuses(v) THEN v ELSE [full EXCEPT !.expected = Fields]
    BY <1>1 DEF Query
  <2>2. v = t
    BY <1>13
  <2> HIDE DEF v
  <2>3. full = d
    BY <1>6, <1>7, <1>8, <2>2
  <2> HIDE DEF full
  <2>4. QED
    BY <1>9, <2>1, <2>2, <2>3 DEF Expecting
<1>16. Good(d) /\ Closed(d) /\ d.freed = FALSE
  <2>1. PICK f \in Fields \ {"volume"} : f = "state"
    BY DEF Fields
  <2>2. PICK g \in Fields \ {"volume"} : g = "duration"
    BY DEF Fields
  <2>3. PICK h \in Fields \ {"volume"} : h = "position"
    BY DEF Fields
  <2>4. Good(a) /\ Closed(a) /\ a.freed = FALSE
    BY <1>6, <1>14, <2>1, GetGood
  <2>5. Good(b) /\ Closed(b) /\ b.freed = FALSE
    BY <1>7, <2>2, <2>4, GetGood
  <2>6. QED
    BY <1>8, <2>3, <2>5, GetGood
<1>17. Good(r) /\ Closed(r)
  <2>1. CASE r = t
    BY <1>14, <2>1
  <2>2. CASE Expecting(r, d, y)
    <3>1. y \subseteq Fields /\ (d.volumes > 0 => "volume" \in y)
      BY <1>9 DEF Fields
    <3>2. QED
      BY <1>16, <2>2, <3>1, ExpectedGood
  <2>3. QED
    BY <1>15, <2>1, <2>2
<1>18. QED
  BY <1>1, <1>17 DEF Good, Closed, Links, Plays, Pipes, Released, Closing, Bare

-----------------------------------------------------------------------------

\* The stream was just allocated.
LEMMA InitGood == Init => Good(s) /\ Closed(s)
<1> SUFFICES ASSUME Init PROVE Good(s) /\ Closed(s)
  OBVIOUS
<1>1. PICK kind \in Kinds : s = Stream0(kind) \/ (kind = "picture" /\ s = PictureClose(Stream0(kind)))
  BY DEF Init
<1>2. PICK t : t = Stream0(kind)
  OBVIOUS
<1>3. PICK q : q = <<Request("open")>>
  OBVIOUS
<1>4. q \in Seq(Requests) /\ DOMAIN q = {1} /\ q[1].op = "open"
  BY <1>3 DEF Request, Requests
<1>5. /\ t.kind = kind /\ t.link = "opening" /\ t.q = q /\ t.pipe = FALSE
      /\ t.on_connection = NULL /\ t.prepared = 0 /\ t.dialed = 0 /\ t.told = [n \in Prepares |-> 0]
      /\ t.listeners = [k \in Cpus |-> "none"] /\ t.focus = NULL
      /\ t.focuses = [f \in Focuses |-> Focus0]
      /\ t.expected = {} /\ t.volumes = 0 /\ t.lost = FALSE /\ t.calls = 0
      /\ t.closing = FALSE /\ t.closed = 0 /\ t.freed = FALSE /\ t.bad = FALSE
  BY <1>2, <1>3 DEF Stream0
<1>6. t \in StreamType
  <2>1. Focus0 \in FocusType
    BY DEF Focus0, FocusType
  <2>2. \A f \in Focuses : t.focuses[f] = Focus0
    BY <1>5
  <2>3. 0 \in 0 .. MaxPrepares /\ 0 \in 0 .. MaxCalls
    BY UvStreamAssumption
  <2>4. /\ [n \in Prepares |-> 0] \in [Prepares -> Nat]
        /\ [k \in Cpus |-> "none"] \in [Cpus -> {"none", "open", "closing"}]
        /\ [f \in Focuses |-> Focus0] \in [Focuses -> FocusType]
    BY <2>1
  <2>5. QED
    BY <1>2, <1>3, <1>4, <2>3, <2>4 DEF Stream0, StreamType
<1>7. /\ Focus0.phase = "none" /\ Focus0.stream = FALSE /\ Focus0.on_play = FALSE /\ Focus0.told = 0
      /\ \A f \in Focuses : t.focuses[f] = Focus0
  BY <1>5 DEF Focus0
<1>8. Links(t) /\ Released(t) /\ Bare(t) /\ Closed(t)
  BY <1>5, <1>7 DEF Links, Released, Bare, Closed
<1>9. Pipes(t)
  <2>1. \A n \in Prepares : ~ (n <= 0)
    BY UvStreamAssumption DEF Prepares
  <2>2. QED
    BY <1>5, <2>1 DEF Pipes
<1>10. Closing(t)
  BY <1>4, <1>5 DEF Closing
<1>11. Plays(t)
  <2>1. \A f \in Focuses : \A i \in DOMAIN t.q : ~ IsPlay(t.q[i], f)
    BY <1>4, <1>5 DEF IsPlay
  <2>2. QED
    BY <1>7, <2>1 DEF Plays
<1>12. Good(t)
  BY <1>5, <1>6, <1>8, <1>9, <1>10, <1>11 DEF Good
<1>13. PICK r : r = s
  OBVIOUS
<1>14. Good(r) /\ Closed(r)
  <2>1. CASE r = t
    BY <1>8, <1>12, <2>1
  <2>2. CASE t.kind = "picture" /\ r = PictureClose(t)
    BY <1>12, <2>2, PictureCloseGood
  <2>3. QED
    BY <1>1, <1>2, <1>5, <1>13, <2>1, <2>2
<1>15. QED
  BY <1>13, <1>14

\* Neither of the two uses of the interface that break it.
Proper == Faults \cap {"requery", "reenter"} = {}

\* Every step keeps the invariant.
LEMMA NextGood == Proper /\ Good(s) /\ Closed(s) /\ [Next]_vars => Good(s)' /\ Closed(s)'
<1> SUFFICES ASSUME Proper, Good(s), Closed(s), [Next]_vars
             PROVE  Good(s)' /\ Closed(s)'
  OBVIOUS
<1>1. "requery" \notin Faults /\ "reenter" \notin Faults
  BY DEF Proper
<1>2. CASE User
  <2>1. ASSUME NEW failed, Prepare(failed) PROVE Good(s)' /\ Closed(s)'
    BY <2>1, PrepareGood
  <2>2. CASE StartAuto
    BY <2>2, StartAutoGood
  <2>3. CASE Pause
    BY <2>3, PauseGood
  <2>4. CASE UserSend
    BY <2>4, UserSendGood
  <2>5. CASE UserStop
    BY <2>5, UserStopGood
  <2>6. CASE UserClose
    BY <2>6, UserCloseGood
  <2>7. CASE Query
    BY <1>1, <2>7, QueryGood
  <2>8. QED
    BY <1>2, <2>1, <2>2, <2>3, <2>4, <2>5, <2>6, <2>7 DEF User
<1>3. CASE Turn
  <2>1. ASSUME NEW then \in Thens, Answer(then) PROVE Good(s)' /\ Closed(s)'
    BY <2>1, AnswerGood
  <2>2. CASE media_uv_stream_disconnect_cb
    BY <2>2, DisconnectGood
  <2>3. ASSUME NEW k \in Cpus, ListenerClosed(k) PROVE Good(s)' /\ Closed(s)'
    BY <2>3, ListenerClosedGood
  <2>4. ASSUME NEW then \in Thens, VolumeAnswered(then) PROVE Good(s)' /\ Closed(s)'
    BY <2>4, VolumeAnsweredGood
  <2>5. CASE VolumeLost
    BY <2>5, VolumeLostGood
  <2>6. CASE OpenRefused
    BY <2>6, OpenRefusedGood
  <2>7. ASSUME NEW f \in Focuses, FocusAbandoned(f) PROVE Good(s)' /\ Closed(s)'
    BY <2>7, FocusAbandonedGood
  <2>8. ASSUME NEW f \in Focuses, NEW phase \in {"asking", "deaf", "dead"}, NEW then \in Thens,
               FocusConnected(f, phase, then)
        PROVE  Good(s)' /\ Closed(s)'
    BY <2>8, FocusConnectedGood
  <2>9. ASSUME NEW f \in Focuses, NEW suggest, NEW then \in Thens, FocusAnswered(f, suggest, then)
        PROVE  Good(s)' /\ Closed(s)'
    BY <2>9, FocusAnsweredGood
  <2>10. QED
    BY <1>3, <2>1, <2>2, <2>3, <2>4, <2>5, <2>6, <2>7, <2>8, <2>9 DEF Turn
<1>4. CASE Others
  <2>1. ASSUME NEW e, NEW then \in Thens, Event(e, then) PROVE Good(s)' /\ Closed(s)'
    BY <2>1, EventGood
  <2>2. ASSUME NEW k \in Cpus, NEW outcome, NEW then \in Thens, Connection(k, outcome, then)
        PROVE  Good(s)' /\ Closed(s)'
    BY <1>1, <2>2, ConnectionGood
  <2>3. ASSUME NEW f \in Focuses, NEW suggest, NEW then \in Thens, FocusEvent(f, suggest, then)
        PROVE  Good(s)' /\ Closed(s)'
    BY <2>3, FocusEventGood
  <2>4. QED
    BY <1>4, <2>1, <2>2, <2>3 DEF Others
<1>5. CASE UNCHANGED vars
  <2>1. s' = s
    BY <1>5 DEF vars
  <2>2. QED
    BY <2>1 DEF Good, Closed, Links, Plays, Pipes, Released, Closing, Bare
<1>6. QED
  BY <1>2, <1>3, <1>4, <1>5 DEF Next

\* The invariant.
StreamInv == Good(s) /\ Closed(s)

\* The invariant holds always.
LEMMA StreamAlways == Proper => (Spec => []StreamInv)
<1> SUFFICES ASSUME Proper PROVE Spec => []StreamInv
  OBVIOUS
<1>1. Init => StreamInv
  BY InitGood DEF StreamInv
<1>2. StreamInv /\ [Next]_vars => StreamInv'
  BY NextGood DEF StreamInv
<1>3. QED
  BY <1>1, <1>2, PTL DEF Spec

\* Of told, on_play and the queued "play" of a focus only one counts.
LEMMA InvOnce == StreamInv => CallbacksOnce
<1> SUFFICES ASSUME StreamInv PROVE CallbacksOnce
  OBVIOUS
<1>1. /\ s \in StreamType /\ Plays(s) /\ Pipes(s) /\ Released(s) /\ Closed(s)
  BY DEF StreamInv, Good
<1>2. /\ \A n \in Prepares :
            s.told[n] = IF n <= s.prepared /\ n # s.on_connection THEN 1 ELSE 0
      /\ s.closing => s.on_connection = NULL /\ ~ s.pipe
      /\ s.closed <= 1
  BY <1>1 DEF Pipes, Closed, Released
<1>3. ASSUME NEW f \in Focuses
      PROVE  s.focuses[f].told + (IF s.focuses[f].on_play THEN 1 ELSE 0)
                + Cardinality({i \in DOMAIN s.q : s.q[i] = [op |-> "play", of |-> f]}) <= 1
  <2>1. PICK P : P = {i \in DOMAIN s.q : s.q[i] = [op |-> "play", of |-> f]}
    OBVIOUS
  <2>2. PICK n : n = s.focuses[f].told
    OBVIOUS
  <2>3. s.focuses[f] \in FocusType /\ n \in Nat
    BY <1>1, <2>2 DEF StreamType, FocusType
  <2>4. \A i \in P : i \in DOMAIN s.q /\ IsPlay(s.q[i], f)
    BY <2>1 DEF IsPlay
  <2>5. CASE P = {}
    <3>1. Cardinality(P) = 0
      BY <2>5, FS_EmptySet
    <3>2. (s.focuses[f].on_play => n = 0) /\ n <= 1
      BY <1>1, <2>2 DEF Plays
    <3>3. n + (IF s.focuses[f].on_play THEN 1 ELSE 0) <= 1
      BY <2>3, <3>2
    <3>4. QED
      BY <2>1, <2>2, <2>3, <3>1, <3>3
  <2>6. CASE P # {}
    <3>1. PICK i \in P : TRUE
      BY <2>6
    <3>2. P = {i}
      BY <1>1, <2>4, <3>1 DEF Plays
    <3>3. Cardinality(P) = 1
      BY <3>2, FS_Singleton
    <3>4. ~ s.focuses[f].on_play /\ n = 0
      BY <1>1, <2>2, <2>4, <3>1 DEF Plays
    <3>5. QED
      BY <2>1, <2>2, <3>3, <3>4
  <2>7. QED
    BY <2>5, <2>6
<1>4. QED
  BY <1>2, <1>3 DEF CallbacksOnce

(* The stream keeps its type, and it and its focus point to each other or  *)
(* to nothing, in whatever order connections, answers and suggestions come *)
(* (media_uv_stream_abandon_focus).                                        *)
THEOREM StreamTypeCorrect ==
    Faults \cap {"requery", "reenter"} = {} => (Spec => []StreamTypeOK)
<1>1. StreamInv => StreamTypeOK
  BY DEF StreamInv, Good, Links, StreamTypeOK
<1>2. QED
  BY <1>1, StreamAlways, PTL DEF Proper

(* media_uv_stream_release waits for all who would come back: no callback  *)
(* of a listener, a focus, a query or the connection finds the stream      *)
(* freed, for any number of listeners, focus requests and calls.           *)
THEOREM StreamNotFreedEarly ==
    Faults \cap {"requery", "reenter"} = {} => (Spec => []StreamOutlivesCallbacks)
<1>1. StreamInv => StreamOutlivesCallbacks
  BY DEF StreamInv, Good, StreamOutlivesCallbacks
<1>2. QED
  BY <1>1, StreamAlways, PTL DEF Proper

(* Each on_connection is called once, on_play and on_close at most once,   *)
(* whatever the answers, suggestions and errors they would be called for   *)
(* (media_uv_stream_close_pipe, media_uv_player_suggest_cb).               *)
THEOREM CalledOnce ==
    Faults \cap {"requery", "reenter"} = {} => (Spec => []CallbacksOnce)
<1>1. QED
  BY InvOnce, StreamAlways, PTL DEF Proper

=============================================================================
