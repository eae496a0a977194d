--------------------------- MODULE Session_proofs ---------------------------
(***************************************************************************)
(* Proofs about the session and its two clients.                           *)
(*                                                                         *)
(* 1. What of the metadata survives the text form.                         *)
(* 2. The server: every change of what a query would be answered is        *)
(*    announced to each controller that listens, or the event is dropped.  *)
(* 3. The synchronous controller: its cache is current (SessionCache).     *)
(* 4. The asynchronous controller: its cache is complete (UvSessionCache). *)
(***************************************************************************)
EXTENDS SessionCache, UvSessionCache, TLAPS

OneWord == {<<w>> : w \in Words}

\* Metadata as the server has read it: texts are of one word.
Kept == [state  : States \cup {NULL},
         title  : OneWord \cup {NULL},
         artist : OneWord \cup {NULL}]

\* The first word of a text.
FirstWord(text) == IF text = NULL THEN NULL ELSE <<text[1]>>

-----------------------------------------------------------------------------
(* 1. Metadata                                                             *)

\* A word is a text.
LEMMA WordIsText ==
    ASSUME NEW S, NEW w \in S
    PROVE  <<w>> \in Seq(S) /\ Len(<<w>>) = 1 /\ <<w>>[1] = w /\ <<w>> # <<>>
OBVIOUS

\* So is none at all.
LEMMA EmptyText == ASSUME NEW S PROVE <<>> \in Seq(S)
OBVIOUS

\* A single word has a text form of its own: it is not the null pointer.
LEMMA OneWordNotNull == NULL \notin OneWord
<1>1. ASSUME NEW w \in Words PROVE <<w>> \in Seq(Words)
  BY WordIsText, Zenon
<1>2. QED
  BY <1>1, TextsAssumption DEF OneWord

\* A new controllee or cache says nothing.
LEMMA EmptyKept == media_metadata_init \in Kept
BY DEF media_metadata_init, Kept

\* The first word of what is printed, and what stands behind a single word.
LEMMA PrintedWords ==
    ASSUME NEW a \in Seq(Words) \cup {NULL}, a # <<>>,
           NEW b \in Seq(Words) \cup {NULL}, b # <<>>
    PROVE  LET words == Printed(a) \o Printed(b)
           IN  /\ words[1] = Printed(a)[1] /\ words[1] \in Words
               /\ words[2] \in Words
               /\ a \in OneWord \cup {NULL} => words[2] = Printed(b)[1]
<1>0. "(null)" \in Words
  BY TextsAssumption
<1>1. <<"(null)">> \in Seq(Words) /\ Len(<<"(null)">>) = 1
  BY <1>0, WordIsText, Zenon
<1>9. ASSUME NEW w \in Words PROVE Len(<<w>>) = 1
  BY WordIsText, Zenon
<1>2. /\ Printed(a) \in Seq(Words) /\ Len(Printed(a)) > 0
      /\ Printed(b) \in Seq(Words) /\ Len(Printed(b)) > 0
  BY <1>1 DEF Printed
<1>3. a \in OneWord \cup {NULL} => Len(Printed(a)) = 1
  BY <1>1, <1>9 DEF Printed, OneWord
<1>4. QED
  BY <1>2, <1>3

\* What media_metadata_unserialize makes of any metadata.
LEMMA MetadataTravels ==
    ASSUME NEW diff \in Metadata
    PROVE  LET d == media_metadata_unserialize(media_metadata_serialize(diff))
           IN  /\ d \in Kept
               /\ d.state = diff.state /\ d.title = FirstWord(diff.title)
<1> DEFINE str == media_metadata_serialize(diff)
           words == Printed(diff.title) \o Printed(diff.artist)
<1>1. /\ diff.title \in Seq(Words) \cup {NULL} /\ diff.title # <<>>
      /\ diff.artist \in Seq(Words) \cup {NULL} /\ diff.artist # <<>>
      /\ diff.state \in States \cup {NULL}
      /\ DOMAIN diff = {"state", "title", "artist"}
  <2>1. <<>> \in Seq(Words)
    BY EmptyText, Zenon
  <2>2. QED
    BY <2>1, TextsAssumption DEF Metadata
<1>2. /\ words[1] = Printed(diff.title)[1]
      /\ words[1] \in Words /\ words[2] \in Words
  BY <1>1, PrintedWords
<1>3. /\ "state" \in str.flags <=> diff.state # NULL
      /\ "title" \in str.flags <=> diff.title # NULL
      /\ diff.state # NULL => str.state = diff.state
      /\ str.words = words
  BY <1>1 DEF media_metadata_serialize
<1> HIDE DEF str, words
<1>4. <<str.words[1]>> \in OneWord /\ <<str.words[2]>> \in OneWord
  BY <1>2, <1>3 DEF OneWord
<1>5. QED
  BY <1>1, <1>2, <1>3, <1>4
  DEF str, media_metadata_unserialize, Kept, FirstWord, Printed

\* A single word passes through the text form unharmed.
LEMMA KeptTravels ==
    ASSUME NEW m \in Kept
    PROVE  media_metadata_unserialize(media_metadata_serialize(m)) = m
<1> DEFINE str == media_metadata_serialize(m)
           words == Printed(m.title) \o Printed(m.artist)
<1>1. /\ m.title \in OneWord \cup {NULL} /\ m.artist \in OneWord \cup {NULL}
      /\ m.state \in States \cup {NULL}
      /\ m = [state |-> m.state, title |-> m.title, artist |-> m.artist]
      /\ DOMAIN m = {"state", "title", "artist"}
  BY DEF Kept
<1>2. ASSUME NEW a \in OneWord \cup {NULL}
      PROVE  a \in Seq(Words) \cup {NULL} /\ a # <<>>
  <2>1. <<>> \in Seq(Words)
    BY EmptyText, Zenon
  <2>2. ASSUME NEW w \in Words PROVE <<w>> \in Seq(Words) /\ <<w>> # <<>>
    BY WordIsText, Zenon
  <2>3. QED
    BY <2>1, <2>2, TextsAssumption DEF OneWord
<1>3. /\ words[1] = Printed(m.title)[1] /\ words[2] = Printed(m.artist)[1]
  BY <1>1, <1>2, PrintedWords
<1>4. /\ "state" \in str.flags <=> m.state # NULL
      /\ "title" \in str.flags <=> m.title # NULL
      /\ "artist" \in str.flags <=> m.artist # NULL
      /\ m.state # NULL => str.state = m.state
      /\ str.words = words
  BY <1>1 DEF media_metadata_serialize
<1> HIDE DEF str, words
<1>5. ASSUME NEW a \in OneWord PROVE <<a[1]>> = a
  BY DEF OneWord
<1>6. /\ m.title # NULL => <<str.words[1]>> = m.title
      /\ m.artist # NULL => <<str.words[2]>> = m.artist
  BY <1>1, <1>3, <1>4, <1>5 DEF Printed
<1>7. media_metadata_unserialize(str) =
          [state |-> m.state, title |-> m.title, artist |-> m.artist]
  BY <1>4, <1>6 DEF media_metadata_unserialize
<1>8. QED
  BY <1>1, <1>7 DEF str

\* Merging keeps the form, field by field.
LEMMA UpdateFields ==
    ASSUME NEW d \in Kept, NEW m \in Kept
    PROVE  LET u == media_metadata_update(d, m)
           IN  /\ u \in Kept
               /\ u.state = IF m.state = NULL THEN d.state ELSE m.state
               /\ u.title = IF m.title = NULL THEN d.title ELSE m.title
               /\ u.artist = IF m.artist = NULL THEN d.artist ELSE m.artist
<1> DEFINE u == media_metadata_update(d, m)
<1>1. DOMAIN d = {"state", "title", "artist"}
  BY DEF Kept
<1>2. /\ u = [f \in {"state", "title", "artist"} |-> IF m[f] = NULL THEN d[f] ELSE m[f]]
  BY <1>1 DEF media_metadata_update
<1> HIDE DEF u
<1>3. /\ u.state = IF m.state = NULL THEN d.state ELSE m.state
      /\ u.title = IF m.title = NULL THEN d.title ELSE m.title
      /\ u.artist = IF m.artist = NULL THEN d.artist ELSE m.artist
  BY <1>2
<1>4. u = [state |-> u.state, title |-> u.title, artist |-> u.artist]
  BY <1>2
<1>5. u \in Kept
  BY <1>3, <1>4 DEF Kept
<1>6. QED
  BY <1>3, <1>5 DEF u

\* What was merged is held; and nothing is held by everything.
LEMMA UpdateHolds ==
    ASSUME NEW d \in Kept, NEW m \in Kept
    PROVE  /\ media_metadata_update(media_metadata_update(d, m), m) = media_metadata_update(d, m)
           /\ media_metadata_update(d, media_metadata_init) = d
<1>1. ASSUME NEW a \in Kept, NEW b \in Kept,
             a.state = b.state, a.title = b.title, a.artist = b.artist
      PROVE  a = b
  BY <1>1 DEF Kept
<1>2. media_metadata_update(d, m) \in Kept
  BY UpdateFields
<1>3. PICK u \in Kept : u = media_metadata_update(d, m)
  BY <1>2
<1>4. media_metadata_update(u, m) = u
  <2>1. PICK v \in Kept : v = media_metadata_update(u, m)
    BY UpdateFields
  <2>2. /\ u.state = IF m.state = NULL THEN d.state ELSE m.state
        /\ u.title = IF m.title = NULL THEN d.title ELSE m.title
        /\ u.artist = IF m.artist = NULL THEN d.artist ELSE m.artist
    BY <1>3, UpdateFields
  <2>3. /\ v.state = IF m.state = NULL THEN u.state ELSE m.state
        /\ v.title = IF m.title = NULL THEN u.title ELSE m.title
        /\ v.artist = IF m.artist = NULL THEN u.artist ELSE m.artist
    BY <2>1, UpdateFields
  <2>4. QED
    BY <1>1, <2>1, <2>2, <2>3
<1>5. media_metadata_update(d, media_metadata_init) = d
  <2>1. PICK v \in Kept : v = media_metadata_update(d, media_metadata_init)
    BY EmptyKept, UpdateFields
  <2>2. v.state = d.state /\ v.title = d.title /\ v.artist = d.artist
    BY <2>1, EmptyKept, UpdateFields DEF media_metadata_init
  <2>3. QED
    BY <1>1, <2>1, <2>2
<1>6. QED
  BY <1>3, <1>4, <1>5

-----------------------------------------------------------------------------
(* 2. The server                                                           *)

ServerInv ==
    /\ controllees \in Seq(Controllees)
    /\ meta \in [Controllees -> Kept] /\ given \in [Controllees -> Metadata]
    /\ controllers \subseteq Controllers /\ event \subseteq controllers /\ lost \subseteq event
    /\ events \in [Controllers -> Seq(Events)]
    /\ \A c \in Controllers : Len(events[c]) <= NotifyQueue

\* KeepsGiven of every controllee, registered or not.
GivenKept ==
    \A e \in Controllees :
        meta[e].state = given[e].state /\ meta[e].title = FirstWord(given[e].title)

\* No event that makes a controller ask again.
NoNews(list) == \A i \in DOMAIN list : list[i] = MEDIA_EVENT_RESULT

\* Nothing changes for a query.
SameTop == Current' = Current /\ QueryAnswer' = QueryAnswer

\* What a step of a controllee is to those who listen.
Told ==
    /\ \A c \in Controllers : NoNews(events'[c]) => NoNews(events[c])
    /\ \A c \in event \ lost' : NoNews(events'[c]) => SameTop
    /\ lost \subseteq lost'
    /\ UNCHANGED <<controllers, event>>

LEMMA ServerInvInit == SessionInit => ServerInv /\ GivenKept
<1> SUFFICES ASSUME SessionInit PROVE ServerInv /\ GivenKept
  OBVIOUS
<1>1. media_metadata_init \in Metadata
  BY DEF media_metadata_init, Metadata
<1>2. ServerInv
  BY <1>1, EmptyKept, SessionAssumption DEF SessionInit, ServerInv
<1>3. GivenKept
  BY DEF SessionInit, GivenKept, media_metadata_init, FirstWord
<1>4. QED
  BY <1>2, <1>3

\* A queue that got one event more.
LEMMA AppendNews ==
    ASSUME NEW list \in Seq(Events), NEW ev \in Events
    PROVE  /\ Append(list, ev) \in Seq(Events)
           /\ NoNews(Append(list, ev)) => NoNews(list) /\ ev = MEDIA_EVENT_RESULT
<1> DEFINE longer == Append(list, ev)
<1>1. /\ longer \in Seq(Events) /\ Len(longer) = Len(list) + 1 /\ longer[Len(list) + 1] = ev
      /\ \A i \in 1 .. Len(list) : longer[i] = list[i]
      /\ DOMAIN longer = 1 .. Len(list) + 1 /\ DOMAIN list = 1 .. Len(list)
      /\ Len(list) \in Nat
  OBVIOUS
<1> HIDE DEF longer
<1>2. QED
  BY <1>1 DEF NoNews, longer

\* Taking an event that is no news from the queue.
LEMMA TailNews ==
    ASSUME NEW list \in Seq(Events), list # <<>>
    PROVE  /\ Tail(list) \in Seq(Events) /\ Len(Tail(list)) < Len(list)
           /\ Head(list) \in Events
           /\ NoNews(Tail(list)) /\ Head(list) = MEDIA_EVENT_RESULT => NoNews(list)
<1> DEFINE rest == Tail(list)
<1>1. /\ rest \in Seq(Events) /\ Len(rest) = Len(list) - 1
      /\ \A i \in 1 .. Len(rest) : rest[i] = list[i + 1]
      /\ DOMAIN rest = 1 .. Len(rest) /\ DOMAIN list = 1 .. Len(list)
      /\ Len(list) \in Nat \ {0} /\ Head(list) = list[1] /\ list[1] \in Events
  OBVIOUS
<1> HIDE DEF rest
<1>2. ASSUME NoNews(rest), Head(list) = MEDIA_EVENT_RESULT, NEW i \in DOMAIN list
      PROVE  list[i] = MEDIA_EVENT_RESULT
  <2>1. CASE i = 1
    BY <1>1, <1>2, <2>1
  <2>2. CASE i # 1
    <3>1. i - 1 \in 1 .. Len(rest) /\ rest[i - 1] = list[i]
      BY <1>1, <2>2
    <3>2. QED
      BY <1>1, <1>2, <3>1 DEF NoNews
  <2>3. QED
    BY <2>1, <2>2
<1>3. QED
  BY <1>1, <1>2 DEF NoNews, rest

\* The sockets after media_session_controllee_notify.
LEMMA NotifyTells ==
    ASSUME ServerInv, NEW list, NEW e, NEW ev \in Events,
           media_session_controllee_notify(list, e, ev)
    PROVE  /\ events' \in [Controllers -> Seq(Events)]
           /\ \A c \in Controllers : Len(events'[c]) <= NotifyQueue
           /\ lost \subseteq lost' /\ lost' \subseteq event
           /\ \A c \in Controllers : NoNews(events'[c]) => NoNews(events[c])
           /\ e = First(list) /\ ev # MEDIA_EVENT_RESULT =>
                 \A c \in event \ lost' : ~ NoNews(events'[c])
<1> DEFINE reached == IF e = First(list) THEN event ELSE {}
<1>1. /\ events' = [c \in Controllers |->
                        IF c \in reached /\ Len(events[c]) < NotifyQueue
                        THEN Append(events[c], ev) ELSE events[c]]
      /\ lost' = lost \cup {c \in reached : Len(events[c]) = NotifyQueue}
  BY DEF media_session_controllee_notify
<1>2. reached \subseteq event /\ event \subseteq Controllers /\ lost \subseteq event
  BY DEF ServerInv
<1>3. e = First(list) => reached = event
  OBVIOUS
<1> HIDE DEF reached
<1>4. ASSUME NEW c \in Controllers
      PROVE  /\ events'[c] \in Seq(Events) /\ Len(events'[c]) <= NotifyQueue
             /\ NoNews(events'[c]) => NoNews(events[c])
             /\ c \in reached \ lost' /\ ev # MEDIA_EVENT_RESULT => ~ NoNews(events'[c])
  <2>1. /\ events[c] \in Seq(Events) /\ Len(events[c]) <= NotifyQueue
        /\ Len(events[c]) \in Nat /\ NotifyQueue \in Nat
    BY SessionAssumption DEF ServerInv
  <2>2. CASE c \in reached /\ Len(events[c]) < NotifyQueue
    <3>1. events'[c] = Append(events[c], ev)
      BY <1>1, <2>2
    <3>2. Len(events'[c]) = Len(events[c]) + 1
      BY <2>1, <3>1
    <3>3. QED
      BY <2>1, <2>2, <3>1, <3>2, AppendNews
  <2>3. CASE ~ (c \in reached /\ Len(events[c]) < NotifyQueue)
    <3>1. events'[c] = events[c]
      BY <1>1, <2>3
    <3>2. c \in reached => c \in lost'
      BY <1>1, <2>1, <2>3
    <3>3. QED
      BY <2>1, <3>1, <3>2
  <2>4. QED
    BY <2>2, <2>3
<1>5. events' \in [Controllers -> Seq(Events)]
  BY <1>1, <1>4
<1>6. lost \subseteq lost' /\ lost' \subseteq event
  BY <1>1, <1>2
<1>7. QED
  BY <1>2, <1>3, <1>4, <1>5, <1>6

\* Unlinking keeps the first, unless that is the one.
LEMMA RemoveKeepsFirst ==
    ASSUME NEW list \in Seq(Controllees), NEW e \in ToSet(list)
    PROVE  /\ TAILQ_REMOVE(list, e) \in Seq(Controllees)
           /\ e # First(list) => /\ TAILQ_REMOVE(list, e) # <<>>
                                 /\ First(TAILQ_REMOVE(list, e)) = First(list)
<1> DEFINE j == CHOOSE i \in DOMAIN list : list[i] = e
<1>1. j \in DOMAIN list /\ list[j] = e
  BY DEF ToSet
<1> HIDE DEF j
<1>2. j \in 1 .. Len(list) /\ Len(list) \in Nat /\ list # <<>>
  BY <1>1
<1> DEFINE front == SubSeq(list, 1, j - 1)
           back == SubSeq(list, j + 1, Len(list))
<1>3. /\ front \in Seq(Controllees) /\ Len(front) = j - 1
      /\ \A i \in 1 .. j - 1 : front[i] = list[i]
      /\ back \in Seq(Controllees)
  BY <1>2
<1>4. TAILQ_REMOVE(list, e) = front \o back
  BY DEF TAILQ_REMOVE, RemoveAt, j
<1> HIDE DEF front, back
<1>5. /\ front \o back \in Seq(Controllees)
      /\ j > 1 => front \o back # <<>> /\ (front \o back)[1] = front[1]
  BY <1>2, <1>3
<1>6. e # First(list) => j > 1
  BY <1>1, <1>2 DEF First
<1>7. QED
  BY <1>2, <1>3, <1>4, <1>5, <1>6 DEF First

\* Whether a step changes what a query is answered shows in the first entry.
LEMMA TopOf ==
    ASSUME controllees = <<>> <=> controllees' = <<>>,
           controllees # <<>> => meta'[First(controllees')] = meta[First(controllees)]
    PROVE  SameTop
BY DEF SameTop, Current, QueryAnswer

\* The most active controllee is one.
LEMMA FirstOf ==
    ASSUME NEW list \in Seq(Controllees)
    PROVE  /\ list = <<>> => First(list) = NULL
           /\ list # <<>> => First(list) \in Controllees /\ First(list) \in ToSet(list)
           /\ ToSet(list) \subseteq Controllees
<1>1. list # <<>> => 1 \in DOMAIN list /\ list[1] \in Controllees
  OBVIOUS
<1>2. list # <<>> => list[1] \in ToSet(list)
  BY <1>1 DEF ToSet
<1>3. ToSet(list) \subseteq Controllees
  BY DEF ToSet
<1>4. QED
  BY <1>1, <1>2, <1>3 DEF First

\* A step that reaches nobody's socket.
LEMMA SilentTells ==
    ASSUME UNCHANGED <<events, lost, controllers, event>>, SameTop
    PROVE  Told
BY DEF Told

\* A step that announces, or leaves the top as it was.
LEMMA NotifiedTells ==
    ASSUME ServerInv, NEW list, NEW e, NEW ev \in Events,
           media_session_controllee_notify(list, e, ev),
           (e = First(list) /\ ev # MEDIA_EVENT_RESULT) \/ SameTop,
           UNCHANGED <<controllers, event>>
    PROVE  Told
<1>1. /\ lost \subseteq lost'
      /\ \A c \in Controllers : NoNews(events'[c]) => NoNews(events[c])
      /\ e = First(list) /\ ev # MEDIA_EVENT_RESULT =>
            \A c \in event \ lost' : ~ NoNews(events'[c])
  BY NotifyTells
<1>2. QED
  BY <1>1 DEF Told

\* The two types of ServerInv that a notification touches.
LEMMA NotifiedTypes ==
    ASSUME ServerInv, NEW list, NEW e, NEW ev \in Events,
           media_session_controllee_notify(list, e, ev),
           UNCHANGED <<controllers, event>>,
           controllees' \in Seq(Controllees),
           meta' \in [Controllees -> Kept], given' \in [Controllees -> Metadata]
    PROVE  ServerInv'
<1>1. /\ events' \in [Controllers -> Seq(Events)] /\ lost' \subseteq event
      /\ \A c \in Controllers : Len(events'[c]) <= NotifyQueue
  BY NotifyTells
<1>2. QED
  BY <1>1 DEF ServerInv

LEMMA NewsAreEvents ==
    /\ MEDIA_EVENT_CHANGED \in Events /\ MEDIA_EVENT_UPDATED \in Events
    /\ MEDIA_EVENT_RESULT \in Events
    /\ MEDIA_EVENT_CHANGED # MEDIA_EVENT_RESULT /\ MEDIA_EVENT_UPDATED # MEDIA_EVENT_RESULT
BY DEF Events, MEDIA_EVENT_CHANGED, MEDIA_EVENT_UPDATED, MEDIA_EVENT_RESULT

\* media_session_controllee_register: the first one is announced.
LEMMA RegisterTells ==
    ASSUME ServerInv, GivenKept, NEW e \in Controllees, media_session_controllee_register(e)
    PROVE  ServerInv' /\ GivenKept' /\ Told
<1>1. /\ controllees \in Seq(Controllees)
      /\ controllees' = Append(controllees, e)
      /\ media_session_controllee_notify(controllees', e, MEDIA_EVENT_CHANGED)
      /\ UNCHANGED <<meta, given, controllers, event>>
  BY DEF ServerInv, media_session_controllee_register
<1>2. /\ controllees' \in Seq(Controllees) /\ controllees' # <<>>
      /\ controllees = <<>> => First(controllees') = e
      /\ controllees # <<>> => First(controllees') = First(controllees)
  BY <1>1 DEF First
<1>3. controllees # <<>> => SameTop
  BY <1>1, <1>2, TopOf
<1>4. Told
  BY <1>1, <1>2, <1>3, NotifiedTells, NewsAreEvents
<1>5. ServerInv'
  BY <1>1, <1>2, NotifiedTypes, NewsAreEvents DEF ServerInv
<1>6. QED
  BY <1>1, <1>4, <1>5 DEF GivenKept

\* media_session_controllee_unregister: the next one is announced, or that
\* there is none.
LEMMA UnregisterTells ==
    ASSUME ServerInv, GivenKept, NEW e \in Controllees, media_session_controllee_unregister(e)
    PROVE  ServerInv' /\ GivenKept' /\ Told
<1>1. /\ controllees \in Seq(Controllees) /\ e \in ToSet(controllees)
      /\ controllees' = TAILQ_REMOVE(controllees, e)
      /\ meta' = [meta EXCEPT ![e] = media_metadata_init]
      /\ given' = [given EXCEPT ![e] = media_metadata_init]
      /\ UNCHANGED <<controllers, event>>
      /\ meta \in [Controllees -> Kept] /\ given \in [Controllees -> Metadata]
  BY DEF ServerInv, media_session_controllee_unregister, Registered
<1>2. /\ controllees' \in Seq(Controllees)
      /\ e # First(controllees) => /\ controllees' # <<>>
                                   /\ First(controllees') = First(controllees)
  BY <1>1, RemoveKeepsFirst
<1>3. controllees # <<>> /\ First(controllees) \in Controllees
  <2>1. controllees # <<>>
    BY <1>1 DEF ToSet
  <2>2. QED
    BY <1>1, <2>1, FirstOf
<1>4. media_metadata_init \in Metadata
  BY DEF media_metadata_init, Metadata
<1>5. meta' \in [Controllees -> Kept] /\ given' \in [Controllees -> Metadata]
  BY <1>1, <1>4, EmptyKept
<1>6. GivenKept'
  <2>1. ASSUME NEW d \in Controllees
        PROVE  meta'[d].state = given'[d].state /\ meta'[d].title = FirstWord(given'[d].title)
    <3>1. CASE d = e
      BY <1>1, <3>1 DEF media_metadata_init, FirstWord
    <3>2. CASE d # e
      BY <1>1, <3>2 DEF GivenKept
    <3>3. QED
      BY <3>1, <3>2
  <2>2. QED
    BY <2>1 DEF GivenKept
<1>7. CASE e = First(controllees)
  <2>1. media_session_controllee_notify(controllees', First(controllees'), MEDIA_EVENT_CHANGED)
    BY <1>7 DEF media_session_controllee_unregister
  <2>2. PICK list, d : list = controllees' /\ d = First(controllees')
    OBVIOUS
  <2>3. media_session_controllee_notify(list, d, MEDIA_EVENT_CHANGED) /\ d = First(list)
    BY <2>1, <2>2
  <2>4. Told
    BY <1>1, <2>3, NotifiedTells, NewsAreEvents
  <2>5. ServerInv'
    BY <1>1, <1>2, <1>5, <2>3, NotifiedTypes, NewsAreEvents
  <2>6. QED
    BY <1>6, <2>4, <2>5
<1>8. CASE e # First(controllees)
  <2>1. UNCHANGED <<events, lost>>
    BY <1>8 DEF media_session_controllee_unregister
  <2>2. meta'[First(controllees)] = meta[First(controllees)]
    BY <1>1, <1>3, <1>8
  <2>3. SameTop
    BY <1>2, <1>3, <1>8, <2>2, TopOf
  <2>4. Told
    BY <1>1, <2>1, <2>3, SilentTells
  <2>5. ServerInv'
    BY <1>1, <1>2, <1>5, <2>1 DEF ServerInv
  <2>6. QED
    BY <1>6, <2>4, <2>5
<1>9. QED
  BY <1>7, <1>8

\* What a controllee says is merged into what the server keeps.
LEMMA MergeKeeps ==
    ASSUME ServerInv, GivenKept, NEW e \in Controllees, NEW diff \in Metadata,
           media_session_controllee_update(e, diff)
    PROVE  /\ GivenKept'
           /\ meta' \in [Controllees -> Kept] /\ given' \in [Controllees -> Metadata]
           /\ \A d \in Controllees : d # e => meta'[d] = meta[d]
           /\ UNCHANGED <<controllers, event>>
<1> DEFINE read == media_metadata_unserialize(media_metadata_serialize(diff))
<1>1. /\ meta' = [meta EXCEPT ![e] = media_metadata_update(meta[e], read)]
      /\ given' = [given EXCEPT ![e] = media_metadata_update(given[e], diff)]
      /\ UNCHANGED <<controllers, event>>
      /\ meta \in [Controllees -> Kept] /\ given \in [Controllees -> Metadata]
  BY DEF ServerInv, media_session_controllee_update
<1>2. /\ read \in Kept
      /\ read.state = diff.state /\ read.title = FirstWord(diff.title)
  BY MetadataTravels
<1> HIDE DEF read
<1>3. PICK old \in Kept : old = meta[e]
  BY <1>1
<1>4. PICK said \in Metadata : said = given[e]
  BY <1>1
<1>5. PICK new \in Kept : new = media_metadata_update(old, read)
  BY <1>2, UpdateFields
<1>6. /\ new.state = IF read.state = NULL THEN old.state ELSE read.state
      /\ new.title = IF read.title = NULL THEN old.title ELSE read.title
  BY <1>2, <1>5, UpdateFields
<1>7. PICK says : says = media_metadata_update(said, diff)
  OBVIOUS
<1>8. /\ says \in Metadata
      /\ says.state = IF diff.state = NULL THEN said.state ELSE diff.state
      /\ says.title = IF diff.title = NULL THEN said.title ELSE diff.title
  <2>1. says = [state  |-> IF diff.state = NULL THEN said.state ELSE diff.state,
                title  |-> IF diff.title = NULL THEN said.title ELSE diff.title,
                artist |-> IF diff.artist = NULL THEN said.artist ELSE diff.artist]
    BY <1>7 DEF media_metadata_update, Metadata
  <2>2. QED
    BY <2>1 DEF Metadata
<1>9. old.state = said.state /\ old.title = FirstWord(said.title)
  BY <1>3, <1>4 DEF GivenKept
<1>10. read.title = NULL <=> diff.title = NULL
  <2>1. diff.title \in Titles \cup {NULL}
    BY DEF Metadata
  <2>2. ASSUME diff.title # NULL PROVE diff.title[1] \in Words
    <3>1. diff.title \in Seq(Words) /\ diff.title # <<>>
      BY <2>1, <2>2, TextsAssumption
    <3>2. QED
      BY <3>1
  <2>3. QED
    BY <1>2, <2>2, OneWordNotNull DEF FirstWord, OneWord
<1>11. new.state = says.state /\ new.title = FirstWord(says.title)
  BY <1>2, <1>6, <1>8, <1>9, <1>10 DEF FirstWord
<1>12. meta' = [meta EXCEPT ![e] = new] /\ given' = [given EXCEPT ![e] = says]
  BY <1>1, <1>3, <1>4, <1>5, <1>7
<1>13. GivenKept'
  <2>1. ASSUME NEW d \in Controllees
        PROVE  meta'[d].state = given'[d].state /\ meta'[d].title = FirstWord(given'[d].title)
    <3>1. CASE d = e
      <4>1. meta'[d] = new /\ given'[d] = says
        BY <1>1, <1>12, <3>1
      <4>2. QED
        BY <1>11, <4>1
    <3>2. CASE d # e
      BY <1>1, <1>12, <3>2 DEF GivenKept
    <3>3. QED
      BY <3>1, <3>2
  <2>2. QED
    BY <2>1 DEF GivenKept
<1>14. QED
  BY <1>1, <1>5, <1>8, <1>12, <1>13

\* media_session_controllee_update: of the most active one, of one that
\* becomes it, or of another.
LEMMA UpdateTells ==
    ASSUME ServerInv, GivenKept, NEW e \in Controllees, NEW diff \in Metadata,
           media_session_controllee_update(e, diff)
    PROVE  ServerInv' /\ GivenKept' /\ Told
<1>1. /\ GivenKept'
      /\ meta' \in [Controllees -> Kept] /\ given' \in [Controllees -> Metadata]
      /\ \A d \in Controllees : d # e => meta'[d] = meta[d]
      /\ UNCHANGED <<controllers, event>>
  BY MergeKeeps
<1>2. controllees \in Seq(Controllees) /\ e \in ToSet(controllees)
  BY DEF ServerInv, media_session_controllee_update, Registered
<1>3. CASE e = First(controllees)
  <2>1. /\ media_session_controllee_notify(controllees, e, MEDIA_EVENT_UPDATED)
        /\ UNCHANGED controllees
    BY <1>3 DEF media_session_controllee_update
  <2>2. Told
    BY <1>1, <1>3, <2>1, NotifiedTells, NewsAreEvents
  <2>3. ServerInv'
    BY <1>1, <1>2, <2>1, NotifiedTypes, NewsAreEvents
  <2>4. QED
    BY <1>1, <2>2, <2>3
<1>4. CASE e # First(controllees) /\ UNCHANGED <<controllees, events, lost>>
  <2>1. controllees # <<>> => meta'[First(controllees)] = meta[First(controllees)]
    BY <1>1, <1>2, <1>4, FirstOf
  <2>2. SameTop
    BY <1>4, <2>1, TopOf
  <2>3. Told
    BY <1>1, <1>4, <2>2, SilentTells
  <2>4. ServerInv'
    BY <1>1, <1>4 DEF ServerInv
  <2>5. QED
    BY <1>1, <2>3, <2>4
<1>5. CASE /\ controllees' = <<e>> \o TAILQ_REMOVE(controllees, e)
           /\ media_session_controllee_notify(controllees', e, MEDIA_EVENT_CHANGED)
  <2>1. TAILQ_REMOVE(controllees, e) \in Seq(Controllees)
    BY <1>2, RemoveKeepsFirst
  <2>2. controllees' \in Seq(Controllees) /\ First(controllees') = e
    <3>1. PICK rest \in Seq(Controllees) : rest = TAILQ_REMOVE(controllees, e)
      BY <2>1
    <3>2. /\ <<e>> \o rest \in Seq(Controllees) /\ <<e>> \o rest # <<>>
          /\ (<<e>> \o rest)[1] = e
      OBVIOUS
    <3>3. QED
      BY <1>5, <3>1, <3>2 DEF First
  <2>3. Told
    BY <1>1, <1>5, <2>2, NotifiedTells, NewsAreEvents
  <2>4. ServerInv'
    BY <1>1, <1>5, <2>2, NotifiedTypes, NewsAreEvents
  <2>5. QED
    BY <1>1, <2>3, <2>4
<1>6. QED
  BY <1>3, <1>4, <1>5 DEF media_session_controllee_update

\* "event": only forwarded.
LEMMA ResultTells ==
    ASSUME ServerInv, GivenKept, NEW e \in Controllees, ControlleeResult(e)
    PROVE  ServerInv' /\ GivenKept' /\ Told
<1>1. /\ media_session_controllee_notify(controllees, e, MEDIA_EVENT_RESULT)
      /\ UNCHANGED <<controllees, meta, given, controllers, event>>
  BY DEF ControlleeResult
<1>2. SameTop
  BY <1>1, TopOf
<1>3. Told
  BY <1>1, <1>2, NotifiedTells, NewsAreEvents
<1>4. ServerInv'
  BY <1>1, NotifiedTypes, NewsAreEvents DEF ServerInv
<1>5. QED
  BY <1>1, <1>3, <1>4 DEF GivenKept

(* Whatever a controllee does, the controllers that listen are told of a   *)
(* change of what they would be answered, or an event is dropped for them  *)
(* (media_session_controllee_notify after each of the handlers).           *)
LEMMA ControlleeTells ==
    ASSUME ServerInv, GivenKept, ControlleeStep
    PROVE  ServerInv' /\ GivenKept' /\ Told
BY RegisterTells, UpdateTells, UnregisterTells, ResultTells DEF ControlleeStep

\* What the server does for a controller leaves the rest alone.
LEMMA ControllerServed ==
    ASSUME ServerInv, GivenKept, NEW c \in Controllers,
           \/ media_session_controller_open(c)
           \/ SetEvent(c) /\ c \in controllers
           \/ media_session_controller_close(c)
           \/ Control(c)
           \/ UNCHANGED session_vars
    PROVE  ServerInv' /\ GivenKept' /\ SameTop
<1>1. GivenKept' /\ UNCHANGED <<controllees, meta, given>>
  BY DEF GivenKept, media_session_controller_open, SetEvent, media_session_controller_close,
         Control, session_vars
<1>2. SameTop
  BY <1>1, TopOf
<1>3. CASE media_session_controller_open(c)
  BY <1>1, <1>2, <1>3 DEF ServerInv, media_session_controller_open
<1>4. CASE SetEvent(c) /\ c \in controllers
  BY <1>1, <1>2, <1>4 DEF ServerInv, SetEvent
<1>5. CASE media_session_controller_close(c)
  <2>1. events \in [Controllers -> Seq(Events)] /\ events' = [events EXCEPT ![c] = <<>>]
    BY <1>5 DEF ServerInv, media_session_controller_close
  <2>2. <<>> \in Seq(Events) /\ Len(<<>>) <= NotifyQueue
    BY SessionAssumption
  <2>3. events' \in [Controllers -> Seq(Events)]
    BY <2>1, <2>2
  <2>4. \A d \in Controllers : Len(events'[d]) <= NotifyQueue
    BY <2>1, <2>2 DEF ServerInv
  <2>5. QED
    BY <1>1, <1>5, <2>3, <2>4, <1>2 DEF ServerInv, media_session_controller_close
<1>6. CASE Control(c)
  BY <1>1, <1>2, <1>6 DEF ServerInv, Control
<1>7. CASE UNCHANGED session_vars
  BY <1>1, <1>2, <1>7 DEF ServerInv, session_vars
<1>8. QED
  BY <1>1, <1>2, <1>3, <1>4, <1>5, <1>6, <1>7

-----------------------------------------------------------------------------
(* 3. The synchronous controller                                           *)

\* What the server can answer to a query.
Answers ==
    {[ret |-> ENOENT, res |-> NULL]}
    \cup {[ret |-> 0, res |-> media_metadata_serialize(m)] : m \in Kept}

ClientInv ==
    /\ data \in [Controllers -> Kept] /\ need_query \in [Controllers -> BOOLEAN]
    /\ cb \subseteq event
    /\ call \in [Controllers -> {NULL, "set_event", "query"}]
    /\ answer \in [Controllers -> Answers \cup {NULL}]
    /\ \A c \in Controllers :
          /\ answer[c] # NULL => call[c] = "query"
          /\ call[c] = "query" => need_query[c] /\ c \in controllers
          /\ call[c] = "set_event" => c \in event
          /\ c \in controllers \ cb => need_query[c]

\* The cache is current unless it is known to be old or an event that says so
\* is on its way.
CacheInv ==
    \A c \in cb \ (lost \cup overtaken) :
        ~ need_query[c] /\ NoNews(events[c]) => data[c] = Current

\* The same of an answer that has not been read.
AnswerInv ==
    \A c \in event \ (lost \cup overtaken) :
        answer[c] # NULL /\ NoNews(events[c]) => answer[c] = QueryAnswer

IInv == ServerInv /\ GivenKept /\ ClientInv /\ CacheInv /\ AnswerInv

\* What is answered is one of the answers, and what is read of it is what a
\* query would be answered.
LEMMA AnswerRead ==
    ASSUME ServerInv
    PROVE  /\ Current \in Kept /\ QueryAnswer \in Answers
           /\ QueryAnswer.ret >= 0 => media_metadata_unserialize(QueryAnswer.res) = Current
           /\ QueryAnswer.ret < 0 => Current = media_metadata_init
<1>1. CASE controllees = <<>>
  BY <1>1, EmptyKept DEF QueryAnswer, Current, Answers, ENOENT
<1>2. CASE controllees # <<>>
  <2>1. PICK m \in Kept : m = meta[First(controllees)]
    BY <1>2, FirstOf DEF ServerInv
  <2>2. Current = m /\ QueryAnswer = [ret |-> 0, res |-> media_metadata_serialize(m)]
    BY <1>2, <2>1 DEF Current, QueryAnswer
  <2>3. media_metadata_unserialize(media_metadata_serialize(m)) = m
    BY KeptTravels
  <2>4. PICK str : str = media_metadata_serialize(m)
    OBVIOUS
  <2>5. QED
    BY <2>2, <2>3, <2>4 DEF Answers
<1>3. QED
  BY <1>1, <1>2

\* Any answer is metadata, or says that there is nobody.
LEMMA AnswerKept ==
    ASSUME NEW a \in Answers
    PROVE  /\ a.ret \in Int
           /\ a.ret >= 0 => media_metadata_unserialize(a.res) \in Kept
<1>1. CASE a = [ret |-> ENOENT, res |-> NULL]
  BY <1>1 DEF ENOENT
<1>2. ASSUME NEW m \in Kept, a = [ret |-> 0, res |-> media_metadata_serialize(m)]
      PROVE  a.ret \in Int /\ media_metadata_unserialize(a.res) \in Kept
  <2>1. a.ret = 0 /\ a.res = media_metadata_serialize(m)
    BY <1>2
  <2>2. media_metadata_unserialize(media_metadata_serialize(m)) = m
    BY KeptTravels
  <2>3. QED
    BY <2>1, <2>2
<1>3. QED
  BY <1>1, <1>2 DEF Answers

LEMMA IInvInit == Init => IInv
<1> SUFFICES ASSUME Init PROVE IInv
  OBVIOUS
<1>1. ServerInv /\ GivenKept
  BY ServerInvInit DEF Init
<1>2. /\ cb = {} /\ event = {} /\ controllers = {}
      /\ data = [c \in Controllers |-> media_metadata_init]
      /\ need_query = [c \in Controllers |-> FALSE]
      /\ call = [c \in Controllers |-> NULL] /\ answer = [c \in Controllers |-> NULL]
  BY DEF Init, SessionInit
<1>3. ClientInv
  BY <1>2, EmptyKept, CallAssumption DEF ClientInv
<1>4. CacheInv /\ AnswerInv
  BY <1>2 DEF CacheInv, AnswerInv
<1>5. QED
  BY <1>1, <1>3, <1>4 DEF IInv

\* A step of a controllee.
LEMMA ControlleeKeeps ==
    ASSUME IInv, ControlleeStep, UNCHANGED cache_vars
    PROVE  IInv'
<1>1. ServerInv /\ GivenKept /\ ClientInv /\ CacheInv /\ AnswerInv
  BY DEF IInv
<1>2. /\ ServerInv' /\ GivenKept'
      /\ \A c \in Controllers : NoNews(events'[c]) => NoNews(events[c])
      /\ \A c \in event \ lost' : NoNews(events'[c]) => SameTop
      /\ lost \subseteq lost' /\ UNCHANGED <<controllers, event>>
  BY <1>1, ControlleeTells DEF Told
<1>3. UNCHANGED <<data, need_query, cb, call, answer, overtaken>>
  BY DEF cache_vars
<1>4. cb \subseteq event /\ event \subseteq Controllers
  BY <1>1 DEF ClientInv, ServerInv
<1>5. ClientInv'
  BY <1>1, <1>2, <1>3 DEF ClientInv
<1>6. CacheInv'
  <2>1. SUFFICES ASSUME NEW c \in cb \ (lost' \cup overtaken),
                        ~ need_query[c], NoNews(events'[c])
                 PROVE  data[c] = Current'
    BY <1>3 DEF CacheInv
  <2>2. c \in event \ lost' /\ c \in cb \ (lost \cup overtaken) /\ NoNews(events[c])
    BY <1>2, <1>4, <2>1
  <2>3. SameTop /\ data[c] = Current
    BY <1>1, <1>2, <2>1, <2>2 DEF CacheInv
  <2>4. QED
    BY <2>3 DEF SameTop
<1>7. AnswerInv'
  <2>1. SUFFICES ASSUME NEW c \in event \ (lost' \cup overtaken),
                        answer[c] # NULL, NoNews(events'[c])
                 PROVE  answer[c] = QueryAnswer'
    BY <1>2, <1>3 DEF AnswerInv
  <2>2. c \in event \ lost' /\ c \in event \ (lost \cup overtaken) /\ NoNews(events[c])
    BY <1>2, <1>4, <2>1
  <2>3. SameTop /\ answer[c] = QueryAnswer
    BY <1>1, <1>2, <2>1, <2>2 DEF AnswerInv
  <2>4. QED
    BY <2>3 DEF SameTop
<1>8. QED
  BY <1>2, <1>5, <1>6, <1>7 DEF IInv

\* The rest of the state of the other controllers.
LEMMA OthersKeep ==
    ASSUME IInv, NEW c \in Controllers, SameTop,
           \A d \in Controllers \ {c} :
               /\ need_query'[d] = need_query[d] /\ data'[d] = data[d]
               /\ answer'[d] = answer[d] /\ events'[d] = events[d]
               /\ d \in cb' <=> d \in cb
               /\ d \in event' <=> d \in event
               /\ d \in lost' <=> d \in lost
               /\ d \in overtaken' <=> d \in overtaken,
           event' \subseteq Controllers, cb' \subseteq event',
           c \in cb' \ (lost' \cup overtaken') /\ ~ need_query'[c] /\ NoNews(events'[c])
               => data'[c] = Current,
           c \in event' \ (lost' \cup overtaken') /\ answer'[c] # NULL /\ NoNews(events'[c])
               => answer'[c] = QueryAnswer
    PROVE  CacheInv' /\ AnswerInv'
<1>1. CacheInv /\ AnswerInv
  BY DEF IInv
<1>2. Current' = Current /\ QueryAnswer' = QueryAnswer
  BY DEF SameTop
<1>3. CacheInv'
  <2>1. SUFFICES ASSUME NEW d \in cb' \ (lost' \cup overtaken'),
                        ~ need_query'[d], NoNews(events'[d])
                 PROVE  data'[d] = Current
    BY <1>2 DEF CacheInv
  <2>2. CASE d = c
    BY <2>1, <2>2
  <2>3. CASE d # c
    <3>1. d \in Controllers \ {c}
      BY <2>1, <2>3
    <3>2. /\ ~ need_query[d] /\ NoNews(events[d]) /\ data'[d] = data[d]
          /\ d \in cb \ (lost \cup overtaken)
      BY <2>1, <3>1
    <3>3. QED
      BY <1>1, <3>2 DEF CacheInv
  <2>4. QED
    BY <2>2, <2>3
<1>4. AnswerInv'
  <2>1. SUFFICES ASSUME NEW d \in event' \ (lost' \cup overtaken'),
                        answer'[d] # NULL, NoNews(events'[d])
                 PROVE  answer'[d] = QueryAnswer
    BY <1>2 DEF AnswerInv
  <2>2. CASE d = c
    BY <2>1, <2>2
  <2>3. CASE d # c
    <3>1. d \in Controllers \ {c}
      BY <2>1, <2>3
    <3>2. /\ answer[d] # NULL /\ NoNews(events[d]) /\ answer'[d] = answer[d]
          /\ d \in event \ (lost \cup overtaken)
      BY <2>1, <3>1
    <3>3. QED
      BY <1>1, <3>2 DEF AnswerInv
  <2>4. QED
    BY <2>2, <2>3
<1>5. QED
  BY <1>3, <1>4

\* media_session_open: need_query is set.
LEMMA OpenKeeps ==
    ASSUME IInv, NEW c \in Controllers, media_session_open(c)
    PROVE  IInv'
<1>1. ServerInv /\ GivenKept /\ ClientInv
  BY DEF IInv
<1>2. media_session_controller_open(c)
  BY DEF media_session_open
<1>3. ServerInv' /\ GivenKept' /\ SameTop
  BY <1>1, <1>2, ControllerServed
<1>4. /\ c \notin controllers /\ controllers' = controllers \cup {c}
      /\ UNCHANGED <<event, events, lost>>
  BY <1>2 DEF media_session_controller_open
<1>5. /\ data' = [data EXCEPT ![c] = media_metadata_init]
      /\ need_query' = [need_query EXCEPT ![c] = TRUE]
      /\ UNCHANGED <<cb, call, answer, overtaken>>
  BY DEF media_session_open
<1>6. /\ event \subseteq controllers /\ event \subseteq Controllers /\ cb \subseteq event
      /\ data \in [Controllers -> Kept] /\ need_query \in [Controllers -> BOOLEAN]
  BY <1>1 DEF ServerInv, ClientInv
<1>7. ClientInv'
  BY <1>1, <1>4, <1>5, EmptyKept DEF ClientInv
<1>8. CacheInv' /\ AnswerInv'
  BY <1>3, <1>4, <1>5, <1>6, OthersKeep
<1>9. QED
  BY <1>3, <1>7, <1>8 DEF IInv

\* media_session_set_event_callback: nothing is waited for when it begins.
LEMMA SetEventKeeps ==
    ASSUME IInv, NEW c \in Controllers, media_session_set_event_callback(c)
    PROVE  IInv'
<1>1. ServerInv /\ GivenKept /\ ClientInv
  BY DEF IInv
<1>2. /\ c \in controllers \ event /\ call[c] = NULL /\ SetEvent(c)
      /\ call' = [call EXCEPT ![c] = "set_event"]
      /\ UNCHANGED <<data, need_query, cb, answer, overtaken>>
  BY DEF media_session_set_event_callback
<1>3. ServerInv' /\ GivenKept' /\ SameTop
  BY <1>1, <1>2, ControllerServed
<1>4. event' = event \cup {c} /\ UNCHANGED <<controllers, events, lost>>
  BY <1>2 DEF SetEvent
<1>5. event' \subseteq Controllers /\ cb \subseteq event /\ answer[c] = NULL
  BY <1>1, <1>2, <1>4, CallAssumption DEF ServerInv, ClientInv
<1>6. ClientInv'
  BY <1>1, <1>2, <1>4, CallAssumption DEF ClientInv
<1>7. CacheInv' /\ AnswerInv'
  BY <1>2, <1>3, <1>4, <1>5, OthersKeep
<1>8. QED
  BY <1>3, <1>6, <1>7 DEF IInv

LEMMA SetEventReturnsKeeps ==
    ASSUME IInv, NEW c \in Controllers, SetEventReturns(c)
    PROVE  IInv'
<1>1. ServerInv /\ GivenKept /\ ClientInv
  BY DEF IInv
<1>2. /\ call[c] = "set_event" /\ call' = [call EXCEPT ![c] = NULL] /\ cb' = cb \cup {c}
      /\ UNCHANGED session_vars /\ UNCHANGED <<data, need_query, answer, overtaken>>
  BY DEF SetEventReturns
<1>3. ServerInv' /\ GivenKept' /\ SameTop
  BY <1>1, <1>2, ControllerServed
<1>4. UNCHANGED <<controllers, event, events, lost>>
  BY <1>2 DEF session_vars
<1>5. c \in event /\ event \subseteq controllers /\ event \subseteq Controllers /\ cb \subseteq event
  BY <1>1, <1>2 DEF ServerInv, ClientInv
<1>6. ClientInv'
  BY <1>1, <1>2, <1>4, <1>5, CallAssumption DEF ClientInv
<1>7. c \notin cb => need_query[c]
  BY <1>1, <1>5 DEF ClientInv
<1>8. CacheInv' /\ AnswerInv'
  <2>1. CASE c \notin cb
    BY <1>2, <1>3, <1>4, <1>5, <1>7, <2>1, OthersKeep, CallAssumption DEF IInv, ClientInv
  <2>2. CASE c \in cb
    <3>1. cb' = cb
      BY <1>2, <2>2
    <3>2. QED
      BY <1>2, <1>3, <1>4, <3>1 DEF IInv, CacheInv, AnswerInv, SameTop
  <2>3. QED
    BY <2>1, <2>2
<1>9. QED
  BY <1>3, <1>6, <1>8 DEF IInv

\* media_session_query: asked again, so need_query is set.
LEMMA QueryKeeps ==
    ASSUME IInv, NEW c \in Controllers, media_session_query(c)
    PROVE  IInv'
<1>1. ServerInv /\ GivenKept /\ ClientInv
  BY DEF IInv
<1>2. /\ c \in controllers /\ call[c] = NULL /\ need_query[c]
      /\ call' = [call EXCEPT ![c] = "query"]
      /\ UNCHANGED session_vars /\ UNCHANGED <<data, need_query, cb, answer, overtaken>>
  BY DEF media_session_query
<1>3. ServerInv' /\ GivenKept' /\ SameTop
  BY <1>1, <1>2, ControllerServed
<1>4. UNCHANGED <<controllers, event, events, lost>>
  BY <1>2 DEF session_vars
<1>5. ClientInv'
  BY <1>1, <1>2, <1>4 DEF ClientInv
<1>6. CacheInv' /\ AnswerInv'
  BY <1>2, <1>3, <1>4 DEF IInv, CacheInv, AnswerInv, SameTop
<1>7. QED
  BY <1>3, <1>5, <1>6 DEF IInv

\* The server's answer is what a query is answered, at this moment.
LEMMA QueryServedKeeps ==
    ASSUME IInv, NEW c \in Controllers, QueryServed(c)
    PROVE  IInv'
<1>1. ServerInv /\ GivenKept /\ ClientInv
  BY DEF IInv
<1>2. /\ call[c] = "query" /\ answer[c] = NULL
      /\ answer' = [answer EXCEPT ![c] = QueryAnswer]
      /\ overtaken' = overtaken \ {c}
      /\ UNCHANGED session_vars /\ UNCHANGED <<data, need_query, cb, call>>
  BY DEF QueryServed
<1>3. ServerInv' /\ GivenKept' /\ SameTop
  BY <1>1, <1>2, ControllerServed
<1>4. UNCHANGED <<controllers, event, events, lost>>
  BY <1>2 DEF session_vars
<1>5. /\ QueryAnswer \in Answers /\ answer \in [Controllers -> Answers \cup {NULL}]
      /\ need_query[c] /\ event \subseteq Controllers /\ cb \subseteq event
  BY <1>1, <1>2, AnswerRead DEF ClientInv, ServerInv
<1>6. answer'[c] = QueryAnswer /\ \A d \in Controllers \ {c} : answer'[d] = answer[d]
  BY <1>2, <1>5
<1>7. ClientInv'
  <2>1. answer' \in [Controllers -> Answers \cup {NULL}]
    BY <1>2, <1>5
  <2>2. QED
    BY <1>1, <1>2, <1>4, <1>6, <2>1 DEF ClientInv
<1>8. CacheInv' /\ AnswerInv'
  BY <1>2, <1>3, <1>4, <1>5, <1>6, OthersKeep
<1>9. QED
  BY <1>3, <1>7, <1>8 DEF IInv

\* The return of media_session_query: what was answered is cached.
LEMMA QueryReturnsKeeps ==
    ASSUME IInv, NEW c \in Controllers, QueryReturns(c)
    PROVE  IInv'
<1>1. ServerInv /\ GivenKept /\ ClientInv
  BY DEF IInv
<1>2. /\ answer[c] # NULL
      /\ call' = [call EXCEPT ![c] = NULL] /\ answer' = [answer EXCEPT ![c] = NULL]
      /\ UNCHANGED session_vars /\ UNCHANGED <<cb, overtaken>>
  BY DEF QueryReturns
<1>3. ServerInv' /\ GivenKept' /\ SameTop
  BY <1>1, <1>2, ControllerServed
<1>4. UNCHANGED <<controllers, event, events, lost>>
  BY <1>2 DEF session_vars
<1>5. PICK a \in Answers : a = answer[c]
  BY <1>1, <1>2 DEF ClientInv
<1>6. a.ret \in Int /\ (a.ret >= 0 => media_metadata_unserialize(a.res) \in Kept)
  BY AnswerKept
<1>7. /\ data \in [Controllers -> Kept] /\ need_query \in [Controllers -> BOOLEAN]
      /\ need_query[c] /\ event \subseteq Controllers /\ cb \subseteq event
      /\ answer \in [Controllers -> Answers \cup {NULL}]
      /\ call \in [Controllers -> {NULL, "set_event", "query"}]
  BY <1>1, <1>2 DEF ClientInv, ServerInv
<1>8. answer'[c] = NULL /\ call'[c] = NULL
  BY <1>2, <1>7
<1>9. CASE a.ret < 0
  <2>1. UNCHANGED <<data, need_query>>
    BY <1>5, <1>9 DEF QueryReturns
  <2>2. ClientInv'
    BY <1>1, <1>2, <1>4, <2>1, CallAssumption DEF ClientInv
  <2>3. CacheInv' /\ AnswerInv'
    BY <1>2, <1>3, <1>4, <1>7, <1>8, <2>1, OthersKeep
  <2>4. QED
    BY <1>3, <2>2, <2>3 DEF IInv
<1>10. CASE ~ (a.ret < 0)
  <2>1. PICK m \in Kept : m = media_metadata_unserialize(a.res)
    BY <1>6, <1>10
  <2>2. PICK n \in BOOLEAN : n = (c \notin cb)
    OBVIOUS
  <2>3. data' = [data EXCEPT ![c] = m]
    BY <1>5, <1>10, <2>1 DEF QueryReturns
  <2>4. need_query' = [need_query EXCEPT ![c] = IF c \in cb THEN FALSE ELSE @]
    BY <1>5, <1>10 DEF QueryReturns
  <2>5. /\ need_query' \in [Controllers -> BOOLEAN]
        /\ c \notin cb => need_query'[c]
        /\ \A d \in Controllers \ {c} : need_query'[d] = need_query[d]
    BY <1>7, <2>4
  <2>6. data' \in [Controllers -> Kept] /\ data'[c] = m
        /\ \A d \in Controllers \ {c} : data'[d] = data[d]
    BY <1>7, <2>3
  <2>7. ClientInv'
    BY <1>1, <1>2, <1>4, <2>5, <2>6, CallAssumption DEF ClientInv
  <2>8. c \in cb \ (lost' \cup overtaken') /\ NoNews(events'[c]) => data'[c] = Current
    <3>1. SUFFICES ASSUME c \in cb \ (lost \cup overtaken), NoNews(events[c])
                   PROVE  m = Current
      BY <1>2, <1>4, <2>6
    <3>2. a = QueryAnswer
      BY <1>2, <1>5, <1>7, <3>1 DEF IInv, AnswerInv
    <3>3. a.ret >= 0
      BY <1>6, <1>10
    <3>4. QED
      BY <1>1, <2>1, <3>2, <3>3, AnswerRead
  <2>9. CacheInv' /\ AnswerInv'
    BY <1>2, <1>3, <1>4, <1>7, <1>8, <2>5, <2>6, <2>8, OthersKeep
  <2>10. QED
    BY <1>3, <2>7, <2>9 DEF IInv
<1>11. QED
  BY <1>9, <1>10

\* media_event_cb: news set need_query; an answer that has not been read is
\* overtaken.
LEMMA EventKeeps ==
    ASSUME IInv, NEW c \in Controllers, media_event_cb(c)
    PROVE  IInv'
<1> DEFINE ev == Head(events[c])
<1>1. ServerInv /\ GivenKept /\ ClientInv
  BY DEF IInv
<1>2. /\ events[c] # <<>> /\ events' = [events EXCEPT ![c] = Tail(events[c])]
      /\ data' = [data EXCEPT ![c] =
                    IF ev = MEDIA_EVENT_CHANGED THEN media_metadata_init ELSE @]
      /\ need_query' = [need_query EXCEPT ![c] =
                          @ \/ ev \in {MEDIA_EVENT_CHANGED, MEDIA_EVENT_UPDATED}]
      /\ overtaken' = IF answer[c] # NULL THEN overtaken \cup {c} ELSE overtaken
      /\ UNCHANGED <<controllees, meta, given, controllers, event, lost, cb, call, answer>>
  BY DEF media_event_cb
<1>3. /\ events \in [Controllers -> Seq(Events)] /\ data \in [Controllers -> Kept]
      /\ need_query \in [Controllers -> BOOLEAN]
      /\ event \subseteq Controllers /\ cb \subseteq event
      /\ Len(events[c]) <= NotifyQueue /\ events[c] \in Seq(Events)
  BY <1>1 DEF ServerInv, ClientInv
<1>4. PICK rest : rest = Tail(events[c])
  OBVIOUS
<1>5. /\ rest \in Seq(Events) /\ Len(rest) < Len(events[c]) /\ ev \in Events
      /\ NoNews(rest) /\ ev = MEDIA_EVENT_RESULT => NoNews(events[c])
  BY <1>2, <1>3, <1>4, TailNews
<1> HIDE DEF ev
<1>6. /\ events' \in [Controllers -> Seq(Events)] /\ events'[c] = rest
      /\ \A d \in Controllers \ {c} : events'[d] = events[d]
  BY <1>2, <1>3, <1>4, <1>5
<1>7. \A d \in Controllers : Len(events'[d]) <= NotifyQueue
  <2>1. Len(rest) <= NotifyQueue
    BY <1>3, <1>5, SessionAssumption
  <2>2. QED
    BY <1>1, <1>6, <2>1 DEF ServerInv
<1>8. ServerInv' /\ GivenKept'
  BY <1>1, <1>2, <1>6, <1>7 DEF ServerInv, GivenKept
<1>9. SameTop
  BY <1>2, TopOf
<1>10. /\ data' \in [Controllers -> Kept]
       /\ \A d \in Controllers \ {c} : data'[d] = data[d]
       /\ ev # MEDIA_EVENT_CHANGED => data'[c] = data[c]
  BY <1>2, <1>3, EmptyKept
<1>11. /\ need_query' \in [Controllers -> BOOLEAN]
       /\ \A d \in Controllers \ {c} : need_query'[d] = need_query[d]
       /\ need_query[c] => need_query'[c]
       /\ ev \in {MEDIA_EVENT_CHANGED, MEDIA_EVENT_UPDATED} => need_query'[c]
  BY <1>2, <1>3
<1>12. ClientInv'
  BY <1>1, <1>2, <1>10, <1>11 DEF ClientInv
<1>13. c \in cb \ (lost' \cup overtaken') /\ ~ need_query'[c] /\ NoNews(events'[c])
           => data'[c] = Current
  <2>1. SUFFICES ASSUME c \in cb \ (lost \cup overtaken), ~ need_query'[c], NoNews(rest)
                 PROVE  data'[c] = Current
    BY <1>2, <1>6
  <2>2. ev = MEDIA_EVENT_RESULT
    BY <1>5, <1>11, <2>1 DEF Events
  <2>3. NoNews(events[c]) /\ ~ need_query[c] /\ data'[c] = data[c]
    BY <1>5, <1>10, <1>11, <2>1, <2>2, NewsAreEvents
  <2>4. QED
    BY <2>1, <2>3 DEF IInv, CacheInv
<1>14. c \in event' \ (lost' \cup overtaken') => answer'[c] = NULL
  BY <1>2
<1>15. CacheInv' /\ AnswerInv'
  <2>1. \A d \in Controllers \ {c} : d \in overtaken' <=> d \in overtaken
    BY <1>2
  <2>2. QED
    BY <1>2, <1>3, <1>6, <1>9, <1>10, <1>11, <1>13, <1>14, <2>1, OthersKeep
<1>16. QED
  BY <1>8, <1>12, <1>15 DEF IInv

\* media_session_close: nothing of the controller stays.
LEMMA CloseKeeps ==
    ASSUME IInv, NEW c \in Controllers, media_session_close(c)
    PROVE  IInv'
<1>1. ServerInv /\ GivenKept /\ ClientInv
  BY DEF IInv
<1>2. /\ call[c] = NULL /\ media_session_controller_close(c)
      /\ data' = [data EXCEPT ![c] = media_metadata_init]
      /\ need_query' = [need_query EXCEPT ![c] = FALSE]
      /\ cb' = cb \ {c} /\ overtaken' = overtaken \ {c}
      /\ UNCHANGED <<call, answer>>
  BY DEF media_session_close
<1>3. ServerInv' /\ GivenKept' /\ SameTop
  BY <1>1, <1>2, ControllerServed
<1>4. /\ controllers' = controllers \ {c} /\ event' = event \ {c} /\ lost' = lost \ {c}
      /\ events' = [events EXCEPT ![c] = <<>>]
  BY <1>2 DEF media_session_controller_close
<1>5. /\ data \in [Controllers -> Kept] /\ need_query \in [Controllers -> BOOLEAN]
      /\ events \in [Controllers -> Seq(Events)]
      /\ event \subseteq Controllers /\ cb \subseteq event
  BY <1>1 DEF ServerInv, ClientInv
<1>6. ClientInv'
  BY <1>1, <1>2, <1>4, EmptyKept, CallAssumption DEF ClientInv
<1>7. CacheInv' /\ AnswerInv'
  BY <1>2, <1>3, <1>4, <1>5, OthersKeep
<1>8. QED
  BY <1>3, <1>6, <1>7 DEF IInv

LEMMA ControlKeeps ==
    ASSUME IInv, NEW c \in Controllers, media_session_control(c)
    PROVE  IInv'
<1>1. Control(c) /\ UNCHANGED <<data, need_query, cb, call, answer, overtaken>>
  BY DEF media_session_control, cache_vars
<1>2. ServerInv' /\ GivenKept' /\ SameTop
  BY <1>1, ControllerServed DEF IInv
<1>3. UNCHANGED <<controllers, event, events, lost>>
  BY <1>1 DEF Control
<1>4. ClientInv' /\ CacheInv' /\ AnswerInv'
  BY <1>1, <1>2, <1>3 DEF IInv, ClientInv, CacheInv, AnswerInv, SameTop
<1>5. QED
  BY <1>2, <1>4 DEF IInv

LEMMA IInvNext == IInv /\ [Next]_vars => IInv'
<1> SUFFICES ASSUME IInv, [Next]_vars PROVE IInv'
  OBVIOUS
<1>1. CASE ControlleeStep /\ UNCHANGED cache_vars
  BY <1>1, ControlleeKeeps
<1>2. ASSUME NEW c \in Controllers,
             \/ media_session_open(c)
             \/ media_session_set_event_callback(c)
             \/ SetEventReturns(c)
             \/ media_session_query(c)
             \/ QueryServed(c)
             \/ QueryReturns(c)
             \/ media_event_cb(c)
             \/ media_session_control(c)
             \/ media_session_close(c)
      PROVE  IInv'
  BY <1>2, OpenKeeps, SetEventKeeps, SetEventReturnsKeeps, QueryKeeps, QueryServedKeeps,
     QueryReturnsKeeps, EventKeeps, ControlKeeps, CloseKeeps
<1>3. CASE UNCHANGED vars
  BY <1>3 DEF vars, IInv, ServerInv, GivenKept, ClientInv, CacheInv, AnswerInv, Current,
              QueryAnswer
<1>4. QED
  BY <1>1, <1>2, <1>3 DEF Next

LEMMA IInvHolds == Spec => []IInv
<1>1. QED
  BY IInvInit, IInvNext, PTL DEF Spec

(* What the session keeps of a controllee is what it has given, a text up  *)
(* to its first white space (media_metadata_unserialize), for texts of any *)
(* number of words, however the updates are merged.                        *)
THEOREM SessionKeepsGiven == Spec => []KeepsGiven
<1>1. IInv => KeepsGiven
  <2>1. SUFFICES ASSUME IInv, NEW e \in ToSet(controllees)
                 PROVE  /\ meta[e].state = given[e].state
                        /\ meta[e].title = IF given[e].title = NULL THEN NULL
                                           ELSE <<given[e].title[1]>>
    BY DEF KeepsGiven
  <2>2. e \in Controllees
    BY <2>1, FirstOf DEF IInv, ServerInv
  <2>3. QED
    BY <2>1, <2>2 DEF IInv, GivenKept, FirstWord
<1>2. QED
  BY <1>1, IInvHolds, PTL

(* A synchronous controller that would answer a query from its cache       *)
(* answers what the server would, whatever the controllees did in between, *)
(* unless an event was dropped for it or was handled between an answer and *)
(* its arrival (media_event_cb against media_session_query).               *)
THEOREM SyncCacheFresh == Spec => []CacheFresh
<1>1. IInv => CacheFresh
  <2>1. SUFFICES ASSUME IInv, NEW c \in Controllers \ (lost \cup overtaken), Cached(c)
                 PROVE  data[c] = Current
    BY DEF CacheFresh
  <2>2. c \in cb \ (lost \cup overtaken) /\ ~ need_query[c] /\ NoNews(events[c])
    BY <2>1 DEF Cached, NoNews
  <2>3. QED
    BY <2>1, <2>2 DEF IInv, CacheInv
<1>2. QED
  BY <1>1, IInvHolds, PTL

-----------------------------------------------------------------------------
(* 4. The asynchronous controller                                          *)

\* d has all that m says.
Holds(d, m) == media_metadata_update(d, m) = d

UvClientInv ==
    /\ data \in [Controllers -> Kept] /\ need_query \in [Controllers -> BOOLEAN]
    /\ on_event \subseteq controllers
    /\ requests \in [Controllers -> Seq({"listen", "query"})]
    /\ answers \in [Controllers -> Seq(Answers)]
    /\ \A c \in Controllers :
          /\ c \in controllers \ on_event => need_query[c]
          /\ c \in on_event \ event => \E i \in DOMAIN requests[c] : requests[c][i] = "listen"
          /\ c \notin controllers => requests[c] = <<>>

\* A controller that would not ask again has a query behind the request to
\* listen, or its answer is the last one on the way and is current, or it was
\* the last one merged.
Latest(c) ==
    IF requests[c] # <<>> THEN requests[c][Len(requests[c])] = "query"
    ELSE IF answers[c] # <<>> THEN answers[c][Len(answers[c])] = QueryAnswer
    ELSE Holds(data[c], Current)

LatestInv ==
    \A c \in on_event \ lost : ~ need_query[c] /\ NoNews(events[c]) => Latest(c)

UvIInv == ServerInv /\ GivenKept /\ UvClientInv /\ LatestInv

LEMMA UvIInvInit == UvInit => UvIInv
<1> SUFFICES ASSUME UvInit PROVE UvIInv
  OBVIOUS
<1>1. ServerInv /\ GivenKept
  BY ServerInvInit DEF UvInit
<1>2. /\ on_event = {} /\ event = {} /\ controllers = {}
      /\ data = [c \in Controllers |-> media_metadata_init]
      /\ need_query = [c \in Controllers |-> FALSE]
      /\ requests = [c \in Controllers |-> <<>>] /\ answers = [c \in Controllers |-> <<>>]
  BY DEF UvInit, SessionInit
<1>3. UvClientInv
  BY <1>2, EmptyKept DEF UvClientInv
<1>4. LatestInv
  BY <1>2 DEF LatestInv
<1>5. QED
  BY <1>1, <1>3, <1>4 DEF UvIInv

\* The ends of a pipe.
LEMMA PipeAppend ==
    ASSUME NEW S, NEW pipe \in Seq(S), NEW x \in S
    PROVE  LET longer == Append(pipe, x)
           IN  /\ longer \in Seq(S) /\ longer # <<>> /\ longer[Len(longer)] = x
               /\ \A i \in DOMAIN pipe : i \in DOMAIN longer /\ longer[i] = pipe[i]
               /\ Len(longer) \in DOMAIN longer
OBVIOUS

\* Nothing under way is nothing in either pipe.
LEMMA PipesEmpty ==
    ASSUME NEW S, NEW p \in Seq(S), NEW T, NEW q \in Seq(T), Len(p) + Len(q) = 0
    PROVE  p = <<>> /\ q = <<>>
<1>1. Len(p) \in Nat /\ Len(q) \in Nat
  OBVIOUS
<1>2. Len(p) = 0 /\ Len(q) = 0
  BY <1>1
<1>3. QED
  BY <1>2

LEMMA PipeTail ==
    ASSUME NEW S, NEW pipe \in Seq(S), pipe # <<>>
    PROVE  LET rest == Tail(pipe)
           IN  /\ rest \in Seq(S) /\ Head(pipe) \in S
               /\ rest # <<>> => rest[Len(rest)] = pipe[Len(pipe)]
               /\ rest = <<>> => Head(pipe) = pipe[Len(pipe)]
               /\ \A i \in DOMAIN pipe : pipe[i] # Head(pipe) =>
                      i - 1 \in DOMAIN rest /\ rest[i - 1] = pipe[i]
<1>1. /\ Tail(pipe) \in Seq(S) /\ Len(Tail(pipe)) = Len(pipe) - 1
      /\ Len(pipe) \in Nat \ {0} /\ Head(pipe) = pipe[1] /\ pipe[1] \in S
      /\ \A i \in 1 .. Len(pipe) - 1 : Tail(pipe)[i] = pipe[i + 1]
      /\ DOMAIN pipe = 1 .. Len(pipe) /\ DOMAIN Tail(pipe) = 1 .. Len(pipe) - 1
  OBVIOUS
<1>2. PICK rest \in Seq(S) : rest = Tail(pipe)
  BY <1>1
<1>3. rest # <<>> <=> Len(pipe) > 1
  BY <1>1, <1>2
<1>4. QED
  BY <1>1, <1>2, <1>3

\* A step of a controllee: whoever is not told has a query on its way.
LEMMA UvControlleeKeeps ==
    ASSUME UvIInv, ControlleeStep, UNCHANGED uv_cache_vars
    PROVE  UvIInv'
<1>1. ServerInv /\ GivenKept /\ UvClientInv /\ LatestInv
  BY DEF UvIInv
<1>2. /\ ServerInv' /\ GivenKept'
      /\ \A c \in Controllers : NoNews(events'[c]) => NoNews(events[c])
      /\ \A c \in event \ lost' : NoNews(events'[c]) => SameTop
      /\ lost \subseteq lost' /\ UNCHANGED <<controllers, event>>
  BY <1>1, ControlleeTells DEF Told
<1>3. UNCHANGED <<data, need_query, on_event, requests, answers>>
  BY DEF uv_cache_vars
<1>4. UvClientInv'
  BY <1>1, <1>2, <1>3 DEF UvClientInv
<1>5. on_event \subseteq Controllers
  BY <1>1 DEF UvClientInv, ServerInv
<1>6. LatestInv'
  <2>1. SUFFICES ASSUME NEW c \in on_event \ lost', ~ need_query[c], NoNews(events'[c])
                 PROVE  Latest(c)'
    BY <1>3 DEF LatestInv
  <2>2. c \in on_event \ lost /\ NoNews(events[c])
    BY <1>2, <1>5, <2>1
  <2>3. Latest(c)
    BY <1>1, <2>1, <2>2 DEF LatestInv
  <2>4. CASE requests[c] # <<>>
    BY <1>3, <2>3, <2>4 DEF Latest
  <2>5. CASE requests[c] = <<>>
    <3>1. c \in event
      BY <1>1, <1>5, <2>1, <2>5 DEF UvClientInv
    <3>2. SameTop
      BY <1>2, <2>1, <3>1
    <3>3. QED
      BY <1>3, <2>3, <2>5, <3>2 DEF Latest, SameTop
  <2>6. QED
    BY <2>4, <2>5
<1>7. QED
  BY <1>2, <1>4, <1>6 DEF UvIInv

\* The pipes and the cache of the other controllers.
LEMMA UvOthersKeep ==
    ASSUME UvIInv, NEW c \in Controllers, SameTop,
           \A d \in Controllers \ {c} :
               /\ need_query'[d] = need_query[d] /\ data'[d] = data[d]
               /\ requests'[d] = requests[d] /\ answers'[d] = answers[d]
               /\ events'[d] = events[d]
               /\ d \in on_event' <=> d \in on_event
               /\ d \in lost' <=> d \in lost,
           on_event' \subseteq Controllers,
           c \in on_event' \ lost' /\ ~ need_query'[c] /\ NoNews(events'[c]) => Latest(c)'
    PROVE  LatestInv'
<1>1. LatestInv /\ Current' = Current /\ QueryAnswer' = QueryAnswer
  BY DEF UvIInv, SameTop
<1>2. SUFFICES ASSUME NEW d \in on_event' \ lost', ~ need_query'[d], NoNews(events'[d])
               PROVE  Latest(d)'
  BY DEF LatestInv
<1>3. CASE d = c
  BY <1>2, <1>3
<1>4. CASE d # c
  <2>1. d \in Controllers \ {c}
    BY <1>2, <1>4
  <2>2. d \in on_event \ lost /\ ~ need_query[d] /\ NoNews(events[d])
    BY <1>2, <2>1
  <2>3. Latest(d)
    BY <1>1, <2>2 DEF LatestInv
  <2>4. QED
    BY <1>1, <2>1, <2>3 DEF Latest
<1>5. QED
  BY <1>3, <1>4

\* media_uv_session_open: need_query is set.
LEMMA UvOpenKeeps ==
    ASSUME UvIInv, NEW c \in Controllers, media_uv_session_open(c)
    PROVE  UvIInv'
<1>1. ServerInv /\ GivenKept /\ UvClientInv
  BY DEF UvIInv
<1>2. /\ media_session_controller_open(c)
      /\ need_query' = [need_query EXCEPT ![c] = TRUE]
      /\ UNCHANGED <<data, on_event, requests, answers>>
  BY DEF media_uv_session_open
<1>3. ServerInv' /\ GivenKept' /\ SameTop
  BY <1>1, <1>2, ControllerServed
<1>4. controllers' = controllers \cup {c} /\ UNCHANGED <<event, events, lost>>
  BY <1>2 DEF media_session_controller_open
<1>5. need_query \in [Controllers -> BOOLEAN] /\ on_event \subseteq Controllers
  BY <1>1 DEF UvClientInv, ServerInv
<1>6. need_query'[c] /\ \A d \in Controllers \ {c} : need_query'[d] = need_query[d]
  BY <1>2, <1>5
<1>7. UvClientInv'
  BY <1>1, <1>2, <1>4 DEF UvClientInv
<1>8. LatestInv'
  BY <1>2, <1>3, <1>4, <1>5, <1>6, UvOthersKeep
<1>9. QED
  BY <1>3, <1>7, <1>8 DEF UvIInv

\* media_uv_session_listen: a controller without a listener asks anyway.
LEMMA UvListenKeeps ==
    ASSUME UvIInv, NEW c \in Controllers, media_uv_session_listen(c)
    PROVE  UvIInv'
<1>1. ServerInv /\ GivenKept /\ UvClientInv
  BY DEF UvIInv
<1>2. /\ c \in controllers \ on_event /\ on_event' = on_event \cup {c}
      /\ requests' = [requests EXCEPT ![c] = Append(requests[c], "listen")]
      /\ UNCHANGED session_vars /\ UNCHANGED <<data, need_query, answers>>
  BY DEF media_uv_session_listen
<1>3. ServerInv' /\ GivenKept' /\ SameTop
  BY <1>1, <1>2, ControllerServed
<1>4. UNCHANGED <<controllers, event, events, lost>>
  BY <1>2 DEF session_vars
<1>5. /\ need_query[c] /\ on_event' \subseteq controllers /\ controllers \subseteq Controllers
      /\ requests \in [Controllers -> Seq({"listen", "query"})]
  BY <1>1, <1>2 DEF UvClientInv, ServerInv
<1>6. PICK longer : longer = Append(requests[c], "listen")
  OBVIOUS
<1>7. /\ longer \in Seq({"listen", "query"}) /\ longer[Len(longer)] = "listen"
      /\ Len(longer) \in DOMAIN longer
  BY <1>5, <1>6, PipeAppend
<1>8. /\ requests' \in [Controllers -> Seq({"listen", "query"})] /\ requests'[c] = longer
      /\ \A d \in Controllers \ {c} : requests'[d] = requests[d]
  BY <1>2, <1>5, <1>6, <1>7
<1>9. \E i \in DOMAIN requests'[c] : requests'[c][i] = "listen"
  BY <1>7, <1>8
<1>10. UvClientInv'
  BY <1>1, <1>2, <1>4, <1>5, <1>8, <1>9 DEF UvClientInv
<1>11. LatestInv'
  BY <1>2, <1>3, <1>4, <1>5, <1>8, UvOthersKeep
<1>12. QED
  BY <1>3, <1>10, <1>11 DEF UvIInv

\* media_uv_session_query: the query is the last request.
LEMMA UvQueryKeeps ==
    ASSUME UvIInv, NEW c \in Controllers, media_uv_session_query(c)
    PROVE  UvIInv'
<1>1. ServerInv /\ GivenKept /\ UvClientInv
  BY DEF UvIInv
<1>2. /\ c \in controllers
      /\ requests' = [requests EXCEPT ![c] = Append(requests[c], "query")]
      /\ need_query' = [need_query EXCEPT ![c] = c \notin on_event]
      /\ UNCHANGED session_vars /\ UNCHANGED <<data, on_event, answers>>
  BY DEF media_uv_session_query
<1>3. ServerInv' /\ GivenKept' /\ SameTop
  BY <1>1, <1>2, ControllerServed
<1>4. UNCHANGED <<controllers, event, events, lost>>
  BY <1>2 DEF session_vars
<1>5. /\ need_query \in [Controllers -> BOOLEAN] /\ on_event \subseteq Controllers
      /\ requests \in [Controllers -> Seq({"listen", "query"})]
  BY <1>1 DEF UvClientInv, ServerInv
<1>6. PICK longer : longer = Append(requests[c], "query")
  OBVIOUS
<1>7. /\ longer \in Seq({"listen", "query"}) /\ longer[Len(longer)] = "query" /\ longer # <<>>
      /\ \A i \in DOMAIN requests[c] : i \in DOMAIN longer /\ longer[i] = requests[c][i]
  BY <1>5, <1>6, PipeAppend
<1>8. /\ requests' \in [Controllers -> Seq({"listen", "query"})] /\ requests'[c] = longer
      /\ \A d \in Controllers \ {c} : requests'[d] = requests[d]
  BY <1>2, <1>5, <1>6, <1>7
<1>9. /\ need_query' \in [Controllers -> BOOLEAN]
      /\ c \notin on_event => need_query'[c]
      /\ \A d \in Controllers \ {c} : need_query'[d] = need_query[d]
  BY <1>2, <1>5
<1>10. ASSUME NEW d \in Controllers
       PROVE  /\ d \in controllers \ on_event => need_query'[d]
              /\ d \in on_event \ event =>
                     \E i \in DOMAIN requests'[d] : requests'[d][i] = "listen"
              /\ d \notin controllers => requests'[d] = <<>>
  BY <1>1, <1>2, <1>7, <1>8, <1>9 DEF UvClientInv
<1>11. UvClientInv'
  BY <1>1, <1>2, <1>4, <1>8, <1>9, <1>10 DEF UvClientInv
<1>12. Latest(c)'
  BY <1>7, <1>8 DEF Latest
<1>13. LatestInv'
  BY <1>2, <1>3, <1>4, <1>5, <1>8, <1>9, <1>12, UvOthersKeep
<1>14. QED
  BY <1>3, <1>11, <1>13 DEF UvIInv

\* The server listens: that was not the last request of one that waits.
LEMMA ServeListenKeeps ==
    ASSUME UvIInv, NEW c \in Controllers, ServeListen(c)
    PROVE  UvIInv'
<1>1. ServerInv /\ GivenKept /\ UvClientInv
  BY DEF UvIInv
<1>2. /\ requests[c] # <<>> /\ Head(requests[c]) = "listen" /\ SetEvent(c)
      /\ requests' = [requests EXCEPT ![c] = Tail(requests[c])]
      /\ UNCHANGED <<data, need_query, on_event, answers>>
  BY DEF ServeListen
<1>3. /\ c \in controllers /\ on_event \subseteq Controllers
      /\ requests \in [Controllers -> Seq({"listen", "query"})]
  BY <1>1, <1>2 DEF UvClientInv, ServerInv
<1>4. ServerInv' /\ GivenKept' /\ SameTop
  BY <1>1, <1>2, <1>3, ControllerServed
<1>5. event' = event \cup {c} /\ UNCHANGED <<controllers, events, lost>>
  BY <1>2 DEF SetEvent
<1>6. PICK rest : rest = Tail(requests[c])
  OBVIOUS
<1>7. /\ rest \in Seq({"listen", "query"})
      /\ rest # <<>> => rest[Len(rest)] = requests[c][Len(requests[c])]
      /\ rest = <<>> => requests[c][Len(requests[c])] = "listen"
  BY <1>2, <1>3, <1>6, PipeTail
<1>8. /\ requests' \in [Controllers -> Seq({"listen", "query"})] /\ requests'[c] = rest
      /\ \A d \in Controllers \ {c} : requests'[d] = requests[d]
  BY <1>2, <1>3, <1>6, <1>7
<1>9. ASSUME NEW d \in Controllers
      PROVE  /\ d \in on_event \ event' =>
                    \E i \in DOMAIN requests'[d] : requests'[d][i] = "listen"
             /\ d \notin controllers => requests'[d] = <<>>
  BY <1>1, <1>3, <1>5, <1>8 DEF UvClientInv
<1>10. UvClientInv'
  BY <1>1, <1>2, <1>5, <1>8, <1>9 DEF UvClientInv
<1>11. c \in on_event \ lost /\ ~ need_query[c] /\ NoNews(events[c]) => Latest(c)'
  <2>1. SUFFICES ASSUME c \in on_event \ lost, ~ need_query[c], NoNews(events[c])
                 PROVE  Latest(c)'
    OBVIOUS
  <2>2. requests[c][Len(requests[c])] = "query"
    BY <1>2, <2>1 DEF UvIInv, LatestInv, Latest
  <2>3. QED
    BY <1>7, <1>8, <2>2 DEF Latest
<1>12. LatestInv'
  BY <1>2, <1>3, <1>4, <1>5, <1>8, <1>11, UvOthersKeep
<1>13. QED
  BY <1>4, <1>10, <1>12 DEF UvIInv

\* The server answers: the last answer is current.
LEMMA ServeQueryKeeps ==
    ASSUME UvIInv, NEW c \in Controllers, ServeQuery(c)
    PROVE  UvIInv'
<1>1. ServerInv /\ GivenKept /\ UvClientInv
  BY DEF UvIInv
<1>2. /\ requests[c] # <<>> /\ Head(requests[c]) = "query"
      /\ requests' = [requests EXCEPT ![c] = Tail(requests[c])]
      /\ answers' = [answers EXCEPT ![c] = Append(answers[c], QueryAnswer)]
      /\ UNCHANGED session_vars /\ UNCHANGED <<data, need_query, on_event>>
  BY DEF ServeQuery
<1>3. /\ on_event \subseteq Controllers
      /\ requests \in [Controllers -> Seq({"listen", "query"})]
      /\ answers \in [Controllers -> Seq(Answers)]
  BY <1>1, <1>2 DEF UvClientInv, ServerInv
<1>4. ServerInv' /\ GivenKept' /\ SameTop
  BY <1>1, <1>2, ControllerServed
<1>5. UNCHANGED <<controllers, event, events, lost>>
  BY <1>2 DEF session_vars
<1>6. PICK rest : rest = Tail(requests[c])
  OBVIOUS
<1>7. /\ rest \in Seq({"listen", "query"})
      /\ rest # <<>> => rest[Len(rest)] = requests[c][Len(requests[c])]
      /\ \A i \in DOMAIN requests[c] : requests[c][i] = "listen" =>
             i - 1 \in DOMAIN rest /\ rest[i - 1] = "listen"
  BY <1>2, <1>3, <1>6, PipeTail
<1>8. /\ requests' \in [Controllers -> Seq({"listen", "query"})] /\ requests'[c] = rest
      /\ \A d \in Controllers \ {c} : requests'[d] = requests[d]
  BY <1>2, <1>3, <1>6, <1>7
<1>9. PICK a \in Answers : a = QueryAnswer
  BY <1>1, AnswerRead
<1>10. PICK longer : longer = Append(answers[c], a)
  OBVIOUS
<1>11. longer \in Seq(Answers) /\ longer # <<>> /\ longer[Len(longer)] = a
  BY <1>3, <1>10, PipeAppend
<1>12. /\ answers' \in [Controllers -> Seq(Answers)] /\ answers'[c] = longer
       /\ \A d \in Controllers \ {c} : answers'[d] = answers[d]
  BY <1>2, <1>3, <1>9, <1>10, <1>11
<1>13. ASSUME NEW d \in Controllers
       PROVE  /\ d \in on_event \ event =>
                     \E i \in DOMAIN requests'[d] : requests'[d][i] = "listen"
              /\ d \notin controllers => requests'[d] = <<>>
  <2>1. /\ d \in on_event \ event =>
               \E i \in DOMAIN requests[d] : requests[d][i] = "listen"
        /\ d \notin controllers => requests[d] = <<>>
    BY <1>1 DEF UvClientInv
  <2>2. CASE d = c
    BY <1>2, <1>7, <1>8, <2>1, <2>2
  <2>3. CASE d # c
    BY <1>8, <2>1, <2>3
  <2>4. QED
    BY <2>2, <2>3
<1>14. UvClientInv'
  BY <1>1, <1>2, <1>5, <1>8, <1>12, <1>13 DEF UvClientInv
<1>15. c \in on_event \ lost /\ ~ need_query[c] /\ NoNews(events[c]) => Latest(c)'
  <2>1. SUFFICES ASSUME c \in on_event \ lost, ~ need_query[c], NoNews(events[c])
                 PROVE  Latest(c)'
    OBVIOUS
  <2>2. requests[c][Len(requests[c])] = "query"
    BY <1>2, <2>1 DEF UvIInv, LatestInv, Latest
  <2>3. QueryAnswer' = a
    BY <1>4, <1>9 DEF SameTop
  <2>4. QED
    BY <1>7, <1>8, <1>11, <1>12, <2>2, <2>3 DEF Latest
<1>16. LatestInv'
  BY <1>2, <1>3, <1>4, <1>5, <1>8, <1>12, <1>15, UvOthersKeep
<1>17. QED
  BY <1>4, <1>14, <1>16 DEF UvIInv

\* media_uv_controller_receive_metadata_cb: the last answer leaves its contents
\* in the cache.
LEMMA UvReceiveKeeps ==
    ASSUME UvIInv, NEW c \in Controllers, media_uv_controller_receive_metadata_cb(c)
    PROVE  UvIInv'
<1>1. ServerInv /\ GivenKept /\ UvClientInv
  BY DEF UvIInv
<1>2. /\ answers[c] # <<>> /\ answers' = [answers EXCEPT ![c] = Tail(answers[c])]
      /\ UNCHANGED session_vars /\ UNCHANGED <<need_query, on_event, requests>>
  BY DEF media_uv_controller_receive_metadata_cb
<1>3. /\ on_event \subseteq Controllers /\ data \in [Controllers -> Kept]
      /\ answers \in [Controllers -> Seq(Answers)]
  BY <1>1 DEF UvClientInv, ServerInv
<1>4. ServerInv' /\ GivenKept' /\ SameTop
  BY <1>1, <1>2, ControllerServed
<1>5. UNCHANGED <<controllers, event, events, lost>>
  BY <1>2 DEF session_vars
<1>6. PICK rest : rest = Tail(answers[c])
  OBVIOUS
<1>7. PICK a : a = Head(answers[c])
  OBVIOUS
<1>8. /\ rest \in Seq(Answers) /\ a \in Answers
      /\ rest # <<>> => rest[Len(rest)] = answers[c][Len(answers[c])]
      /\ rest = <<>> => a = answers[c][Len(answers[c])]
  BY <1>2, <1>3, <1>6, <1>7, PipeTail
<1>9. /\ answers' \in [Controllers -> Seq(Answers)] /\ answers'[c] = rest
      /\ \A d \in Controllers \ {c} : answers'[d] = answers[d]
  BY <1>2, <1>3, <1>6, <1>8
<1>10. a.ret \in Int /\ (a.ret >= 0 => media_metadata_unserialize(a.res) \in Kept)
  BY <1>8, AnswerKept
<1>11. PICK diff : diff = IF a.ret < 0 THEN media_metadata_init
                          ELSE media_metadata_unserialize(a.res)
  OBVIOUS
<1>12. diff \in Kept
  BY <1>10, <1>11, EmptyKept
<1>13. PICK old \in Kept : old = data[c]
  BY <1>3
<1>14. PICK new : new = media_metadata_update(old, diff)
  OBVIOUS
<1>15. data' = [data EXCEPT ![c] = new]
  BY <1>7, <1>11, <1>13, <1>14 DEF media_uv_controller_receive_metadata_cb
<1>16. new \in Kept /\ Holds(new, diff)
  BY <1>12, <1>14, UpdateFields, UpdateHolds DEF Holds
<1>17. /\ data' \in [Controllers -> Kept] /\ data'[c] = new
       /\ \A d \in Controllers \ {c} : data'[d] = data[d]
  BY <1>3, <1>15, <1>16
<1>18. UvClientInv'
  BY <1>1, <1>2, <1>5, <1>9, <1>17 DEF UvClientInv
<1>19. c \in on_event \ lost /\ ~ need_query[c] /\ NoNews(events[c]) => Latest(c)'
  <2>1. SUFFICES ASSUME c \in on_event \ lost, ~ need_query[c], NoNews(events[c])
                 PROVE  Latest(c)'
    OBVIOUS
  <2>2. Latest(c) /\ Current' = Current /\ QueryAnswer' = QueryAnswer
    BY <1>4, <2>1 DEF UvIInv, LatestInv, SameTop
  <2>3. CASE requests[c] # <<>>
    BY <1>2, <2>2, <2>3 DEF Latest
  <2>4. CASE requests[c] = <<>> /\ rest # <<>>
    <3>1. rest[Len(rest)] = QueryAnswer
      BY <1>2, <1>8, <2>2, <2>4 DEF Latest
    <3>2. QED
      BY <1>2, <1>9, <2>2, <2>4, <3>1 DEF Latest
  <2>5. CASE requests[c] = <<>> /\ rest = <<>>
    <3>1. a = QueryAnswer
      BY <1>2, <1>8, <2>2, <2>5 DEF Latest
    <3>2. diff = Current
      BY <1>1, <1>10, <1>11, <3>1, AnswerRead
    <3>3. Holds(new, Current)
      BY <1>16, <3>2
    <3>4. QED
      BY <1>2, <1>9, <1>17, <2>2, <2>5, <3>3 DEF Latest
  <2>6. QED
    BY <2>3, <2>4, <2>5
<1>20. LatestInv'
  BY <1>2, <1>3, <1>4, <1>5, <1>9, <1>17, <1>19, UvOthersKeep
<1>21. QED
  BY <1>4, <1>18, <1>20 DEF UvIInv

\* media_uv_session_event_cb: news set need_query.
LEMMA UvEventKeeps ==
    ASSUME UvIInv, NEW c \in Controllers, media_uv_session_event_cb(c)
    PROVE  UvIInv'
<1> DEFINE ev == Head(events[c])
<1>1. ServerInv /\ GivenKept /\ UvClientInv
  BY DEF UvIInv
<1>2. /\ events[c] # <<>> /\ events' = [events EXCEPT ![c] = Tail(events[c])]
      /\ data' = [data EXCEPT ![c] =
                    IF ev = MEDIA_EVENT_CHANGED THEN media_metadata_init ELSE @]
      /\ need_query' = [need_query EXCEPT ![c] =
                          @ \/ ev = MEDIA_EVENT_CHANGED \/ ev = MEDIA_EVENT_UPDATED]
      /\ UNCHANGED <<controllees, meta, given, controllers, event, lost,
                     on_event, requests, answers>>
  BY DEF media_uv_session_event_cb
<1>3. /\ events \in [Controllers -> Seq(Events)] /\ data \in [Controllers -> Kept]
      /\ need_query \in [Controllers -> BOOLEAN] /\ on_event \subseteq Controllers
      /\ Len(events[c]) <= NotifyQueue /\ events[c] \in Seq(Events)
  BY <1>1 DEF ServerInv, UvClientInv
<1>4. PICK rest : rest = Tail(events[c])
  OBVIOUS
<1>5. /\ rest \in Seq(Events) /\ Len(rest) < Len(events[c]) /\ ev \in Events
      /\ NoNews(rest) /\ ev = MEDIA_EVENT_RESULT => NoNews(events[c])
  BY <1>2, <1>3, <1>4, TailNews
<1> HIDE DEF ev
<1>6. /\ events' \in [Controllers -> Seq(Events)] /\ events'[c] = rest
      /\ \A d \in Controllers \ {c} : events'[d] = events[d]
  BY <1>2, <1>3, <1>4, <1>5
<1>7. \A d \in Controllers : Len(events'[d]) <= NotifyQueue
  <2>1. Len(rest) <= NotifyQueue
    BY <1>3, <1>5, SessionAssumption
  <2>2. QED
    BY <1>1, <1>6, <2>1 DEF ServerInv
<1>8. ServerInv' /\ GivenKept'
  BY <1>1, <1>2, <1>6, <1>7 DEF ServerInv, GivenKept
<1>9. SameTop
  BY <1>2, TopOf
<1>10. /\ data' \in [Controllers -> Kept]
       /\ \A d \in Controllers \ {c} : data'[d] = data[d]
       /\ ev # MEDIA_EVENT_CHANGED => data'[c] = data[c]
  BY <1>2, <1>3, EmptyKept
<1>11. /\ need_query' \in [Controllers -> BOOLEAN]
       /\ \A d \in Controllers \ {c} : need_query'[d] = need_query[d]
       /\ need_query[c] => need_query'[c]
       /\ ev \in {MEDIA_EVENT_CHANGED, MEDIA_EVENT_UPDATED} => need_query'[c]
  BY <1>2, <1>3
<1>12. UvClientInv'
  BY <1>1, <1>2, <1>10, <1>11 DEF UvClientInv
<1>13. c \in on_event' \ lost' /\ ~ need_query'[c] /\ NoNews(events'[c]) => Latest(c)'
  <2>1. SUFFICES ASSUME c \in on_event \ lost, ~ need_query'[c], NoNews(rest)
                 PROVE  Latest(c)'
    BY <1>2, <1>6
  <2>2. ev = MEDIA_EVENT_RESULT
    BY <1>5, <1>11, <2>1 DEF Events
  <2>3. NoNews(events[c]) /\ ~ need_query[c] /\ data'[c] = data[c]
    BY <1>5, <1>10, <1>11, <2>1, <2>2, NewsAreEvents
  <2>4. Latest(c)
    BY <2>1, <2>3 DEF UvIInv, LatestInv
  <2>5. QED
    BY <1>2, <1>9, <2>3, <2>4 DEF Latest, SameTop
<1>14. LatestInv'
  BY <1>2, <1>3, <1>6, <1>9, <1>10, <1>11, <1>13, UvOthersKeep
<1>15. QED
  BY <1>8, <1>12, <1>14 DEF UvIInv

LEMMA UvControlKeeps ==
    ASSUME UvIInv, NEW c \in Controllers, media_uv_session_control(c)
    PROVE  UvIInv'
<1>1. Control(c) /\ UNCHANGED <<data, need_query, on_event, requests, answers>>
  BY DEF media_uv_session_control, uv_cache_vars
<1>2. ServerInv' /\ GivenKept' /\ SameTop
  BY <1>1, ControllerServed DEF UvIInv
<1>3. UNCHANGED <<controllers, event, events, lost>>
  BY <1>1 DEF Control
<1>4. UvClientInv' /\ LatestInv'
  BY <1>1, <1>2, <1>3 DEF UvIInv, UvClientInv, LatestInv, Latest, SameTop
<1>5. QED
  BY <1>2, <1>4 DEF UvIInv

\* media_uv_session_close: nothing of the controller stays.
LEMMA UvCloseKeeps ==
    ASSUME UvIInv, NEW c \in Controllers, media_uv_session_close(c)
    PROVE  UvIInv'
<1>1. ServerInv /\ GivenKept /\ UvClientInv
  BY DEF UvIInv
<1>2. /\ UnderWay(c) = 0 /\ media_session_controller_close(c)
      /\ data' = [data EXCEPT ![c] = media_metadata_init]
      /\ need_query' = [need_query EXCEPT ![c] = FALSE]
      /\ on_event' = on_event \ {c}
      /\ UNCHANGED <<requests, answers>>
  BY DEF media_uv_session_close
<1>3. ServerInv' /\ GivenKept' /\ SameTop
  BY <1>1, <1>2, ControllerServed
<1>4. /\ controllers' = controllers \ {c} /\ event' = event \ {c} /\ lost' = lost \ {c}
      /\ events' = [events EXCEPT ![c] = <<>>]
  BY <1>2 DEF media_session_controller_close
<1>5. /\ data \in [Controllers -> Kept] /\ need_query \in [Controllers -> BOOLEAN]
      /\ events \in [Controllers -> Seq(Events)]
      /\ on_event \subseteq Controllers /\ on_event \subseteq controllers
      /\ requests \in [Controllers -> Seq({"listen", "query"})]
      /\ answers \in [Controllers -> Seq(Answers)]
  BY <1>1 DEF ServerInv, UvClientInv
<1>6. requests[c] = <<>>
  <2>1. PICK p \in Seq({"listen", "query"}), q \in Seq(Answers) : p = requests[c] /\ q = answers[c]
    BY <1>5
  <2>2. Len(p) + Len(q) = 0
    BY <1>2, <2>1 DEF UnderWay
  <2>3. p = <<>>
    BY <2>2, PipesEmpty
  <2>4. QED
    BY <2>1, <2>3
<1>7. UvClientInv'
  BY <1>1, <1>2, <1>4, <1>6, EmptyKept DEF UvClientInv
<1>8. LatestInv'
  BY <1>2, <1>3, <1>4, <1>5, UvOthersKeep
<1>9. QED
  BY <1>3, <1>7, <1>8 DEF UvIInv

LEMMA UvIInvNext == UvIInv /\ [UvNext]_uv_vars => UvIInv'
<1> SUFFICES ASSUME UvIInv, [UvNext]_uv_vars PROVE UvIInv'
  OBVIOUS
<1>1. CASE ControlleeStep /\ UNCHANGED uv_cache_vars
  BY <1>1, UvControlleeKeeps
<1>2. ASSUME NEW c \in Controllers,
             \/ media_uv_session_open(c)
             \/ media_uv_session_listen(c)
             \/ media_uv_session_query(c)
             \/ ServeListen(c)
             \/ ServeQuery(c)
             \/ media_uv_controller_receive_metadata_cb(c)
             \/ media_uv_session_event_cb(c)
             \/ media_uv_session_control(c)
             \/ media_uv_session_close(c)
      PROVE  UvIInv'
  BY <1>2, UvOpenKeeps, UvListenKeeps, UvQueryKeeps, ServeListenKeeps, ServeQueryKeeps,
     UvReceiveKeeps, UvEventKeeps, UvControlKeeps, UvCloseKeeps
<1>3. CASE UNCHANGED uv_vars
  BY <1>3 DEF uv_vars, UvIInv, ServerInv, GivenKept, UvClientInv, LatestInv, Latest, Current,
              QueryAnswer
<1>4. QED
  BY <1>1, <1>2, <1>3 DEF UvNext

LEMMA UvIInvHolds == UvSpec => []UvIInv
<1>1. QED
  BY UvIInvInit, UvIInvNext, PTL DEF UvSpec

(* What an asynchronous controller would hand out from its cache has all   *)
(* that the most active controllee has said, however many queries are      *)
(* pipelined and in whatever order their answers and the events are read   *)
(* (need_query is reset by media_uv_session_query, before the answer),     *)
(* unless an event was dropped for it.                                     *)
THEOREM UvCacheComplete == UvSpec => []CacheComplete
<1>1. UvIInv => CacheComplete
  <2>1. SUFFICES ASSUME UvIInv, NEW c \in Controllers \ lost, UvCached(c)
                 PROVE  media_metadata_update(data[c], Current) = data[c]
    BY DEF CacheComplete
  <2>2. PICK p \in Seq({"listen", "query"}), q \in Seq(Answers) : p = requests[c] /\ q = answers[c]
    BY <2>1 DEF UvIInv, UvClientInv
  <2>3. requests[c] = <<>> /\ answers[c] = <<>>
    <3>1. Len(p) + Len(q) = 0
      BY <2>1, <2>2 DEF UvCached, UnderWay
    <3>2. p = <<>> /\ q = <<>>
      BY <3>1, PipesEmpty
    <3>3. QED
      BY <2>2, <3>2
  <2>4. c \in on_event \ lost /\ ~ need_query[c] /\ NoNews(events[c])
    BY <2>1 DEF UvCached, NoNews
  <2>5. Latest(c)
    BY <2>1, <2>4 DEF UvIInv, LatestInv
  <2>6. QED
    BY <2>3, <2>5 DEF Latest, Holds
<1>2. QED
  BY <1>1, UvIInvHolds, PTL
=============================================================================
