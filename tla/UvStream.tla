------------------------------- MODULE UvStream -------------------------------
(***************************************************************************)
(* client/media_uv_graph.c: an asynchronous player or recorder, with the   *)
(* objects that live beside it in the same libuv loop: the listeners for a *)
(* data pipe, the focus it asks for (client/media_uv_focus.c), and the     *)
(* query of its volume (client/media_uv_policy.c).                         *)
(*                                                                         *)
(* Each of these has a connection and a life of its own, and calls back    *)
(* into the stream, or into what the stream has allocated, at its own      *)
(* time.  The stream is one record, s; the C functions are operators from  *)
(* it to itself, each callback of the loop and each call of the            *)
(* application an action.  "then" is what the application does inside a    *)
(* callback.                                                               *)
(*                                                                         *)
(* What MediaUv shows of a connection is taken for granted here: requests  *)
(* are answered in their order.  The server accepts the stream or refuses  *)
(* it, and does not end.                                                   *)
(***************************************************************************)
EXTENDS MediaDefs, Sequences, FiniteSets

CONSTANTS Kinds,        \* of streams: "player", "recorder", "picture"
          Cpus,         \* a listener is made for each
          Focuses,      \* focus requests the application makes, in turn
          MaxPrepares,  \* prepares in buffer mode
          MaxCalls,     \* calls of the application before it closes
          Faults        \* subset of FaultKinds

FaultKinds == {"refuse",   \* no server takes the stream
               "listen",   \* bind, listen or accept fails
               "focus",    \* no server for the focus, or no listener
               "volume",   \* no server for the volume
               "requery",  \* a query before the last one is complete
               "reenter"}  \* the application stops or closes in on_connection

ASSUME UvStreamAssumption ==
    /\ Kinds \subseteq {"player", "recorder", "picture"} /\ Faults \subseteq FaultKinds
    /\ IsFiniteSet(Focuses) /\ Focuses = 1 .. Cardinality(Focuses)
    /\ IsFiniteSet(Cpus) /\ Cpus = 1 .. Cardinality(Cpus)
    /\ MaxPrepares \in Nat /\ MaxCalls \in Nat

VARIABLE s
vars == <<s>>

Fields == {"state", "volume", "duration", "position"}   \* MEDIA_METAFLAG_*
Prepares == 1 .. MaxPrepares
Requests == [op : {"open", "close", "call"}, of : {0}]
            \cup [op : {"play"}, of : Focuses]
            \cup [op : {"query"}, of : Fields \ {"volume"}]
Request(op) == [op |-> op, of |-> 0]

Focus0 == [phase |-> "none", stream |-> FALSE, on_play |-> FALSE, leaving |-> FALSE, told |-> 0]

FocusType ==
    [phase   : {"none", "connecting", "asking", "held", "deaf", "dead", "freed"},
     stream  : BOOLEAN,   \* MediaFocusPriv.stream is not NULL
     on_play : BOOLEAN,   \* to be called
     leaving : BOOLEAN,   \* "abandon" was sent
     told    : Nat]       \* calls of on_play

StreamType ==
    [kind     : Kinds,
     link     : {"opening", "up", "refused", "disconnecting", "gone"},  \* priv->proxy
     q        : Seq(Requests),        \* requests to be answered
     pipe     : BOOLEAN,              \* priv->pipe
     on_connection : Prepares \cup {NULL},  \* whose on_connection is to be called
     prepared : 0 .. MaxPrepares,     \* prepares in buffer mode so far
     dialed   : 0 .. MaxPrepares,     \* connections the server has made for them
     told     : [Prepares -> Nat],    \* calls of their on_connection
     listeners : [Cpus -> {"none", "open", "closing"}],
     focus    : Focuses \cup {NULL},  \* priv->focus
     focuses  : [Focuses -> FocusType],
     expected : SUBSET Fields,        \* priv->query->expected
     volumes  : Nat,                  \* volume queries under way
     lost     : BOOLEAN,              \* an answer will not come
     calls    : 0 .. MaxCalls,
     closing  : BOOLEAN,              \* the application has closed
     closed   : Nat,                  \* calls of on_close
     freed    : BOOLEAN,
     bad      : BOOLEAN]              \* freed memory was used

-----------------------------------------------------------------------------
(* The stream                                                              *)

\* A mutant: listeners are not waited for.
ReleaseIgnoresListeners(t) ==
    IF t.link # "gone" \/ t.expected # {} THEN t
    ELSE [t EXCEPT !.closed = @ + 1, !.freed = TRUE]
\* media_uv_stream_release: on_close, then free.
media_uv_stream_release(t) ==
    IF t.link # "gone" \/ (\E k \in Cpus : t.listeners[k] # "none") \/ t.expected # {} THEN t
    ELSE [t EXCEPT !.closed = @ + 1, !.freed = TRUE]

\* media_uv_send fails once the connection is given up; media_uv_stream_send
\* with a callback asks for an answer.
Refuses(t) == t.link \in {"refused", "disconnecting", "gone"}
media_uv_stream_send(t, request) ==
    IF Refuses(t) THEN t ELSE [t EXCEPT !.q = Append(@, request)]

\* A mutant: the callback is forgotten with the pipe.
ClosePipeOnly(t) == [t EXCEPT !.pipe = FALSE, !.on_connection = NULL]
media_uv_stream_close_pipe(t) ==
    IF t.on_connection = NULL THEN [t EXCEPT !.pipe = FALSE]
    ELSE [t EXCEPT !.pipe = FALSE, !.told[t.on_connection] = @ + 1, !.on_connection = NULL]

media_uv_stream_listen_clear(t, available) ==
    [t EXCEPT !.listeners = [k \in Cpus |->
        IF @[k] = "open" /\ k # available THEN "closing" ELSE @[k]]]

\* "abandon" is sent unless the focus has no server.
media_uv_focus_abandon(t, f) ==
    IF t.focuses[f].phase = "dead" THEN {} ELSE {[t EXCEPT !.focuses[f].leaving = TRUE]}

\* A mutant: only one side is detached.
AbandonOneSide(t) ==
    IF t.focus = NULL \/ t.focuses[t.focus].phase = "dead" THEN t
    ELSE [t EXCEPT !.focuses[t.focus].leaving = TRUE, !.focus = NULL]
\* Focus and stream are detached at once, when it was sent.
media_uv_stream_abandon_focus(t) ==
    IF t.focus = NULL \/ media_uv_focus_abandon(t, t.focus) = {} THEN t
    ELSE LET u == CHOOSE u \in media_uv_focus_abandon(t, t.focus) : TRUE
         IN  [u EXCEPT !.focuses[t.focus].stream = FALSE, !.focus = NULL]

\* media_uv_player_stop and media_uv_player_reset; "cb" says whether an
\* answer is asked for.
Stop(t, cb) ==
    LET u == media_uv_stream_abandon_focus(media_uv_stream_close_pipe(t))
    IN  IF cb THEN media_uv_stream_send(u, Request("call")) ELSE u

\* media_uv_player_close and media_uv_recorder_close.
\* A mutant: the listeners stay.
CloseKeepsListeners(t) ==
    LET u == [t EXCEPT !.closing = TRUE]
        v == IF Refuses(u) THEN [u EXCEPT !.link = "disconnecting"]
             ELSE media_uv_stream_send(u, Request("close"))
    IN  media_uv_stream_abandon_focus(media_uv_stream_close_pipe(v))
Close(t) ==
    LET u == [t EXCEPT !.closing = TRUE]
        v == IF Refuses(u) THEN [u EXCEPT !.link = "disconnecting"]
             ELSE media_uv_stream_send(u, Request("close"))
    IN  media_uv_stream_abandon_focus(
            media_uv_stream_listen_clear(media_uv_stream_close_pipe(v), NULL))

\* media_uv_recorder_take_picture_close: it does not wait for an answer.
PictureClose(t) ==
    IF t.link \in {"disconnecting", "gone"} THEN t
    ELSE [t EXCEPT !.link = "disconnecting", !.closing = TRUE]

\* The application inside a callback.
Application(t, then) ==
    IF t.closing \/ t.kind = "picture" THEN t
    ELSE CASE then = "close"                      -> Close(t)
           [] then = "stop" /\ t.calls < MaxCalls -> Stop([t EXCEPT !.calls = @ + 1], TRUE)
           [] OTHER                               -> t
Thens == {"nothing", "stop", "close"}

-----------------------------------------------------------------------------
(* Suggestions of the focus                                                *)

\* The suggestions that start the stream.
Active == {MEDIA_FOCUS_PLAY, MEDIA_FOCUS_PLAY_BUT_SILENT, MEDIA_FOCUS_PLAY_WITH_DUCK}

\* What a suggestion does to the stream; a player that is to be quiet is
\* started without on_play.
Suggested(t, f, suggest) ==
    CASE suggest \in Active /\ (suggest = MEDIA_FOCUS_PLAY \/ t.kind # "player") ->
            IF t.focuses[f].on_play
            THEN media_uv_stream_send(t, [op |-> "play", of |-> f]) ELSE t
      [] suggest = MEDIA_FOCUS_STOP -> Stop(t, FALSE)
      [] OTHER                      -> t

\* media_uv_player_suggest_cb and media_uv_recorder_suggest_cb.
Suggest(t, f, suggest, then) ==
    LET active == t.focuses[f].stream /\ suggest \in Active
        u == IF t.focuses[f].stream THEN Suggested(t, f, suggest) ELSE t
        v == [u EXCEPT !.focuses[f].on_play = FALSE]
    IN  IF t.freed /\ t.focuses[f].stream THEN [t EXCEPT !.bad = TRUE]
        ELSE IF t.focuses[f].on_play /\ ~ active
        THEN Application([v EXCEPT !.focuses[f].told = @ + 1], then)
        ELSE v

-----------------------------------------------------------------------------
(* Calls of the application                                                *)

Stream0(kind) ==
    [kind |-> kind, link |-> "opening", q |-> <<Request("open")>>, pipe |-> FALSE,
     on_connection |-> NULL, prepared |-> 0, dialed |-> 0, told |-> [n \in Prepares |-> 0],
     listeners |-> [k \in Cpus |-> "none"], focus |-> NULL,
     focuses |-> [f \in Focuses |-> Focus0], expected |-> {}, volumes |-> 0, lost |-> FALSE,
     calls |-> 0, closing |-> FALSE, closed |-> 0, freed |-> FALSE, bad |-> FALSE]

\* media_uv_player_open; media_uv_recorder_take_picture has also sent what it
\* needs, or has closed since that could not be sent.
Init ==
    \E kind \in Kinds :
        \/ s = Stream0(kind)
        \/ kind = "picture" /\ s = PictureClose(Stream0(kind))

Called == [s EXCEPT !.calls = @ + 1]
MayCall == ~ s.bad /\ ~ s.closing /\ s.kind # "picture"
Call == MayCall /\ s.calls < MaxCalls

\* Listeners are only created once; when the one of cpu "failed" cannot be
\* made, those before it are cleared.
media_uv_stream_listen_init(t, failed) ==
    IF \E k \in Cpus : t.listeners[k] # "none" THEN t
    ELSE IF failed = NULL THEN [t EXCEPT !.listeners = [k \in Cpus |-> "open"]]
    ELSE [t EXCEPT !.listeners = [k \in Cpus |-> IF k <= failed THEN "closing" ELSE "none"]]

\* media_uv_player_prepare in buffer mode; a double prepare is refused.
Prepare(failed) ==
    LET t == media_uv_stream_listen_init(Called, failed)
    IN  /\ Call /\ s.on_connection = NULL /\ s.prepared < MaxPrepares
        /\ failed # NULL => "listen" \in Faults /\ \A k \in Cpus : s.listeners[k] = "none"
        /\ s' = IF failed # NULL THEN t
                ELSE media_uv_stream_send(
                        [t EXCEPT !.on_connection = s.prepared + 1, !.prepared = @ + 1],
                        Request("call"))

\* media_uv_focus_request begins with a connection.
media_uv_focus_request == [Focus0 EXCEPT !.phase = "connecting"]

media_uv_stream_request_focus(t, f) ==
    [t EXCEPT !.focus = f,
              !.focuses[f] = [media_uv_focus_request EXCEPT !.stream = TRUE, !.on_play = TRUE]]

\* media_uv_player_start_auto, for the first time with a focus.
StartAuto ==
    /\ Call
    /\ \/ /\ s.focus # NULL
          /\ s' = media_uv_stream_send(Called, Request("call"))
       \/ /\ s.focus = NULL
          /\ \E f \in Focuses :
                /\ \A g \in Focuses : s.focuses[g].phase = "none" <=> g >= f
                /\ s' = media_uv_stream_request_focus(Called, f)

\* media_uv_player_pause; the suggestion to pause keeps the focus.
Pause ==
    /\ Call
    /\ s' = media_uv_stream_send(media_uv_stream_abandon_focus(Called), Request("call"))

\* media_uv_player_set_volume and the other requests that only get an answer.
UserSend == Call /\ s' = media_uv_stream_send(Called, Request("call"))

UserStop == Call /\ s' = Stop(Called, TRUE)
UserClose == MayCall /\ s' = Close(s)

\* A connection of its own, and a request behind it.
media_uv_policy_get_int(t) == [t EXCEPT !.volumes = @ + 1]

\* media_uv_player_query: what could be sent is expected.
Query ==
    LET t == media_uv_policy_get_int([Called EXCEPT !.expected = {"volume"}])
        Get(u, field) == media_uv_stream_send(u, [op |-> "query", of |-> field])
    IN  /\ Call /\ s.kind = "player"
        /\ s.expected = {} \/ "requery" \in Faults
        /\ s' = IF Refuses(t) THEN t
                ELSE [Get(Get(Get(t, "state"), "duration"), "position") EXCEPT
                        !.expected = Fields]

-----------------------------------------------------------------------------
(* Callbacks of the loop                                                   *)

\* media_uv_player_query_state_cb and its likes, with
\* media_uv_player_query_complete behind them.
QueryAnswer(t, field, then) ==
    LET u == [t EXCEPT !.expected = @ \ {field}]
    IN  IF t.freed THEN [t EXCEPT !.bad = TRUE]
        ELSE media_uv_stream_release(IF u.expected = {} THEN Application(u, then) ELSE u)

\* media_uv_stream_receive_cb and its likes, for the first request.
Answer(then) ==
    LET r == Head(s.q)
        t == [s EXCEPT !.q = Tail(@)]
    IN  /\ ~ s.bad /\ s.q # <<>> /\ s.link \in {"opening", "up", "disconnecting"}
        /\ s' = CASE r.op = "open" ->
                       Application([t EXCEPT !.link = IF @ = "opening" THEN "up" ELSE @], then)
                  [] r.op = "close" -> [t EXCEPT !.link = "disconnecting"]
                  [] r.op = "call"  -> Application(t, then)
                  [] r.op = "play"  -> Application([t EXCEPT !.focuses[r.of].told = @ + 1], then)
                  [] r.op = "query" -> QueryAnswer(t, r.of, then)

\* The last server has refused "open", or there is none: the queue is gone and
\* on_open has an error, for which the example of include/media_player.h
\* closes.
OpenRefused ==
    LET t == [s EXCEPT !.link = "refused", !.q = <<>>,
                       !.lost = @ \/ s.expected \ {"volume"} # {} \/ s.closing]
    IN  /\ ~ s.bad /\ "refuse" \in Faults /\ s.link = "opening"
        /\ s' = IF s.kind = "picture" THEN PictureClose(t) ELSE Application(t, "close")

\* media_uv_stream_disconnect_cb, at the end of media_uv_disconnect; requests
\* without an answer are freed.
media_uv_stream_disconnect_cb ==
    /\ ~ s.bad /\ s.link = "disconnecting"
    /\ s' = media_uv_stream_release([s EXCEPT !.link = "gone", !.q = <<>>])

\* media_uv_stream_event_cb.  take_picture closes on an error or STOPPED.
Event(e, then) ==
    LET t == IF e = "COMPLETED" THEN media_uv_stream_abandon_focus(s) ELSE s
    IN  /\ ~ s.bad /\ s.link \in {"up", "disconnecting"}
        /\ s' = IF s.kind = "picture" /\ e # "OTHER" THEN PictureClose(s)
                ELSE IF s.focus # NULL /\ e = "-EPERM" THEN s
                ELSE Application(t, then)

\* A connection of the server on the listener of cpu k, for a prepare that it
\* has been sent.
\* media_uv_stream_listen_connection_cb
Connection(k, outcome, then) ==
    LET t == [s EXCEPT !.dialed = @ + 1]
        one == [t EXCEPT !.listeners[k] = "closing"]
        u == media_uv_stream_listen_clear([t EXCEPT !.pipe = TRUE], k)
    IN  /\ ~ s.bad /\ s.listeners[k] = "open" /\ s.link \in {"up", "disconnecting", "gone"}
        /\ s.dialed < s.prepared
        /\ outcome = "accepted" \/ "listen" \in Faults
        /\ then = "nothing" \/ "reenter" \in Faults
        /\ s' = IF outcome = "error" \/ s.pipe THEN one
                ELSE IF outcome = "not accepted"
                THEN media_uv_stream_listen_clear(media_uv_stream_close_pipe(t), NULL)
                ELSE IF u.on_connection = NULL THEN media_uv_stream_close_pipe(u)
                ELSE [Application([u EXCEPT !.told[u.on_connection] = @ + 1], then)
                         EXCEPT !.on_connection = NULL]

\* media_uv_stream_listen_close_cb
ListenerClosed(k) ==
    /\ ~ s.bad /\ s.listeners[k] = "closing"
    /\ s' = IF s.freed THEN [s EXCEPT !.bad = TRUE]
            ELSE media_uv_stream_release([s EXCEPT !.listeners[k] = "none"])

\* media_uv_focus_ping_cb, media_uv_focus_connect_cb with an error, or
\* media_uv_focus_listen_cb, which asks the focus or has an error.
FocusConnected(f, phase, then) ==
    LET t == [s EXCEPT !.focuses[f].phase = phase]
    IN  /\ ~ s.bad /\ s.focuses[f].phase = "connecting"
        /\ phase = "asking" \/ "focus" \in Faults
        /\ s' = IF phase = "asking" THEN t ELSE Suggest(t, f, EPERM, then)

\* media_uv_focus_request_cb
FocusAnswered(f, suggest, then) ==
    /\ ~ s.bad /\ s.focuses[f].phase = "asking"
    /\ s' = Suggest([s EXCEPT !.focuses[f].phase = "held"], f, suggest, then)

\* media_uv_focus_event_cb; it may come before the answer.
FocusEvent(f, suggest, then) ==
    /\ ~ s.bad /\ s.focuses[f].phase \in {"asking", "held"}
    /\ s' = Suggest(s, f, suggest, then)

\* media_uv_focus_abandon_cb, media_uv_focus_release_cb and
\* media_uv_stream_abandon_focus_cb: the request before it was answered.
FocusAbandoned(f) ==
    /\ ~ s.bad /\ s.focuses[f].phase \in {"held", "deaf"} /\ s.focuses[f].leaving
    /\ s' = [s EXCEPT !.focuses[f].phase = "freed"]

\* media_uv_policy_receive_int_cb
VolumeAnswered(then) ==
    /\ ~ s.bad /\ s.volumes > 0
    /\ s' = QueryAnswer([s EXCEPT !.volumes = @ - 1], "volume", then)

\* media_uv_policy_connect_cb with -ENOENT: nobody is told.
VolumeLost ==
    /\ ~ s.bad /\ s.volumes > 0 /\ "volume" \in Faults
    /\ s' = [s EXCEPT !.volumes = @ - 1, !.lost = TRUE]

-----------------------------------------------------------------------------

User ==
    \/ \E failed \in Cpus \cup {NULL} : Prepare(failed)
    \/ StartAuto \/ Pause \/ UserSend \/ UserStop \/ UserClose \/ Query

\* What the loop and the servers have under way.
Turn ==
    \/ \E then \in Thens : Answer(then)
    \/ media_uv_stream_disconnect_cb
    \/ \E k \in Cpus : ListenerClosed(k)
    \/ \E then \in Thens : VolumeAnswered(then)
    \/ VolumeLost
    \/ OpenRefused
    \/ \E f \in Focuses : FocusAbandoned(f)
    \/ \E f \in Focuses, phase \in {"asking", "deaf", "dead"}, then \in Thens :
          FocusConnected(f, phase, then)
    \/ \E f \in Focuses, suggest \in Suggestions \cup {EPERM}, then \in Thens :
          FocusAnswered(f, suggest, then)

\* What may come or not.
Others ==
    \/ \E e \in {"COMPLETED", "-EPERM", "OTHER"}, then \in Thens : Event(e, then)
    \/ \E k \in Cpus, outcome \in {"accepted", "not accepted", "error"}, then \in Thens :
          Connection(k, outcome, then)
    \/ \E f \in Focuses, suggest \in Suggestions, then \in Thens : FocusEvent(f, suggest, then)

Next == User \/ Turn \/ Others

\* The loop calls what is due, and the servers answer.
Spec == Init /\ [][Next]_vars /\ WF_vars(Turn)

-----------------------------------------------------------------------------
(* Properties                                                              *)

(* The stream has its type, a focus it points to points back, and a focus  *)
(* that points to it without being its own has no server any more.         *)
StreamTypeOK ==
    /\ s \in StreamType
    /\ s.focus # NULL => s.focuses[s.focus].stream
    /\ \A f \in Focuses : s.focuses[f].stream => s.focus = f \/ s.focuses[f].phase = "dead"

(* No callback of a listener, a focus or a volume query finds the stream   *)
(* freed, in whatever order they end after close (the conditions of        *)
(* media_uv_stream_release and the detaching in                            *)
(* media_uv_stream_abandon_focus).                                         *)
StreamOutlivesCallbacks == ~ s.bad

(* on_connection is called once for every prepare that was accepted, when  *)
(* the stream is closed at the latest, with a pipe or with -ECANCELED;     *)
(* on_play at most once for every focus; on_close once.                    *)
CallbacksOnce ==
    /\ \A n \in Prepares :
          s.told[n] = IF n <= s.prepared /\ n # s.on_connection THEN 1 ELSE 0
    /\ s.closing => s.on_connection = NULL /\ ~ s.pipe
    /\ \A f \in Focuses :
          s.focuses[f].told + (IF s.focuses[f].on_play THEN 1 ELSE 0)
             + Cardinality({i \in DOMAIN s.q : s.q[i] = [op |-> "play", of |-> f]}) <= 1
    /\ s.closed <= 1

(* Closing ends in on_close, unless an answer the stream waits for is lost. *)
CloseComes == s.closing ~> (s.closed = 1 \/ s.lost)
=============================================================================
