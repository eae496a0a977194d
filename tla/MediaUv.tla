------------------------------ MODULE MediaUv -------------------------------
(***************************************************************************)
(* client/media_uv.c: one asynchronous connection, under the clients that  *)
(* media_uv_session.c, media_uv_graph.c, media_uv_focus.c and              *)
(* media_uv_policy.c make of it, and the server's part.                    *)
(*                                                                         *)
(* Everything the client does happens in callbacks of one libuv loop, and  *)
(* most of it in callbacks out of callbacks.  So the client's memory is    *)
(* one record, uv, the C functions are operators from it to itself, and    *)
(* each callback of the loop and each call of the application is an        *)
(* action.  What the application does inside a callback is an argument     *)
(* ("then"), chosen by the action.                                         *)
(*                                                                         *)
(* "world" says which server every CPU of the list has: one that accepts   *)
(* the first request, one that answers it with an error, or none.          *)
(***************************************************************************)
EXTENDS MediaDefs, SequencesExt

CONSTANTS Worlds,        \* sequences over {"accepts", "refuses", "absent"}
          MaxMessages,   \* the application sends while fewer were made
          MaxPipes,      \* it listens while fewer pipes were made
          MaxEvents,     \* unread events on the notification socket
          BindMayFail,   \* bind or listen may fail
          EarlyConnect   \* a failed connect is reported before the close
                         \* callbacks of the same turn of the loop

ASSUME WorldsAssumption ==
    \A w \in Worlds : w # <<>> /\ ToSet(w) \subseteq {"accepts", "refuses", "absent"}
ASSUME BoundsAssumption ==
    MaxMessages \in Nat \ {0} /\ MaxPipes \in Nat \ {0} /\ MaxEvents \in Nat

VARIABLES
    world,   \* the servers of the CPUs
    uv,      \* the client
    notify,  \* the server's notification socket
    events,  \* unread events on it
    up       \* the servers run

server_vars == <<world, notify, events, up>>
vars == <<uv, server_vars>>

Flags == {"CONNECTING", "LISTENING", "RECONNECT", "DISCONNECT"}

\* "open" is the first request of a connection ("ping" for some clients),
\* "request" one that on_listen sends ("register" of a controllee), "cast" one
\* without acknowledgement, "notify" the message of media_uv_create_notify.
Codes == {"open", "request", "call", "cast", "notify", "close"}
Message == [id : Nat \ {0}, code : Codes]

\* MEDIA_PARCEL_SEND_ACK
Ack(w) == w.code \in {"open", "request", "call", "close"}

PipeStates == {"connecting", "open", "listening", "closing", "closed"}
OrNull(S) == S \cup {NULL}

UvType ==
    [flags     : SUBSET Flags,
     cpu       : OrNull(Nat),       \* the CPU in use; NULL after the last
     pipes     : Seq(PipeStates),   \* every pipe that was made
     cpipe     : OrNull(Nat),       \* indices of pipes
     epipe     : OrNull(Nat),
     shutting  : SUBSET Nat,        \* pipes whose uv_shutdown is under way
     pendq     : Seq(Message),
     sentq     : Seq(Message),
     due       : Seq(Message),      \* written, media_uv_write_cb to be called
     written   : SUBSET (Nat \ {0}),  \* MEDIA_MSGFLAG_WRITTEN
     responsed : SUBSET (Nat \ {0}),  \* MEDIA_MSGFLAG_RESPONSED
     freed     : SUBSET (Nat \ {0}),
     ids       : Nat,            \* messages made
     backlog   : {"none", "waiting"},  \* the server's connection back
     wire      : Seq(Message),      \* to the server
     answers   : Seq([id : Nat \ {0}, ret : {0, EPERM}]),
     closing   : BOOLEAN,           \* the application has closed
     failed    : BOOLEAN,           \* it was told of a failure
     released  : 0 .. 1,            \* calls of on_release
     bad       : {"no", "null", "freed"}]  \* a null or freed pointer was used

NewPipe(s) == Len(s.pipes) + 1

-----------------------------------------------------------------------------
(* Messages                                                                *)

\* media_uv_free_writing, at the end of what sets the flags.
\* A mutant: the answer alone frees it.
FreeNeedsAnswerOnly(s, w) ==
    IF w.id \in s.responsed THEN [s EXCEPT !.freed = @ \cup {w.id}] ELSE s
media_uv_free_writing(s, w) ==
    IF w.id \in s.written \cap s.responsed
    THEN [s EXCEPT !.freed = @ \cup {w.id}] ELSE s

media_uv_clear_queue(s) ==
    [s EXCEPT !.sentq = <<>>, !.pendq = <<>>,
              !.freed = @ \cup {m.id : m \in ToSet(s.sentq \o s.pendq)}]

\* Will release only after both pipes are closed and media_uv_disconnect was called.
\* A mutant: the event pipe is forgotten.
FreeIgnoresEpipe(s) ==
    IF s.cpipe # NULL \/ "DISCONNECT" \notin s.flags THEN s
    ELSE [media_uv_clear_queue(s) EXCEPT !.released = @ + 1]
media_uv_free_proxy(s) ==
    IF s.cpipe # NULL \/ s.epipe # NULL \/ "DISCONNECT" \notin s.flags THEN s
    ELSE [media_uv_clear_queue(s) EXCEPT !.released = @ + 1]

\* uv_close takes effect once.
media_uv_close(s, k) ==
    IF s.pipes[k] \in {"closing", "closed"} THEN s
    ELSE [s EXCEPT !.pipes[k] = "closing"]

\* uv_shutdown of a pipe that is closing fails, and media_uv_close does nothing.
media_uv_shutdown(s, k) ==
    IF k = NULL THEN [s EXCEPT !.bad = "null"]
    ELSE IF s.pipes[k] = "open" THEN [s EXCEPT !.shutting = @ \cup {k}]
    ELSE s

\* A mutant: no shutdown.
DisconnectNoShutdown(s) ==
    IF "DISCONNECT" \in s.flags THEN s
    ELSE media_uv_free_proxy([s EXCEPT !.flags = @ \cup {"DISCONNECT"}])
media_uv_disconnect(s) ==
    IF "DISCONNECT" \in s.flags THEN s
    ELSE LET t == IF s.flags = {} THEN media_uv_shutdown(s, s.cpipe) ELSE s
         IN  media_uv_free_proxy([t EXCEPT !.flags = @ \cup {"DISCONNECT"}])

\* A message that cannot be written: there will be no response, so the
\* callback gets none.  "open" is then tried elsewhere (the first callback
\* calls media_uv_reconnect, which only leaves a flag here) and the callback
\* of "close" disconnects.
WriteFails(s, w) ==
    LET t == [s EXCEPT !.sentq = RemoveFirst(@, w),
                       !.responsed = @ \cup {w.id}, !.written = @ \cup {w.id}]
    IN  media_uv_free_writing(
            CASE w.code = "close" -> media_uv_disconnect(t)
              [] w.code = "open"  -> [t EXCEPT !.flags = @ \cup {"RECONNECT"}]
              [] OTHER            -> t, w)

\* A message on the wire waits for media_uv_write_cb, and in sentq for its
\* answer.  uv_write fails on a pipe that is closing, and needs one.
\* A mutant: a message without acknowledgement waits for an answer.
SendQueuesAll(s, w) ==
    IF s.cpipe = NULL THEN [s EXCEPT !.bad = "null"]
    ELSE LET t == [s EXCEPT !.sentq = Append(@, w)]
         IN  IF s.pipes[s.cpipe] = "open"
             THEN [t EXCEPT !.due = Append(@, w), !.wire = Append(@, w)]
             ELSE WriteFails(t, w)
media_uv_send_writing(s, w) ==
    IF s.cpipe = NULL THEN [s EXCEPT !.bad = "null"]
    ELSE LET t == IF Ack(w) THEN [s EXCEPT !.sentq = Append(@, w)]
                  ELSE [s EXCEPT !.responsed = @ \cup {w.id}]
         IN  IF s.pipes[s.cpipe] = "open"
             THEN [t EXCEPT !.due = Append(@, w), !.wire = Append(@, w)]
             ELSE WriteFails(t, w)

\* A mutant: only the first message is sent.
DeliverFirst(s) ==
    IF s.pendq = <<>> THEN s
    ELSE media_uv_send_writing([s EXCEPT !.pendq = Tail(@)], Head(s.pendq))
media_uv_delivery_writing(s) ==
    LET sent[n \in 0 .. Len(s.pendq)] ==
            IF n = 0 THEN s
            ELSE media_uv_send_writing([sent[n - 1] EXCEPT !.pendq = Tail(@)],
                                       Head(sent[n - 1].pendq))
    IN  sent[Len(s.pendq)]

\* media_uv_queue_writing
\* A mutant: only a connection that is being made queues.
QueueUnlessConnecting(s, w) ==
    IF "CONNECTING" \notin s.flags THEN media_uv_send_writing(s, w)
    ELSE [s EXCEPT !.pendq = Append(@, w)]
Queue(s, w) ==
    IF s.flags = {} THEN media_uv_send_writing(s, w)
    ELSE [s EXCEPT !.pendq = Append(@, w)]

\* media_uv_send; the result is negative when Refuses(s).
Refuses(s) == s.cpu = NULL \/ "DISCONNECT" \in s.flags
media_uv_send(s, code) ==
    IF Refuses(s) THEN s
    ELSE Queue([s EXCEPT !.ids = @ + 1], [id |-> s.ids + 1, code |-> code])

\* media_uv_session_close and its likes: "close" is a request whose answer
\* disconnects; without it they disconnect at once.
Close(s) ==
    LET t == [s EXCEPT !.closing = TRUE]
    IN  IF Refuses(s) THEN media_uv_disconnect(t) ELSE media_uv_send(t, "close")
-----------------------------------------------------------------------------
(* Connecting                                                              *)

OnPipe(s, state) == [s EXCEPT !.pipes = Append(@, state)]

\* The connection gets a pipe and a socket of its own.
media_uv_connect_one(s) ==
    [OnPipe(s, "connecting") EXCEPT
        !.cpipe = NewPipe(s), !.flags = @ \cup {"CONNECTING"},
        !.wire = <<>>, !.answers = <<>>]

\* on_connect with an error: the application does nothing, closes as in the
\* example of include/media_player.h, disconnects as
\* media_uv_recorder_take_picture, or reconnects as media_uv_policy.c, which
\* leaves a flag since one is set.
OnConnectFails(s, then) ==
    LET t == [s EXCEPT !.failed = TRUE]
    IN  CASE then = "close" /\ ~ s.closing      -> Close(t)
          [] then = "disconnect" /\ ~ s.closing -> media_uv_disconnect([t EXCEPT !.closing = TRUE])
          [] then = "reconnect" /\ s.flags # {} -> [t EXCEPT !.flags = @ \cup {"RECONNECT"}]
          [] OTHER -> t

\* A mutant: the end of the list is not seen.
ReconnectPastEnd(s, then) ==
    IF s.cpu = NULL
    THEN OnConnectFails([media_uv_clear_queue(s) EXCEPT !.cpu = NULL], then)
    ELSE LET t == IF s.cpipe = NULL THEN s ELSE media_uv_close(s, s.cpipe)
         IN  media_uv_connect_one([t EXCEPT !.cpu = @ + 1])
media_uv_reconnect_one(s, then) ==
    IF s.cpu = NULL \/ s.cpu = Len(world)
    THEN OnConnectFails([media_uv_clear_queue(s) EXCEPT !.cpu = NULL], then)
    ELSE LET t == IF s.cpipe = NULL THEN s ELSE media_uv_close(s, s.cpipe)
         IN  media_uv_connect_one([t EXCEPT !.cpu = @ + 1])

media_uv_reconnect(s, then) ==
    IF s.epipe # NULL THEN s
    ELSE IF s.flags = {} THEN media_uv_reconnect_one(s, then)
    ELSE [s EXCEPT !.flags = @ \cup {"RECONNECT"}]

\* A pipe for the server to connect to, and the message that asks it to.
\* "bound" says whether bind and listen succeed.
media_uv_listen_one(s, bound) ==
    LET t == [OnPipe(s, "listening") EXCEPT !.epipe = NewPipe(s)]
        n == media_uv_send_writing([t EXCEPT !.ids = @ + 1], [id |-> s.ids + 1, code |-> "notify"])
    IN  IF ~ bound
        THEN [media_uv_close(t, t.epipe) EXCEPT !.failed = TRUE]
        ELSE IF n.bad = "no" /\ n.pipes[n.cpipe] # "open"
        THEN [media_uv_close(n, n.epipe) EXCEPT !.failed = TRUE]
        ELSE [n EXCEPT !.flags = @ \cup {"LISTENING"}]

media_uv_listen(s, bound) ==
    IF "LISTENING" \in s.flags \/ s.epipe # NULL THEN s
    ELSE IF s.flags = {} THEN media_uv_listen_one(s, bound)
    ELSE [s EXCEPT !.flags = @ \cup {"LISTENING"}]

\* on_receive of the clients: the answer to "open" decides between this
\* server and the next, the one to "close" disconnects.
OnReceive(s, w, ret, then) ==
    IF w.code = "open" /\ ret < 0 THEN media_uv_reconnect(s, then)
    ELSE CASE w.code = "open" /\ then = "listen" -> media_uv_listen(s, TRUE)
           [] w.code = "open" /\ then = "disconnect" /\ ~ s.closing
                                                 -> media_uv_disconnect([s EXCEPT !.closing = TRUE])
           [] w.code = "close"                   -> media_uv_disconnect(s)
           [] OTHER                              -> s

\* media_uv_handle_parcel of an answer, after on_receive: what was put off
\* while connecting.  UV_EOF makes media_uv_read_cb close the pipe.
AfterFirst(s, k, bound, then) ==
    LET a == [s EXCEPT !.flags = @ \ {"CONNECTING"}]
        b == IF a.flags = {"LISTENING"} THEN media_uv_listen_one(a, bound) ELSE a
        c == IF b.flags \cap {"LISTENING", "RECONNECT"} = {}
             THEN media_uv_delivery_writing(b) ELSE b
    IN  IF "DISCONNECT" \in c.flags
        THEN media_uv_close(media_uv_delivery_writing(c), k)
        ELSE IF "RECONNECT" \in c.flags
        THEN media_uv_close(media_uv_reconnect_one([c EXCEPT !.flags = @ \ {"RECONNECT"}], then), k)
        ELSE c

media_uv_handle_parcel(s, k, bound, then) ==
    LET w == Head(s.sentq)
        r == OnReceive([s EXCEPT !.sentq = Tail(@), !.answers = Tail(@)],
                       w, Head(s.answers).ret, then)
        t == media_uv_free_writing([r EXCEPT !.responsed = @ \cup {w.id}], w)
    IN  IF s.sentq = <<>> THEN [s EXCEPT !.bad = "null"]   \* assert(writing)
        ELSE IF "CONNECTING" \in t.flags THEN AfterFirst(t, k, bound, then)
        ELSE t
-----------------------------------------------------------------------------
(* The loop of the client                                                  *)

\* The state after media_uv_connect.
Init ==
    /\ world \in Worlds
    /\ notify = "none" /\ events = 0 /\ up = TRUE
    /\ uv = media_uv_connect_one(
        [flags |-> {}, cpu |-> 1, cpipe |-> NULL, epipe |-> NULL,
         pipes |-> <<>>, shutting |-> {},
         pendq |-> <<>>, sentq |-> <<>>, due |-> <<>>,
         written |-> {}, responsed |-> {}, freed |-> {}, ids |-> 0,
         backlog |-> "none", wire |-> <<>>, answers |-> <<>>,
         closing |-> FALSE, failed |-> FALSE, released |-> 0, bad |-> "no"])

\* Nothing runs after the use of a null or freed pointer.
Sound == uv.bad = "no"
Bounds == IF BindMayFail THEN BOOLEAN ELSE {TRUE}
Thens == {"nothing", "close", "disconnect", "reconnect"}
FirstThens == {"nothing", "listen", "disconnect", "close"}

\* A callback that finds the proxy released uses freed memory.
Callback(t) ==
    uv' = IF uv.released > 0 THEN [uv EXCEPT !.bad = "freed"] ELSE t

\* Close callbacks end a turn of the loop, and a pipe is first polled in the
\* turn after it was made: what it replaced is closed then.
Polled(k) == \A j \in 1 .. k - 1 : uv.pipes[j] = "closing" => j \in {uv.cpipe, uv.epipe}

\* Nobody accepts the connection.
Unreachable == ~ up \/ world[uv.cpu] = "absent"

\* The result of a connect.  While on_connect runs no flag is set, so that
\* it can send the first request.
media_uv_connect_one_cb(k, then) ==
    /\ Sound /\ uv.pipes[k] = "connecting"
    /\ Polled(k) \/ (EarlyConnect /\ Unreachable)
    /\ IF Unreachable \/ "DISCONNECT" \in uv.flags
       THEN Callback(media_uv_close(OnConnectFails(uv, then), k))
       ELSE /\ then = "nothing"
            /\ LET t == media_uv_send([uv EXCEPT !.flags = {}, !.pipes[k] = "open"], "open")
               IN  Callback([t EXCEPT !.flags = @ \cup uv.flags])
    /\ UNCHANGED server_vars

\* media_uv_read_cb on the command pipe: an answer.
ReadAnswer(k, bound, then) ==
    /\ Sound /\ Polled(k) /\ k = uv.cpipe /\ uv.pipes[k] = "open" /\ uv.answers # <<>>
    /\ Callback(media_uv_handle_parcel(uv, k, bound, then))
    /\ UNCHANGED server_vars

\* media_uv_read_cb on the event pipe: an event.
ReadEvent(k) ==
    /\ Sound /\ Polled(k) /\ k = uv.epipe /\ uv.pipes[k] = "open" /\ events > 0
    /\ Callback(uv)
    /\ events' = events - 1
    /\ UNCHANGED <<world, notify, up>>

\* media_uv_read_cb on a pipe that the server has closed.
ReadEof(k) ==
    /\ Sound /\ Polled(k) /\ uv.pipes[k] = "open"
    /\ \/ k = uv.cpipe /\ ~ up /\ uv.answers = <<>>
       \/ k = uv.epipe /\ notify = "closed" /\ events = 0
    /\ Callback(media_uv_close(uv, k))
    /\ UNCHANGED server_vars

\* A write is done, or failed since the server has ended.
media_uv_write_cb ==
    /\ Sound /\ uv.due # <<>>
    /\ LET w == Head(uv.due)
           t == [uv EXCEPT !.due = Tail(@)]
       IN  \/ /\ w.id \in uv.freed
              /\ uv' = [uv EXCEPT !.bad = "freed"]
           \/ /\ w.id \notin uv.freed
              /\ Callback(media_uv_free_writing([t EXCEPT !.written = @ \cup {w.id}], w))
           \/ /\ w.id \notin uv.freed /\ ~ up
              /\ w \in ToSet(uv.wire)
              /\ Callback(WriteFails([t EXCEPT !.wire = RemoveFirst(@, w)], w))
    /\ UNCHANGED server_vars

\* The server has connected back.  "then" is what on_listen does.
media_uv_listen_one_cb(then) ==
    LET server == uv.epipe
        s == [uv EXCEPT !.flags = @ \ {"LISTENING"}, !.backlog = "none"]
        a == media_uv_close([OnPipe(s, "open") EXCEPT !.epipe = NewPipe(s)], server)
        b == IF then = "request" THEN media_uv_send(a, "request") ELSE a
    IN  /\ Sound /\ server # NULL /\ Polled(server) /\ uv.pipes[server] = "listening" /\ uv.backlog = "waiting"
        /\ IF "DISCONNECT" \in s.flags
           THEN Callback([media_uv_close(s, server) EXCEPT !.failed = TRUE])
           ELSE Callback(media_uv_delivery_writing(b))
        /\ UNCHANGED server_vars

\* The writes before a shutdown are done.
media_uv_shutdown_cb(k) ==
    /\ Sound /\ k \in uv.shutting /\ uv.due = <<>>
    /\ Callback(media_uv_close([uv EXCEPT !.shutting = @ \ {k}], k))
    /\ UNCHANGED server_vars

\* A pipe is closed, after the callbacks of its writes.  A pipe that is
\* neither of the two any more is only freed.
media_uv_close_cb(k) ==
    LET s == [uv EXCEPT !.pipes[k] = "closed", !.shutting = @ \ {k}]
    IN  /\ Sound /\ uv.pipes[k] = "closing"
        /\ k = uv.cpipe => uv.due = <<>>
        /\ Callback(media_uv_free_proxy(
              IF k = uv.cpipe THEN [s EXCEPT !.cpipe = NULL]
              ELSE IF k = uv.epipe THEN [s EXCEPT !.epipe = NULL, !.backlog = "none"]
              ELSE s))
        /\ UNCHANGED server_vars

-----------------------------------------------------------------------------
(* The application, outside of callbacks                                   *)

Usable == Sound /\ ~ uv.closing

UserSend(code) ==
    /\ Usable /\ uv.ids < MaxMessages
    /\ uv' = media_uv_send(uv, code)
    /\ UNCHANGED server_vars

\* media_uv_session_listen and its likes: "set_event" first, and when it
\* cannot be sent no listener.
UserListen(bound) ==
    LET t == media_uv_send(uv, "cast")
        sent == ~ Refuses(uv) /\ (uv.flags = {} => uv.cpipe # NULL /\ uv.pipes[uv.cpipe] = "open")
    IN  /\ Usable /\ uv.ids < MaxMessages
        /\ Len(uv.pipes) + 1 < MaxPipes
        /\ uv' = IF sent THEN media_uv_listen(t, bound) ELSE t
        /\ UNCHANGED server_vars

UserClose ==
    /\ Usable
    /\ uv' = Close(uv)
    /\ UNCHANGED server_vars

-----------------------------------------------------------------------------
(* The server: media_server_receive of one message, and what it answers.   *)
(* "close" ends with media_server_finalize; it connects back to a client   *)
(* that listens.                                                           *)

Verdict == IF uv.cpu # NULL /\ world[uv.cpu] = "accepts" THEN 0 ELSE EPERM

Listens == uv.epipe # NULL /\ uv.pipes[uv.epipe] = "listening"

Serve ==
    LET w == Head(uv.wire)
        s == [uv EXCEPT !.wire = Tail(@)]
        t == IF Ack(w)
             THEN [s EXCEPT !.answers = Append(@,
                     [id |-> w.id, ret |-> IF w.code = "open" THEN Verdict ELSE 0])]
             ELSE s
    IN  /\ Sound /\ up /\ uv.wire # <<>>
        /\ uv' = IF w.code = "notify" /\ Listens THEN [t EXCEPT !.backlog = "waiting"] ELSE t
        /\ notify' = CASE w.code = "notify" /\ Listens         -> "open"
                       [] w.code = "close" /\ notify = "open" -> "closed"
                       [] OTHER                               -> notify
        /\ UNCHANGED <<world, events, up>>

\* media_server_notify
ServerNotify ==
    /\ Sound /\ up /\ notify = "open" /\ events < MaxEvents
    /\ events' = events + 1
    /\ UNCHANGED <<uv, world, notify, up>>

ServerEnds ==
    /\ Sound /\ up
    /\ up' = FALSE
    /\ notify' = IF notify = "open" THEN "closed" ELSE notify
    /\ UNCHANGED <<uv, world, events>>

-----------------------------------------------------------------------------

Turn ==
    \/ \E k \in DOMAIN uv.pipes :
           \/ \E then \in Thens : media_uv_connect_one_cb(k, then)
           \/ \E bound \in Bounds, then \in FirstThens : ReadAnswer(k, bound, then)
           \/ ReadEof(k)
           \/ media_uv_shutdown_cb(k)
           \/ media_uv_close_cb(k)
    \/ media_uv_write_cb
    \/ \E then \in {"nothing", "request"} : media_uv_listen_one_cb(then)

Events == \E k \in DOMAIN uv.pipes : ReadEvent(k)

User ==
    \/ \E code \in {"call", "cast"} : UserSend(code)
    \/ \E bound \in Bounds : UserListen(bound)
    \/ UserClose

Next == Turn \/ Events \/ User \/ Serve \/ ServerNotify \/ ServerEnds


\* The loop does not stop while a callback is due, events do not keep it from
\* the others, and the server runs; what the application does, events and the
\* end of the server are not certain.
Fairness == WF_vars(Turn) /\ WF_vars(Events) /\ WF_vars(Serve)

Spec == Init /\ [][Next]_vars /\ Fairness

-----------------------------------------------------------------------------
(* Properties                                                              *)

UvTypeOK ==
    /\ world \in Worlds /\ uv \in UvType
    /\ uv.cpu # NULL => uv.cpu \in DOMAIN world
    /\ notify \in {"none", "open", "closed"} /\ events \in 0 .. MaxEvents /\ up \in BOOLEAN

Ids(q) == [i \in DOMAIN q |-> q[i].id]

\* The messages of q that are answered.
Acked(q) ==
    LET acked[n \in 0 .. Len(q)] ==
            IF n = 0 THEN <<>>
            ELSE IF Ack(q[n]) THEN Append(acked[n - 1], q[n]) ELSE acked[n - 1]
    IN  acked[Len(q)]

(* Answers have no identifier: media_uv_handle_parcel gives one to the     *)
(* first message of sentq.  So sentq holds, in this order, the messages    *)
(* whose answers are on the way and those the server has yet to answer,    *)
(* across reconnections and failed writes.                                 *)
AnswersPaired ==
    (uv.cpipe # NULL /\ uv.pipes[uv.cpipe] = "open")
        => Ids(uv.sentq) = Ids(uv.answers) \o Ids(Acked(uv.wire))

(* What the application sends reaches the server in the order of its       *)
(* calls, queued or not: "they will be queued inside the player handle as  *)
(* requests, and processed in order after `open` is completed"             *)
(* (include/media_player.h).                                               *)
OrderKept ==
    LET q == uv.wire \o uv.pendq
    IN  \A i, j \in DOMAIN q :
            i < j /\ {q[i].code, q[j].code} \subseteq {"call", "cast", "close"} => q[i].id < q[j].id

(* No callback of the loop finds its writing or the proxy freed: a writing *)
(* is freed by the last of media_uv_write_cb and media_uv_handle_parcel,   *)
(* whichever that is, or with the proxy.                                   *)
NoUseAfterFree == uv.bad # "freed"

(* The proxy is released once, when both of its pipes are closed, those it *)
(* has left behind included (comment of media_uv_free_proxy), and no       *)
(* callback of a write is due.                                             *)
ReleasedLast ==
    uv.released > 0 => /\ uv.released = 1 /\ uv.due = <<>>
                       /\ \A k \in DOMAIN uv.pipes : uv.pipes[k] = "closed"

(* What is queued while a server is looked for or a listener made is sent, *)
(* unless one of these fails or the server ends.                           *)
QueueMoves == (uv.pendq # <<>>) ~> (uv.pendq = <<>> \/ uv.failed \/ ~ up)

(* Closing ends in on_release, whenever the application closes, unless no  *)
(* server took it, the listener failed or the server ended.                *)
CloseReleases == uv.closing ~> (uv.released = 1 \/ uv.failed \/ ~ up)

=============================================================================
