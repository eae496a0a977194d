------------------------------ MODULE ParcelRpc ------------------------------
(***************************************************************************)
(* One connection between a client and the daemon, down to the units that  *)
(* send() and recv() move.                                                 *)
(*                                                                         *)
(* The threads of the client share the handle of the connection and its    *)
(* mutex (client/media_proxy.c); the daemon reads without blocking, keeps  *)
(* an incomplete parcel in the entry of the connection and answers a       *)
(* complete one before it reads on (server/media_server.c); the stub takes *)
(* the arguments out of a request and calls the handler of its component   *)
(* (server/media_stub.c).  The client's process and the daemon may end     *)
(* between any two system calls.                                           *)
(***************************************************************************)
EXTENDS MediaParcel

CONSTANTS Threads,     \* threads of the client
          Requests,    \* arguments of media_proxy_once they may give
          Handler(_),  \* what a component answers: ret and response
          Key, Cpu,    \* the address of the client's listener, two strings
          SockBuf,     \* units a socket buffers in one direction
          MaxRestarts  \* clients that may take the place of one that died

ASSUME SockBufAssumption == SockBuf \in Nat \ {0}

MEDIA_ID_GRAPH == 1
MEDIA_ID_POLICY == 2
MEDIA_ID_PLAYER == 3
MEDIA_ID_RECORDER == 4
MEDIA_ID_SESSION == 5
MEDIA_ID_FOCUS == 6

\* Texts with at least one character: an empty one arrives as a null pointer.
Texts == Seq(Nat \ {0}) \ {<<>>}
ASSUME AddressAssumption == Key \in Texts /\ Cpu \in Texts

\* What the formats of media_proxy_once carry: a request for the focus has no
\* argument, and only one for the policy can be applied.
ASSUME RequestsAssumption ==
    /\ NULL \notin Threads
    /\ \A r \in Requests :
          /\ r \in [type : MEDIA_ID_GRAPH .. MEDIA_ID_FOCUS, target : {NULL} \cup Texts,
                    cmd : {NULL} \cup Texts, arg : {NULL} \cup Texts, apply : Int, res_len : Nat]
          /\ r # NULL
          /\ r.type = MEDIA_ID_FOCUS => r.arg = NULL
          /\ r.type # MEDIA_ID_POLICY => r.apply = 0

\* A response is given with a non-negative result when one is asked for:
\* media_proxy_once copies it without a test.
ASSUME HandlerAssumption ==
    \A r \in Requests :
        /\ Handler(r) \in [ret : Int, response : {NULL} \cup Texts]
        /\ r.res_len > 0 /\ Handler(r).ret >= 0 => Handler(r).response # NULL

VARIABLES
    pc,        \* where a thread stands in media_proxy_send_with_ack
    req,       \* its arguments, NULL in media_proxy_set_event_cb
    result,    \* what its last media_proxy_once returned
    mutex,     \* the thread that holds priv->mutex
    out,       \* what its media_parcel_send still has to send
    in,        \* what its media_parcel_recv has received
    c2s, s2c,  \* the units on the way in the two directions
    alive,     \* the client's process has the connection open
    listening, \* media_proxy_set_event_cb has been called
    up,        \* so has the daemon
    conn,      \* what has arrived in conn->parcel (conn->offset units)
    ack,       \* what the daemon's media_parcel_send still has to send
    notify,    \* the listener conn->notify_fd was connected to
    handled,   \* the last arguments a handler was given
    restarts

client == <<pc, req, result, mutex, out, in, alive, listening, restarts>>
server == <<up, conn, ack, notify, handled>>
vars == <<client, server, c2s, s2c>>

NoParcel == <<>>

Fresh ==
    /\ pc = [t \in Threads |-> "idle"] /\ req = [t \in Threads |-> NULL]
    /\ result = [t \in Threads |-> NULL] /\ mutex = NULL
    /\ out = <<>> /\ in = NoParcel /\ c2s = <<>> /\ s2c = <<>>
    /\ alive = TRUE /\ listening = FALSE

Init ==
    /\ Fresh /\ restarts = 0
    /\ up = TRUE /\ conn = NoParcel /\ ack = <<>> /\ notify = NULL /\ handled = NULL

-----------------------------------------------------------------------------
(* Marshalling                                                             *)

\* The formats of media_proxy_once behind the id of the component.
InFormat(type) ==
    CASE type = MEDIA_ID_FOCUS -> <<"s", "s", "i">>
      [] type = MEDIA_ID_POLICY -> <<"s", "s", "s", "i", "i">>
      [] OTHER -> <<"s", "s", "s", "i">>

InArgs(r) ==
    CASE r.type = MEDIA_ID_FOCUS -> <<r.target, r.cmd, r.res_len>>
      [] r.type = MEDIA_ID_POLICY -> <<r.target, r.cmd, r.arg, r.apply, r.res_len>>
      [] OTHER -> <<r.target, r.cmd, r.arg, r.res_len>>

InParcel(r) ==
    media_parcel_append_printf(media_parcel_append_int32(media_parcel_init, r.type),
                               InFormat(r.type), InArgs(r))

\* The address media_proxy_create_listenfd sends, and how
\* media_server_create_notify reads it.
\* A mutant: the name of the client's processor is not sent.
NotifyKeyOnly == media_parcel_append_string(media_parcel_init, Key)
NotifyParcel ==
    media_parcel_append_string(media_parcel_append_string(media_parcel_init, Key), Cpu)

NotifyAddress(p) == media_parcel_read_scanf(p, <<"s", "s">>).vals

\* The formats of media_stub_onreceive.
StubFormat(id) ==
    CASE id = MEDIA_ID_FOCUS -> <<"s", "s", "i">>
      [] id = MEDIA_ID_POLICY -> <<"s", "s", "s", "i", "i">>
      [] OTHER -> <<"s", "s", "s", "i">>

\* The arguments of the handler: variables no conversion sets stay zero.
StubArgs(p) ==
    LET id == media_parcel_read_int32(p)
        v == media_parcel_read_scanf(id.parcel, StubFormat(id.val)).vals
    IN  [type |-> id.val, target |-> v[1], cmd |-> v[2],
         arg |-> IF Len(v) > 3 THEN v[3] ELSE NULL,
         apply |-> IF Len(v) > 4 THEN v[4] ELSE 0,
         res_len |-> v[Len(v)]]

\* media_stub_onreceive with its reply; an id no component has is -ENOSYS.
media_stub_onreceive(p) ==
    LET a == StubArgs(p)
        h == IF a.type \in MEDIA_ID_GRAPH .. MEDIA_ID_FOCUS THEN Handler(a)
             ELSE [ret |-> ENOSYS, response |-> NULL]
    IN  media_parcel_append_printf(media_parcel_init, <<"i", "s">>, <<h.ret, h.response>>)

\* The end of media_proxy_once: a code that is no reply is an error, the
\* response is copied when there is room for one and no error.
ReadReply(p, res_len) ==
    LET s == media_parcel_read_scanf(p, <<"i", "s">>)
    IN  IF media_parcel_get_code(p) # MEDIA_PARCEL_REPLY THEN [ret |-> EIO, res |-> NULL]
        ELSE [ret |-> s.vals[1],
              res |-> IF s.vals[1] >= 0 /\ res_len > 0 THEN s.vals[2] ELSE NULL]

-----------------------------------------------------------------------------
(* The client                                                              *)

\* Some of the units fit into the socket.
Sizes(units, wire) == {n \in 1 .. Len(units) : Len(wire) + n <= SockBuf}

media_proxy_once(t, r) ==
    /\ alive /\ pc[t] = "idle"
    /\ pc' = [pc EXCEPT ![t] = "locking"]
    /\ req' = [req EXCEPT ![t] = r]
    /\ result' = [result EXCEPT ![t] = NULL]
    /\ UNCHANGED <<mutex, out, in, alive, listening, restarts, server, c2s, s2c>>

\* media_proxy_set_event_cb sends its parcel with the mutex held.
media_proxy_set_event_cb(t) ==
    /\ alive /\ pc[t] = "idle" /\ ~ listening
    /\ pc' = [pc EXCEPT ![t] = "locking"]
    /\ listening' = TRUE
    /\ UNCHANGED <<req, result, mutex, out, in, alive, restarts, server, c2s, s2c>>

\* pthread_mutex_lock returns; "handled" now is about this call.
Lock(t) ==
    /\ pc[t] = "locking" /\ mutex = NULL
    /\ mutex' = t
    /\ pc' = [pc EXCEPT ![t] = "sending"]
    /\ out' = IF req[t] = NULL
              THEN media_parcel_send(NotifyParcel, MEDIA_PARCEL_CREATE_NOTIFY)
              ELSE media_parcel_send(InParcel(req[t]), MEDIA_PARCEL_SEND_ACK)
    /\ in' = NoParcel /\ handled' = NULL
    /\ UNCHANGED <<req, result, alive, listening, restarts, up, conn, ack, notify, c2s, s2c>>

\* One send().
Send(t) ==
    /\ pc[t] = "sending" /\ out # <<>> /\ up
    /\ \E n \in Sizes(out, c2s) :
          /\ c2s' = c2s \o SubSeq(out, 1, n)
          /\ out' = SubSeq(out, n + 1, Len(out))
    /\ UNCHANGED <<pc, req, result, mutex, in, alive, listening, restarts, server, s2c>>

\* One recv().
Receive(t) ==
    /\ pc[t] = "sending" /\ out = <<>> /\ req[t] # NULL
    /\ ~ Received(in) /\ s2c # <<>>
    /\ in' = Recv(in, s2c).got
    /\ s2c' = Recv(in, s2c).wire
    /\ UNCHANGED <<pc, req, result, mutex, out, alive, listening, restarts, server, c2s>>

\* pthread_mutex_unlock and the return; a call gives its thread a result.
Unlock(t, res) ==
    /\ mutex' = NULL /\ out' = <<>>
    /\ pc' = [pc EXCEPT ![t] = "idle"]
    /\ req' = [req EXCEPT ![t] = NULL]
    /\ result' = IF req[t] = NULL THEN result ELSE [result EXCEPT ![t] = res]
    /\ UNCHANGED <<in, alive, listening, restarts, server, c2s, s2c>>

Return(t) ==
    /\ pc[t] = "sending" /\ out = <<>>
    /\ req[t] = NULL \/ Received(in)
    /\ Unlock(t, IF req[t] = NULL THEN NULL ELSE ReadReply(Parcel(in), req[t].res_len))

\* send() or recv() on a connection whose other end is gone.
Fail(t) ==
    /\ pc[t] = "sending" /\ ~ up
    /\ out # <<>> \/ (req[t] # NULL /\ ~ Received(in) /\ s2c = <<>>)
    /\ Unlock(t, [ret |-> EPIPE, res |-> NULL])

ClientDies ==
    /\ alive /\ restarts < MaxRestarts
    /\ alive' = FALSE /\ restarts' = restarts + 1
    /\ pc' = [t \in Threads |-> "idle"] /\ req' = [t \in Threads |-> NULL]
    /\ result' = [t \in Threads |-> NULL] /\ mutex' = NULL
    /\ out' = <<>> /\ in' = NoParcel /\ listening' = FALSE /\ s2c' = <<>>
    /\ UNCHANGED <<server, c2s>>

-----------------------------------------------------------------------------
(* The daemon                                                              *)

\* One recv() of media_server_receive; what is missing stays for the next
\* time the loop finds the descriptor readable.
ServerReceive ==
    /\ up /\ ack = <<>> /\ ~ Received(conn) /\ c2s # <<>>
    /\ conn' = Recv(conn, c2s).got
    /\ c2s' = Recv(conn, c2s).wire
    /\ UNCHANGED <<client, up, ack, notify, handled, s2c>>

\* The switch of media_server_receive, then the parcel is reinitialised.
Dispatch ==
    /\ up /\ ack = <<>> /\ Received(conn)
    /\ conn' = NoParcel
    /\ \/ /\ media_parcel_get_code(Parcel(conn)) = MEDIA_PARCEL_SEND_ACK
          /\ handled' = StubArgs(Parcel(conn))
          /\ ack' = media_parcel_send(media_stub_onreceive(Parcel(conn)), MEDIA_PARCEL_REPLY)
          /\ UNCHANGED notify
       \/ /\ media_parcel_get_code(Parcel(conn)) = MEDIA_PARCEL_CREATE_NOTIFY
          /\ notify' = NotifyAddress(Parcel(conn))
          /\ UNCHANGED <<handled, ack>>
    /\ UNCHANGED <<client, up, c2s, s2c>>

\* One send() of the reply: it blocks the daemon while the socket is full,
\* and fails when the client is gone.
ServerSend ==
    /\ up /\ ack # <<>>
    /\ IF alive
       THEN \E n \in Sizes(ack, s2c) :
               /\ s2c' = s2c \o SubSeq(ack, 1, n)
               /\ ack' = SubSeq(ack, n + 1, Len(ack))
       ELSE ack' = <<>> /\ UNCHANGED s2c
    /\ UNCHANGED <<client, up, conn, notify, handled, c2s>>

\* A mutant: what a client left of a parcel stays for the next one.
CloseKeepsParcel ==
    /\ up /\ ~ alive /\ ack = <<>>
    /\ c2s' = <<>>
    /\ alive' = TRUE
    /\ UNCHANGED <<pc, req, result, mutex, out, in, listening, restarts, server, s2c>>

\* The end of the stream, or POLLERR with units unread: media_server_conn_close
\* and, for the next client, media_server_accept with media_server_conn_init.
Reaccept ==
    /\ up /\ ~ alive /\ ack = <<>>
    /\ conn' = NoParcel /\ c2s' = <<>>
    /\ alive' = TRUE
    /\ UNCHANGED <<pc, req, result, mutex, out, in, listening, restarts, s2c,
                   up, ack, notify, handled>>

ServerEnds ==
    /\ up
    /\ up' = FALSE
    /\ conn' = NoParcel /\ ack' = <<>> /\ c2s' = <<>> /\ notify' = NULL
    /\ UNCHANGED <<client, handled, s2c>>

-----------------------------------------------------------------------------

Thread(t) == Lock(t) \/ Send(t) \/ Receive(t) \/ Return(t) \/ Fail(t)
Daemon == ServerReceive \/ Dispatch \/ ServerSend \/ Reaccept

Next ==
    \/ \E t \in Threads :
          \/ \E r \in Requests : media_proxy_once(t, r)
          \/ media_proxy_set_event_cb(t)
          \/ Thread(t)
    \/ Daemon
    \/ ClientDies
    \/ ServerEnds

(***************************************************************************)
(* The scheduler runs every thread that can run, and a mutex that is       *)
(* released over and over goes to each of its waiters in the end: its      *)
(* semaphore hands it to the first one.                                    *)
(***************************************************************************)
Fairness ==
    /\ \A t \in Threads : WF_vars(Send(t) \/ Receive(t) \/ Return(t) \/ Fail(t)) /\ SF_vars(Lock(t))
    /\ WF_vars(Daemon)

Spec == Init /\ [][Next]_vars /\ Fairness

-----------------------------------------------------------------------------
(* Properties                                                              *)

(* Every variable has its type: in particular a stream carries only whole  *)
(* units, and never more than a socket holds.                              *)
TypeOK ==
    /\ pc \in [Threads -> {"idle", "locking", "sending"}]
    /\ req \in [Threads -> Requests \cup {NULL}] /\ mutex \in Threads \cup {NULL}
    /\ \A s \in {out, in, c2s, s2c, conn, ack} : s \in Seq(Nat \cup {ENOSYS})
    /\ Len(c2s) <= SockBuf /\ Len(s2c) <= SockBuf
    /\ alive \in BOOLEAN /\ up \in BOOLEAN /\ listening \in BOOLEAN
    /\ notify \in {NULL, <<Key, Cpu>>} /\ restarts \in 0 .. MaxRestarts

(* No parcel is written beyond its memory, neither when it is put together *)
(* nor when it arrives in pieces of any size: media_parcel_grow always has *)
(* made room for it.                                                       *)
InBounds ==
    /\ \A got \in {conn, in} : Len(got) <= MEDIA_PARCEL_HEADER_LEN + Room(got)
    /\ \A t \in Threads : req[t] # NULL =>
          Len(InParcel(req[t]).chunk) <= MEDIA_PARCEL_HEADER_LEN + InParcel(req[t]).cap

\* What a thread's call looks like from outside.
CallAnswer(r) ==
    LET h == Handler(r)
    IN  [ret |-> h.ret, res |-> IF h.ret >= 0 /\ r.res_len > 0 THEN h.response ELSE NULL]

Abstract == INSTANCE ProxyCall WITH
    call <- req,
    served <- [t \in Threads |-> IF mutex = t /\ req[t] # NULL THEN handled ELSE NULL],
    Answer <- CallAnswer,
    Error <- [ret |-> EPIPE, res |-> NULL]

(* Whatever the sizes in which the sockets take and give the units of      *)
(* parcels, however threads compete for the connection and whoever dies in *)
(* between, media_proxy_once is a procedure call: the handler sees the     *)
(* arguments of the call, at most once, its thread gets the answer to that *)
(* call or, when the daemon is gone, an error, and every call returns.     *)
Implements == Abstract!Spec
=============================================================================
