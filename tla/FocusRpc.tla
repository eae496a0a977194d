------------------------------ MODULE FocusRpc ------------------------------
(***************************************************************************)
(* The focus arbiter as its clients see it.  The answer to a request comes *)
(* back on the connection (tran_fd) and is returned by media_focus_request *)
(* (client/media_focus.c); later suggestions come on the notification      *)
(* socket and are passed to on_suggestion by another thread (or by another *)
(* pipe of the loop, client/media_uv_focus.c).  Each socket keeps its      *)
(* order, nothing orders one against the other, and a notification that    *)
(* finds the socket full is dropped: media_server_notify sends with        *)
(* MSG_DONTWAIT and its caller ignores the result.                         *)
(***************************************************************************)
EXTENDS MediaFocus

CONSTANT NotifyQueue  \* suggestions a notification socket holds unread

ASSUME NotifyQueueAssumption == NotifyQueue \in Nat \ {0}

VARIABLES
    reply,      \* the answer a client has not read yet, or NULL
    events,     \* the suggestions on its notification socket
    heard,      \* the last suggestion its application was given
    overtaken,  \* clients whose application heard an event before the answer
    lost        \* clients a suggestion was dropped for

rpc_vars == <<reply, events, heard, overtaken, lost>>

all_vars == <<stack, conns, phase, alive, told, owner, reply, events, heard, overtaken, lost>>

\* The suggestions a sequence of callbacks puts on the socket of client c.
Notified(cs, calls, c) ==
    LET Reaches(n) == /\ calls[n] # NULL
                      /\ c \in media_server_notify(cs[calls[n].req.callback_argv])
        sent[n \in 0 .. Len(calls)] ==
            IF n = 0 THEN <<>>
            ELSE IF Reaches(n)
            THEN Append(sent[n - 1], media_focus_play_arbitrate(calls[n].cur, calls[n].req))
            ELSE sent[n - 1]
    IN  sent[Len(calls)]

\* A mutant: a send that waits for room.
FitsAlways(q) == q

\* send() with MSG_DONTWAIT: what does not fit is lost.
Fits(q) == SubSeq(q, 1, Min({NotifyQueue, Len(q)}))

Deliver(cs, calls) ==
    LET q == [c \in Clients |-> events[c] \o Notified(cs, calls, c)]
    IN  /\ events' = [c \in Clients |-> Fits(q[c])]
        /\ lost' = lost \cup {c \in Clients : Len(q[c]) > NotifyQueue}

-----------------------------------------------------------------------------

RpcInit ==
    /\ Init
    /\ reply = [c \in Clients |-> NULL]
    /\ events = [c \in Clients |-> <<>>]
    /\ heard = [c \in Clients |-> NULL]
    /\ overtaken = {} /\ lost = {}

RpcAccept(c) == media_server_accept(c) /\ UNCHANGED rpc_vars

RpcCreateNotify(c, k, ok) == CreateNotify(c, k, ok) /\ UNCHANGED rpc_vars

\* media_server_receive sends the acknowledgement after the handler returned,
\* so after the notifications the handler caused.
RpcRequest(c, k, level) ==
    LET a == media_focus_request_(stack, level, k)
    IN  /\ Request(c, k, level)
        /\ Deliver(conns, a.calls)
        /\ reply' = [reply EXCEPT ![c] = a.suggestion]
        /\ UNCHANGED <<heard, overtaken>>

\* The sync API has read the answer before its caller can abandon.
RpcAbandon(c, k) ==
    /\ reply[c] = NULL
    /\ Abandon(c, k)
    /\ Deliver(conns', media_focus_abandon_(stack, media_server_get_data(conns[k])).calls)
    /\ UNCHANGED <<reply, heard, overtaken>>

RpcDie(c) == Die(c) /\ UNCHANGED rpc_vars

\* The client's end of both sockets is gone, with what was unread on them.
RpcHangup(c, k) ==
    /\ Hangup(c, k)
    /\ reply' = [reply EXCEPT ![c] = NULL]
    /\ events' = [events EXCEPT ![c] = <<>>]
    /\ heard' = [heard EXCEPT ![c] = NULL]
    /\ overtaken' = overtaken \ {c} /\ lost' = lost \ {c}

\* media_focus_request returns; a negative answer is no suggestion.
ReadReply(c) ==
    /\ c \in alive /\ reply[c] # NULL
    /\ reply' = [reply EXCEPT ![c] = NULL]
    /\ heard' = [heard EXCEPT ![c] = IF reply[c] < 0 THEN @ ELSE reply[c]]
    /\ UNCHANGED <<vars, events, overtaken, lost>>

\* media_proxy_listen_thread receives a parcel and calls media_suggest_cb.
ReadEvent(c) ==
    /\ c \in alive /\ events[c] # <<>>
    /\ events' = [events EXCEPT ![c] = Tail(@)]
    /\ heard' = [heard EXCEPT ![c] = Head(events[c])]
    /\ overtaken' = IF reply[c] # NULL THEN overtaken \cup {c} ELSE overtaken
    /\ UNCHANGED <<vars, reply, lost>>

RpcNext ==
    \E c \in Clients :
        \/ RpcAccept(c)
        \/ RpcDie(c)
        \/ ReadReply(c)
        \/ ReadEvent(c)
        \/ \E k \in Cookies :
               \/ \E ok \in BOOLEAN : RpcCreateNotify(c, k, ok)
               \/ \E level \in Levels \cup {UnknownStream} : RpcRequest(c, k, level)
               \/ RpcAbandon(c, k)
               \/ RpcHangup(c, k)

RpcSpec == RpcInit /\ [][RpcNext]_all_vars

-----------------------------------------------------------------------------

(* Every variable has its type.                                            *)
RpcTypeOK ==
    /\ TypeOK
    /\ reply \in [Clients -> Suggestions \cup {NULL, EPERM}]
    /\ events \in [Clients -> Seq(Suggestions)]
    /\ \A c \in Clients : Len(events[c]) <= NotifyQueue
    /\ heard \in [Clients -> Suggestions \cup {NULL}]
    /\ overtaken \subseteq Clients /\ lost \subseteq Clients

\* Every application has been given all there was to give.
Quiet == \A c \in alive : reply[c] = NULL /\ events[c] = <<>>

(* What the application of a queued focus last heard is what is due to it  *)
(* under the current top of the stack, unless its answer was overtaken by  *)
(* a later suggestion or a suggestion for it was dropped.                  *)
HeardIsCurrent ==
    Quiet =>
        \A j \in DOMAIN stack.list :
            LET c == OwnerOf(j)
            IN  /\ c \in alive \ (overtaken \cup lost) /\ phase[c] = "requested"
                /\ conns[Entry(j).callback_argv].notify_fd = c
                => heard[c] \in Due(j)
=============================================================================
