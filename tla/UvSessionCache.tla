--------------------------- MODULE UvSessionCache ---------------------------
(***************************************************************************)
(* client/media_uv_session.c: a controller of the asynchronous interface.  *)
(* Everything happens in the thread of the loop, but requests are pipes:   *)
(* need_query is reset when a query is sent, and the answer is merged into *)
(* priv->data when it comes.  The answers and the events come on two pipes *)
(* with no order between them.                                             *)
(***************************************************************************)
EXTENDS ControllerCache

CONSTANT MaxRequests   \* requests of a controller under way at most

ASSUME MaxRequestsAssumption == MaxRequests \in Nat \ {0}

VARIABLES
    on_event,    \* controllers with priv->on_event
    requests,    \* messages to the server
    answers      \* the server's answers to queries

uv_cache_vars == <<data, need_query, on_event, requests, answers>>

uv_vars == <<controllees, meta, given, controllers, event, events, asked, lost,
             data, need_query, on_event, requests, answers>>

UvInit ==
    /\ SessionInit
    /\ data = [c \in Controllers |-> media_metadata_init]
    /\ need_query = [c \in Controllers |-> FALSE]
    /\ requests = [c \in Controllers |-> <<>>]
    /\ answers = [c \in Controllers |-> <<>>]
    /\ on_event = {}

UnderWay(c) == Len(requests[c]) + Len(answers[c])

-----------------------------------------------------------------------------

\* The connection and "open" are done in the background and in order, so the
\* controller is opened in one step.
media_uv_session_open(c) ==
    /\ media_session_controller_open(c)
    /\ need_query' = [need_query EXCEPT ![c] = TRUE]
    /\ UNCHANGED <<data, on_event, requests, answers>>

\* "set_event" and the request for a listener, one behind the other; events
\* before the second is handled find no socket and are dropped.
media_uv_session_listen(c) ==
    /\ c \in controllers \ on_event /\ UnderWay(c) < MaxRequests
    /\ on_event' = on_event \cup {c}
    /\ requests' = [requests EXCEPT ![c] = Append(@, "listen")]
    /\ UNCHANGED <<session_vars, data, need_query, answers>>

\* Without need_query on_query is called at once with the cached metadata.
media_uv_session_query(c) ==
    /\ c \in controllers /\ need_query[c] /\ UnderWay(c) < MaxRequests
    /\ requests' = [requests EXCEPT ![c] = Append(@, "query")]
    /\ need_query' = [need_query EXCEPT ![c] = c \notin on_event]
    /\ UNCHANGED <<session_vars, data, on_event, answers>>

ServeListen(c) ==
    /\ requests[c] # <<>> /\ Head(requests[c]) = "listen"
    /\ SetEvent(c)
    /\ requests' = [requests EXCEPT ![c] = Tail(@)]
    /\ UNCHANGED <<data, need_query, on_event, answers>>

ServeQuery(c) ==
    /\ requests[c] # <<>> /\ Head(requests[c]) = "query"
    /\ requests' = [requests EXCEPT ![c] = Tail(@)]
    /\ answers' = [answers EXCEPT ![c] = Append(@, QueryAnswer)]
    /\ UNCHANGED <<session_vars, data, need_query, on_event>>

\* A negative result is reported, and then, for lack of a return, handled
\* like an empty answer that is reported again.
media_uv_controller_receive_metadata_cb(c) ==
    LET failed == Head(answers[c]).ret < 0
        diff   == IF failed THEN media_metadata_init
                  ELSE media_metadata_unserialize(Head(answers[c]).res)
    IN  /\ answers[c] # <<>>
        /\ answers' = [answers EXCEPT ![c] = Tail(@)]
        /\ data' = [data EXCEPT ![c] = media_metadata_update(@, diff)]
        /\ UNCHANGED <<session_vars, need_query, on_event, requests>>

\* A mutant: an update of the metadata is not noticed.
EventIgnoresUpdate(c) ==
    LET changed == Head(events[c]) = MEDIA_EVENT_CHANGED
    IN  /\ events[c] # <<>>
        /\ events' = [events EXCEPT ![c] = Tail(@)]
        /\ data' = [data EXCEPT ![c] = IF changed THEN media_metadata_init ELSE @]
        /\ need_query' = [need_query EXCEPT ![c] = @ \/ changed]
        /\ UNCHANGED <<controllees, meta, given, controllers, event, asked, lost,
                       on_event, requests, answers>>

media_uv_session_event_cb(c) ==
    LET changed == Head(events[c]) = MEDIA_EVENT_CHANGED
    IN  /\ events[c] # <<>>
        /\ events' = [events EXCEPT ![c] = Tail(@)]
        /\ data' = [data EXCEPT ![c] = IF changed THEN media_metadata_init ELSE @]
        /\ need_query' = [need_query EXCEPT ![c] =
                            @ \/ changed \/ Head(events[c]) = MEDIA_EVENT_UPDATED]
        /\ UNCHANGED <<controllees, meta, given, controllers, event, asked, lost,
                       on_event, requests, answers>>

media_uv_session_control(c) == Control(c) /\ UNCHANGED uv_cache_vars

\* "close" is answered last, and media_uv_disconnect frees the controller.
media_uv_session_close(c) ==
    /\ c \in controllers /\ UnderWay(c) = 0
    /\ media_session_controller_close(c)
    /\ data' = [data EXCEPT ![c] = media_metadata_init]
    /\ need_query' = [need_query EXCEPT ![c] = FALSE]
    /\ on_event' = on_event \ {c}
    /\ UNCHANGED <<requests, answers>>

UvNext ==
    \/ ControlleeStep /\ UNCHANGED uv_cache_vars
    \/ \E c \in Controllers :
           \/ media_uv_session_open(c)
           \/ media_uv_session_listen(c)
           \/ media_uv_session_query(c)
           \/ ServeListen(c)
           \/ ServeQuery(c)
           \/ media_uv_controller_receive_metadata_cb(c)
           \/ media_uv_session_event_cb(c)
           \/ media_uv_session_control(c)
           \/ media_uv_session_close(c)

UvSpec == UvInit /\ [][UvNext]_uv_vars

-----------------------------------------------------------------------------

(* Every variable has its type.                                            *)
UvTypeOK ==
    /\ SessionTypeOK
    /\ data \in [Controllers -> Metadata] /\ need_query \in [Controllers -> BOOLEAN]
    /\ on_event \subseteq controllers /\ event \subseteq on_event
    /\ \A c \in Controllers : UnderWay(c) <= MaxRequests

\* The cache of c would be handed to on_query as it is.
UvCached(c) ==
    c \in on_event /\ UnderWay(c) = 0 /\ events[c] = <<>> /\ ~ need_query[c]

(* A cached answer holds all that the most active controllee has said so   *)
(* far, whatever answers and events crossed each other, unless an event    *)
(* was dropped.                                                            *)
CacheComplete ==
    \A c \in Controllers \ lost :
        UvCached(c) => media_metadata_update(data[c], Current) = data[c]
=============================================================================
