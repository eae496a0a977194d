---------------------------- MODULE SessionCache ----------------------------
(***************************************************************************)
(* client/media_session.c: a controller of the synchronous interface keeps *)
(* the metadata it queried and asks again only when need_query is set.     *)
(* The application's thread queries, the listener thread of the proxy      *)
(* handles the events; no lock is shared between them.                     *)
(***************************************************************************)
EXTENDS ControllerCache

VARIABLES
    cb,          \* controllers with priv->event
    call,        \* the request a controller's thread waits for, or NULL
    answer,      \* what the server has answered to a query, or NULL
    overtaken    \* controllers that handled an event between answer and return

ASSUME CallAssumption == NULL \notin {"set_event", "query"}

cache_vars == <<data, need_query, cb, call, answer, overtaken>>

vars == <<controllees, meta, given, controllers, event, events, asked, lost,
          data, need_query, cb, call, answer, overtaken>>

Init ==
    /\ SessionInit
    /\ data = [c \in Controllers |-> media_metadata_init]
    /\ need_query = [c \in Controllers |-> FALSE]
    /\ call = [c \in Controllers |-> NULL]
    /\ answer = [c \in Controllers |-> NULL]
    /\ cb = {} /\ overtaken = {}

-----------------------------------------------------------------------------

media_session_open(c) ==
    /\ media_session_controller_open(c)
    /\ data' = [data EXCEPT ![c] = media_metadata_init]
    /\ need_query' = [need_query EXCEPT ![c] = TRUE]
    /\ UNCHANGED <<cb, call, answer, overtaken>>

\* The listener runs and the server may send events before the callback is
\* stored: media_proxy_set_event_cb, then "set_event", then priv->event.
media_session_set_event_callback(c) ==
    /\ c \in controllers \ event /\ call[c] = NULL
    /\ SetEvent(c)
    /\ call' = [call EXCEPT ![c] = "set_event"]
    /\ UNCHANGED <<data, need_query, cb, answer, overtaken>>

SetEventReturns(c) ==
    /\ call[c] = "set_event"
    /\ call' = [call EXCEPT ![c] = NULL]
    /\ cb' = cb \cup {c}
    /\ UNCHANGED <<session_vars, data, need_query, answer, overtaken>>

\* Without need_query the cached metadata is returned, and nothing changes.
media_session_query(c) ==
    /\ c \in controllers /\ call[c] = NULL /\ need_query[c]
    /\ call' = [call EXCEPT ![c] = "query"]
    /\ UNCHANGED <<session_vars, data, need_query, cb, answer, overtaken>>

QueryServed(c) ==
    /\ call[c] = "query" /\ answer[c] = NULL
    /\ answer' = [answer EXCEPT ![c] = QueryAnswer]
    /\ overtaken' = overtaken \ {c}
    /\ UNCHANGED <<session_vars, data, need_query, cb, call>>

QueryReturns(c) ==
    /\ answer[c] # NULL
    /\ call' = [call EXCEPT ![c] = NULL]
    /\ answer' = [answer EXCEPT ![c] = NULL]
    /\ IF answer[c].ret < 0 THEN UNCHANGED <<data, need_query>>
       ELSE /\ data' = [data EXCEPT ![c] = media_metadata_unserialize(answer[c].res)]
            /\ need_query' = [need_query EXCEPT ![c] = IF c \in cb THEN FALSE ELSE @]
    /\ UNCHANGED <<session_vars, cb, overtaken>>

\* media_event_cb in the listener thread.
media_event_cb(c) ==
    /\ events[c] # <<>>
    /\ events' = [events EXCEPT ![c] = Tail(@)]
    /\ data' = [data EXCEPT ![c] =
                  IF Head(events[c]) = MEDIA_EVENT_CHANGED THEN media_metadata_init ELSE @]
    /\ need_query' = [need_query EXCEPT ![c] =
                        @ \/ Head(events[c]) \in {MEDIA_EVENT_CHANGED, MEDIA_EVENT_UPDATED}]
    /\ overtaken' = IF answer[c] # NULL THEN overtaken \cup {c} ELSE overtaken
    /\ UNCHANGED <<controllees, meta, given, controllers, event, asked, lost, cb, call, answer>>

media_session_control(c) ==
    /\ call[c] = NULL /\ Control(c) /\ UNCHANGED cache_vars

media_session_close(c) ==
    /\ c \in controllers /\ call[c] = NULL
    /\ media_session_controller_close(c)
    /\ data' = [data EXCEPT ![c] = media_metadata_init]
    /\ need_query' = [need_query EXCEPT ![c] = FALSE]
    /\ cb' = cb \ {c} /\ overtaken' = overtaken \ {c}
    /\ UNCHANGED <<call, answer>>

Next ==
    \/ ControlleeStep /\ UNCHANGED cache_vars
    \/ \E c \in Controllers :
           \/ media_session_open(c)
           \/ media_session_set_event_callback(c)
           \/ SetEventReturns(c)
           \/ media_session_query(c)
           \/ QueryServed(c)
           \/ QueryReturns(c)
           \/ media_event_cb(c)
           \/ media_session_control(c)
           \/ media_session_close(c)

Spec == Init /\ [][Next]_vars

-----------------------------------------------------------------------------

(* Every variable has its type.                                            *)
TypeOK ==
    /\ SessionTypeOK
    /\ data \in [Controllers -> Metadata] /\ need_query \in [Controllers -> BOOLEAN]
    /\ cb \subseteq event /\ overtaken \subseteq controllers
    /\ call \in [Controllers -> {NULL, "set_event", "query"}]
    /\ \A c \in Controllers : answer[c] # NULL => call[c] = "query"

\* The cache of c would be returned by media_session_query as it is.
Cached(c) == c \in cb /\ call[c] = NULL /\ events[c] = <<>> /\ ~ need_query[c]

(* A cached answer is the metadata of the controllee that is most active   *)
(* now, however activity and metadata changed since, except when an event  *)
(* was dropped, or was handled between a server's answer and its arrival.  *)
CacheFresh == \A c \in Controllers \ (lost \cup overtaken) : Cached(c) => data[c] = Current

=============================================================================
