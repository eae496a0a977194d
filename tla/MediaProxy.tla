----------------------------- MODULE MediaProxy -----------------------------
(***************************************************************************)
(* client/media_proxy.c under the synchronous focus interface of           *)
(* client/media_focus.c: the life of one handle.                           *)
(*                                                                         *)
(* Two threads of the client share the handle: the one that calls          *)
(* media_focus_request and media_focus_abandon, and the one that           *)
(* media_proxy_set_event_cb starts to accept the server's connection and   *)
(* to pass suggestions to the application, which may abandon from there.   *)
(* The handle is counted (refs) and media_proxy_disconnect joins the       *)
(* listener thread, which ends when the server closes the notification     *)
(* socket.  The server is modelled by what server/media_server.c and       *)
(* server/media_focus.c do for this one client.                            *)
(***************************************************************************)
EXTENDS MediaDefs, Sequences

CONSTANTS MaxSuggestions,  \* unread suggestions on the notification socket
          ProxyFaults      \* what may fail

ASSUME MaxSuggestionsAssumption == MaxSuggestions \in Nat \ {0}
ASSUME ProxyFaultsAssumption ==
    ProxyFaults \subseteq {"listen",   \* socket, bind, listen or send of the client
                           "thread",   \* pthread_create
                           "accept",   \* accept4 of the listener
                   "notify",   \* connect of the server to the listener
                           "server"}   \* the daemon ends

VARIABLES
    api,       \* where the focus interface stands
    caller,    \* the thread that runs media_focus_abandon
    thread,    \* the listener thread
    refs,      \* priv->refs
    freed,     \* how often media_proxy_unref has released the handle
    requests,  \* messages on the connection, to the server
    answers,   \* acknowledgements on it, to the client
    notify,    \* the server's notification socket
    unread,    \* suggestions on it
    data,      \* the server keeps a focus handle for the connection
    up         \* the server runs

proxy_vars == <<api, caller, thread, refs, freed, requests, answers, notify, unread, data, up>>

\* "failed": media_focus_request returned NULL, or abandon a negative value,
\* without media_proxy_disconnect; "gone": media_proxy_disconnect is done.
ApiStates == {"start", "connected", "listening", "requesting", "held",
              "abandoning", "joining", "gone", "failed"}

ThreadStates == {"none", "unstarted", "accepting", "receiving", "callback", "exited"}

ProxyInit ==
    /\ api = "start" /\ caller = "app" /\ thread = "none"
    /\ refs = 0 /\ freed = 0
    /\ requests = <<>> /\ answers = <<>>
    /\ notify = "none" /\ unread = 0 /\ data = FALSE /\ up = TRUE

server_vars == <<notify, unread, data, up>>

\* media_parcel_send to a server that has ended fails.
Send(msg) == requests' = IF up THEN Append(requests, msg) ELSE requests

\* media_parcel_recv in media_proxy_send_with_ack: an answer, or an error
\* when the server has ended and left none.
Answer == IF answers # <<>> THEN Head(answers) ELSE EPIPE

Answered == answers # <<>> \/ ~ up

\* The effect of media_proxy_unref on a count of n.
media_proxy_unref(n) ==
    /\ refs' = n - 1
    /\ freed' = IF n = 1 THEN freed + 1 ELSE freed

-----------------------------------------------------------------------------

\* media_proxy finds a server that answers "ping" and keeps the connection.
media_proxy_connect ==
    /\ api = "start"
    /\ refs' = 1 /\ api' = "connected"
    /\ UNCHANGED <<caller, thread, freed, requests, answers, server_vars>>

\* A mutant: the listener thread has no reference of its own.
SetEventCbNoRef ==
    /\ api = "connected"
    /\ Send("create_notify")
    /\ thread' = "accepting" /\ api' = "listening"
    /\ UNCHANGED <<caller, refs, freed, answers, server_vars>>

\* media_proxy_set_event_cb with media_proxy_create_listenfd.  pthread_create
\* reports failure by a positive number, which "ret < 0" does not notice.
media_proxy_set_event_cb ==
    /\ api = "connected" /\ up
    /\ Send("create_notify")
    /\ refs' = refs + 1
    /\ thread' \in {"accepting"} \cup (IF "thread" \in ProxyFaults THEN {"unstarted"} ELSE {})
    /\ api' = "listening"
    /\ UNCHANGED <<caller, freed, answers, server_vars>>

\* The same, failing: media_focus_request goes on to abandon.
ListenFails ==
    /\ "listen" \in ProxyFaults \/ ~ up
    /\ api = "connected"
    /\ Send("abandon")
    /\ api' = "abandoning"
    /\ UNCHANGED <<caller, thread, refs, freed, answers, server_vars>>

\* media_proxy_once "request": sent, then the answer is waited for.
SendRequest ==
    /\ api = "listening"
    /\ Send("request")
    /\ api' = "requesting"
    /\ UNCHANGED <<caller, thread, refs, freed, answers, server_vars>>

\* A negative answer sends media_focus_request to its err label.
ReceiveSuggestion ==
    /\ api = "requesting" /\ Answered
    /\ answers' = <<>>
    /\ IF Answer < 0
       THEN api' = "abandoning" /\ Send("abandon")
       ELSE api' = "held" /\ UNCHANGED requests
    /\ UNCHANGED <<caller, thread, refs, freed, server_vars>>

\* media_focus_abandon, from the application's thread or from on_suggestion.
media_focus_abandon(who) ==
    /\ api = "held"
    /\ who = "listener" => thread = "callback"
    /\ api' = "abandoning" /\ caller' = who
    /\ Send("abandon")
    /\ UNCHANGED <<thread, refs, freed, answers, server_vars>>

\* Its early return for every negative answer but -ENOENT.
ReceiveAbandoned ==
    /\ api = "abandoning" /\ Answered
    /\ answers' = <<>>
    /\ api' = IF Answer < 0 /\ Answer # ENOENT THEN "failed" ELSE "joining"
    /\ UNCHANGED <<caller, thread, refs, freed, requests, server_vars>>

\* pthread_join returns when the listener has exited or was never started,
\* and at once (EDEADLK) in the listener itself; then the connection is closed.
media_proxy_disconnect ==
    /\ api = "joining"
    /\ caller = "listener" \/ thread \in {"none", "unstarted", "exited"}
    /\ media_proxy_unref(refs)
    /\ api' = "gone"
    /\ UNCHANGED <<caller, thread, requests, answers, server_vars>>

-----------------------------------------------------------------------------

\* media_proxy_listen_thread: accept4 returns once the server has connected,
\* also when the server has closed again by then.
ListenAccept ==
    /\ thread = "accepting" /\ notify # "none"
    /\ thread' = "receiving"
    /\ UNCHANGED <<api, caller, refs, freed, requests, answers, server_vars>>

\* Its thread_error: accept4 fails, and the thread closes the listening
\* socket and gives up its reference.
AcceptFails ==
    /\ "accept" \in ProxyFaults
    /\ thread = "accepting"
    /\ thread' = "exited"
    /\ media_proxy_unref(refs)
    /\ UNCHANGED <<api, caller, requests, answers, server_vars>>

ListenReceive ==
    /\ thread = "receiving" /\ unread > 0
    /\ unread' = unread - 1 /\ thread' = "callback"
    /\ UNCHANGED <<api, caller, refs, freed, requests, answers, notify, data, up>>

\* The callback returns; when it abandons, media_focus_abandon returns first.
ListenReturn ==
    /\ thread = "callback"
    /\ ~ (caller = "listener" /\ api \in {"abandoning", "joining"})
    /\ thread' = "receiving"
    /\ UNCHANGED <<api, caller, refs, freed, requests, answers, server_vars>>

\* media_parcel_recv fails at the end of the stream: the thread gives up its
\* reference and exits.
ListenExit ==
    /\ thread = "receiving" /\ unread = 0 /\ notify = "closed"
    /\ thread' = "exited"
    /\ media_proxy_unref(refs)
    /\ UNCHANGED <<api, caller, requests, answers, server_vars>>

-----------------------------------------------------------------------------

\* The server handles the messages of the connection in order.  It cannot
\* connect to a listener that has closed its socket.
ServerCreateNotify(ok) ==
    /\ requests # <<>> /\ Head(requests) = "create_notify"
    /\ IF ok THEN thread # "exited" ELSE thread = "exited" \/ "notify" \in ProxyFaults
    /\ requests' = Tail(requests)
    /\ notify' = IF ok THEN "open" ELSE "none"
    /\ UNCHANGED <<api, caller, thread, refs, freed, answers, unread, data, up>>

\* A suggestion and a handle, or -EPERM and none.
ServerRequest(granted) ==
    /\ requests # <<>> /\ Head(requests) = "request"
    /\ requests' = Tail(requests)
    /\ answers' = Append(answers, IF granted THEN MEDIA_FOCUS_PLAY ELSE EPERM)
    /\ data' = granted
    /\ UNCHANGED <<api, caller, thread, refs, freed, notify, unread, up>>

ServerNotify ==
    /\ notify = "open" /\ data /\ unread < MaxSuggestions
    /\ unread' = unread + 1
    /\ UNCHANGED <<api, caller, thread, refs, freed, requests, answers, notify, data, up>>

\* A mutant: the notification socket is not closed.
ServerAbandonKeeps ==
    /\ requests # <<>> /\ Head(requests) = "abandon"
    /\ requests' = Tail(requests)
    /\ answers' = Append(answers, IF data THEN 0 ELSE EINVAL)
    /\ data' = FALSE
    /\ UNCHANGED <<api, caller, thread, refs, freed, notify, unread, up>>

\* media_focus_handler "abandon": the data is read, media_server_finalize
\* closes an open notification socket, and without a handle it is -EINVAL.
ServerAbandon ==
    /\ requests # <<>> /\ Head(requests) = "abandon"
    /\ requests' = Tail(requests)
    /\ answers' = Append(answers, IF data THEN 0 ELSE EINVAL)
    /\ notify' = IF notify = "open" THEN "closed" ELSE notify
    /\ data' = IF notify = "open" THEN FALSE ELSE data
    /\ UNCHANGED <<api, caller, thread, refs, freed, unread, up>>

\* The daemon ends and the system closes its sockets.
ServerEnds ==
    /\ "server" \in ProxyFaults /\ up
    /\ up' = FALSE
    /\ requests' = <<>>
    /\ notify' = IF notify = "open" THEN "closed" ELSE notify
    /\ data' = FALSE
    /\ UNCHANGED <<api, caller, thread, refs, freed, answers, unread>>

Client ==
    \/ media_proxy_connect
    \/ media_proxy_set_event_cb
    \/ ListenFails
    \/ SendRequest
    \/ ReceiveSuggestion
    \/ ReceiveAbandoned
    \/ media_proxy_disconnect

Listener == ListenAccept \/ ListenReceive \/ ListenReturn \/ ListenExit

Server ==
    \/ \E ok \in BOOLEAN : ServerCreateNotify(ok)
    \/ \E granted \in BOOLEAN : ServerRequest(granted)
    \/ ServerAbandon

ProxyNext ==
    \/ Client
    \/ Listener
    \/ AcceptFails
    \/ Server
    \/ ServerNotify
    \/ ServerEnds
    \/ \E who \in {"app", "listener"} : media_focus_abandon(who)

(***************************************************************************)
(* Both threads and the daemon's loop run; when to abandon is up to the    *)
(* application, and whether there is something to suggest to other         *)
(* clients, so those steps are not fair.                                   *)
(***************************************************************************)
Fairness == WF_proxy_vars(Client) /\ WF_proxy_vars(Listener) /\ WF_proxy_vars(Server)

ProxySpec == ProxyInit /\ [][ProxyNext]_proxy_vars /\ Fairness

-----------------------------------------------------------------------------

(* Every variable has its type.                                            *)
TypeOK ==
    /\ api \in ApiStates /\ caller \in {"app", "listener"} /\ thread \in ThreadStates
    /\ refs \in 0 .. 2 /\ freed \in 0 .. 1
    /\ requests \in Seq({"create_notify", "request", "abandon"})
    /\ answers \in Seq({0, EPERM, EINVAL}) /\ up \in BOOLEAN
    /\ notify \in {"none", "open", "closed"} /\ unread \in 0 .. MaxSuggestions
    /\ data \in BOOLEAN

(* The handle is not freed while a thread may still use it: the one inside *)
(* the focus interface, or the listener.                                   *)
NoUseAfterFree ==
    freed > 0 => api \in {"gone", "failed"} /\ thread \in {"none", "unstarted", "exited"}

(* The references are those of the interface and of the listener thread,   *)
(* each given up exactly once; that of a thread that could not be started  *)
(* is never given up.                                                      *)
RefsCounted ==
    refs = (IF api \in {"start", "gone"} THEN 0 ELSE 1) +
           (IF thread \in {"none", "exited"} THEN 0 ELSE 1)

(* A focus that was granted and is abandoned is released in the end,       *)
(* whichever thread abandons it and whatever suggestions are under way,    *)
(* while the server runs, provided the listener was started: the caller    *)
(* needs to call media_focus_abandon, "or there will be leak"              *)
(* (include/media_focus.h).                                                *)
AbandonReleases == (api = "abandoning" /\ data /\ thread # "unstarted") ~> (freed = 1 \/ ~ up)

(* media_focus_abandon returns: "@return Zero when request succeed,        *)
(* negative on failure." (include/media_focus.h)                           *)
AbandonReturns == (api = "abandoning") ~> (api \in {"gone", "failed"})
=============================================================================
