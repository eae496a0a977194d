----------------------------- MODULE MediaFocus -----------------------------
(***************************************************************************)
(* server/media_focus.c: the arbiter of audio focus, with the connection   *)
(* table of server/media_server.c it reaches its clients through.          *)
(*                                                                         *)
(* The media daemon is one thread: it handles one message of one           *)
(* connection at a time, so every handler is one action.  What interleaves *)
(* are the clients: each opens a connection, has the server open a         *)
(* notification socket, requests focus for a stream, abandons it, hangs up *)
(* and may die at any moment.                                              *)
(***************************************************************************)
EXTENDS FocusStack, ServerConn

CONSTANTS num,            \* streams of the interaction file; a level is an index
          pro_inter,      \* <<new, top>> -> answer to a request under that top
          pas_inter,      \* <<top, cur>> -> suggestion to a focus under that top
          Daemon,         \* the thread id of the daemon
          NotifyMayFail   \* connect() back to a client may fail

Levels == 0 .. num - 1

ASSUME NumAssumption == num \in Nat \ {0}
ASSUME MatrixAssumption ==
    /\ pro_inter \in [Levels \X Levels -> Suggestions]
    /\ pas_inter \in [Levels \X Levels -> Suggestions]
ASSUME DaemonAssumption == Daemon # NULL
ASSUME NotifyMayFailAssumption == NotifyMayFail \in BOOLEAN
\* A callback is told from the NULL of a node the broadcast skips.
ASSUME CallAssumption ==
    NULL \notin [cur : FocusIds(Levels, {Daemon}, Cookies),
                 req : FocusIds(Levels, {Daemon}, Cookies)]

BLOCK_CALLBACK_FLAG == 0
NONBLOCK_CALLBACK_FLAG == -1

\* The stream name of a request that the interaction file does not list.
UnknownStream == -1

VARIABLES
    stack,   \* focus->stack
    conns,   \* priv->conns of the server
    phase,   \* how far a client's connection has got
    alive,   \* clients whose process runs
    told,    \* the last suggestion the server sent to a client
    owner    \* which client's request occupies a slot of node_list

vars == <<stack, conns, phase, alive, told, owner>>

Phases == {"idle", "connected", "listening", "requested", "refused", "abandoned"}

\* conn->data: the focus handle.  ID_TO_HANDLE and HANDLE_TO_ID are inverse
\* shifts, so the handle is represented by its id; ids from max_size on are
\* those of requests answered MEDIA_FOCUS_STOP.
Handles == 0 .. 2 * max_size - 1

-----------------------------------------------------------------------------

\* A mutant: the cell of the matrix is looked up with its indices swapped.
ArbitrateSwapped(top_id, cur_id) ==
    CASE cur_id.focus_state = APP_FOCUS_STATE_STACK_TOP -> MEDIA_FOCUS_PLAY
      [] cur_id.focus_state = APP_FOCUS_STATE_STACK_UNDER ->
             pas_inter[<<cur_id.focus_level, top_id.focus_level>>]
      [] OTHER -> MEDIA_FOCUS_STOP

media_focus_play_arbitrate(top_id, cur_id) ==
    CASE cur_id.focus_state = APP_FOCUS_STATE_STACK_TOP -> MEDIA_FOCUS_PLAY
      [] cur_id.focus_state = APP_FOCUS_STATE_STACK_UNDER ->
             pas_inter[<<top_id.focus_level, cur_id.focus_level>>]
      [] OTHER -> MEDIA_FOCUS_STOP

\* First position of an entry the new one does not come after; the list's
\* length when there is none.  app_focus_stack_insert refuses position 0.
media_focus_focus_id_insert(s, new_id) ==
    LET at    == {j \in DOMAIN s.list :
                    new_id.focus_level <= s.node_list[s.list[j]].focus_level}
        index == IF at = {} THEN Len(s.list) ELSE Min(at) - 1
    IN  app_focus_stack_insert(s, new_id, index)

Answer(s, calls, handle, suggestion) ==
    [s |-> s, calls |-> calls, handle |-> handle, suggestion |-> suggestion]

\* The id of a request answered MEDIA_FOCUS_STOP names no slot of the stack.
\* StopIdNotShifted is a mutant: the id stays that of a free slot.
StopIdNotShifted(valid_id) == valid_id
StopId(valid_id) == valid_id + max_size

\* handle NULL makes media_focus_handler answer -EPERM.
media_focus_request_(s, level, cookie) ==
    LET cleared  == app_focus_stack_useless_clear(s, {Daemon}, NONBLOCK_CALLBACK_FLAG)
        valid_id == app_focus_free_client_id(cleared.s)
        new_id   == [client_id |-> valid_id, focus_level |-> level, thread_id |-> Daemon,
                     focus_state |-> APP_FOCUS_STATE_STACK_QUIT, callback_argv |-> cookie]
        empty    == app_focus_stack_is_empty(cleared.s)
        ret      == IF empty THEN MEDIA_FOCUS_PLAY
                    ELSE pro_inter[<<level, TopNode(cleared.s).focus_level>>]
        pushed   == app_focus_stack_push(cleared.s, new_id, BLOCK_CALLBACK_FLAG)
        spread   == app_focus_stack_top_change_broadcast(pushed.s, NONBLOCK_CALLBACK_FLAG)
        inserted == media_focus_focus_id_insert(cleared.s, new_id)
    IN  IF level = UnknownStream THEN Answer(s, <<>>, NULL, EPERM)
        ELSE IF valid_id < 0 THEN Answer(cleared.s, cleared.calls, NULL, EPERM)
        ELSE IF ret = MEDIA_FOCUS_PLAY
        THEN Answer(pushed.s,
                    cleared.calls \o (IF empty THEN <<>> ELSE spread.calls), valid_id, ret)
        ELSE IF ret \in {MEDIA_FOCUS_PLAY_BUT_SILENT, MEDIA_FOCUS_PLAY_WITH_DUCK}
        THEN IF inserted.ret < 0
             THEN Answer(inserted.s, cleared.calls, NULL, EPERM)
             ELSE Answer(inserted.s, cleared.calls, valid_id, ret)
        ELSE Answer(cleared.s, cleared.calls, StopId(valid_id), MEDIA_FOCUS_STOP)

media_focus_abandon_(s, handle) ==
    LET cleared == app_focus_stack_useless_clear(s, {Daemon}, NONBLOCK_CALLBACK_FLAG)
        deleted == app_focus_stack_delete(cleared.s, handle, NONBLOCK_CALLBACK_FLAG)
        spread  == app_focus_stack_top_change_broadcast(deleted.s, NONBLOCK_CALLBACK_FLAG)
    IN  IF handle = NULL THEN Result(s, <<>>, EINVAL)
        ELSE IF app_focus_stack_is_empty(cleared.s)
        THEN Result(cleared.s, cleared.calls, ENOENT)
        ELSE IF TopNode(cleared.s).client_id = handle
        THEN Result(deleted.s, cleared.calls \o deleted.calls \o spread.calls, 0)
        ELSE Result(deleted.s, cleared.calls \o deleted.calls, 0)

\* What media_focus_stack_callback and media_focus_notify_cb send for a
\* sequence of callbacks: the clients reached keep the last suggestion.
media_focus_notify_cb(t, cs, calls) ==
    [c \in Clients |->
        LET mine == {j \in DOMAIN calls :
                       /\ calls[j] # NULL
                       /\ c \in media_server_notify(cs[calls[j].req.callback_argv])}
        IN  IF mine = {} THEN t[c]
            ELSE media_focus_play_arbitrate(calls[Max(mine)].cur, calls[Max(mine)].req)]

-----------------------------------------------------------------------------

\* The server holds something of the client named c: a socket or an entry.
Remnant(c) ==
    \/ \E k \in Cookies : conns[k].tran_fd = c \/ conns[k].notify_fd = c
    \/ \E i \in Slots : stack.node_list[i].client_id = i /\ owner[i] = c

Init ==
    /\ stack = app_focus_stack_init
    /\ conns = [k \in Cookies |-> ZeroConn]
    /\ phase = [c \in Clients |-> "idle"]
    /\ alive = Clients
    /\ told = [c \in Clients |-> NULL]
    /\ owner = [i \in Slots |-> NULL]

\* A client connects and the server finds an entry for it.  A name is used
\* again only when nothing of its former holder is left in the server.
media_server_accept(c) ==
    /\ phase[c] = "idle" /\ ~ Remnant(c)
    /\ \E k \in AcceptEntry(conns) :
           conns' = [conns EXCEPT ![k] = media_server_conn_init(conns[k], c)]
    /\ phase' = [phase EXCEPT ![c] = "connected"]
    /\ alive' = alive \cup {c}
    /\ told' = [told EXCEPT ![c] = NULL]
    /\ UNCHANGED <<stack, owner>>

\* MEDIA_PARCEL_CREATE_NOTIFY: nothing is answered, so the client goes on to
\* request whether or not the server could connect back.
CreateNotify(c, k, ok) ==
    /\ phase[c] = "connected" /\ conns[k].tran_fd = c
    /\ IF ok THEN c \in alive ELSE NotifyMayFail
    /\ conns' = [conns EXCEPT ![k] = media_server_create_notify(conns[k], c, ok)]
    /\ phase' = [phase EXCEPT ![c] = "listening"]
    /\ UNCHANGED <<stack, alive, told, owner>>

\* media_focus_handler, "request".
Request(c, k, level) ==
    /\ phase[c] = "listening" /\ conns[k].tran_fd = c
    /\ LET a == media_focus_request_(stack, level, k)
       IN  /\ stack' = a.s
           /\ conns' = IF a.handle = NULL THEN conns
                       ELSE [conns EXCEPT ![k] = media_server_set_data(conns[k], a.handle)]
           /\ phase' = [phase EXCEPT ![c] = IF a.handle = NULL THEN "refused" ELSE "requested"]
           /\ told' = [media_focus_notify_cb(told, conns, a.calls)
                          EXCEPT ![c] = IF a.handle = NULL THEN @ ELSE a.suggestion]
           /\ owner' = IF a.handle = NULL \/ a.handle \notin Slots THEN owner
                       ELSE [owner EXCEPT ![a.handle] = c]
    /\ UNCHANGED alive

\* media_focus_handler, "abandon": the handle is read, then the notification
\* socket is closed (with conn->data), then the focus is given up.
Abandon(c, k) ==
    /\ phase[c] \in {"connected", "listening", "requested", "refused"}
    /\ conns[k].tran_fd = c
    /\ LET handle == media_server_get_data(conns[k])
           r      == media_focus_abandon_(stack, handle)
       IN  /\ conns' = [conns EXCEPT ![k] = media_server_finalize(conns[k])]
           /\ stack' = r.s
           /\ told' = media_focus_notify_cb(told, conns', r.calls)
           /\ owner' = [i \in Slots |->
                          IF r.s.node_list[i].client_id = -1 THEN NULL ELSE owner[i]]
    /\ phase' = [phase EXCEPT ![c] = "abandoned"]
    /\ UNCHANGED alive

\* The process of a client ends; the server has not noticed yet and still
\* handles what the client sent before.
Die(c) ==
    /\ c \in alive /\ phase[c] # "idle"
    /\ alive' = alive \ {c}
    /\ UNCHANGED <<stack, conns, phase, told, owner>>

\* The server sees the end of a connection.  A live client hangs up before it
\* asked for a listener (no focus stack at this server), or after abandon.
Hangup(c, k) ==
    /\ conns[k].tran_fd = c
    /\ c \in alive => phase[c] \in {"connected", "abandoned"}
    /\ conns' = [conns EXCEPT ![k] = media_server_conn_close(conns[k])]
    /\ phase' = [phase EXCEPT ![c] = "idle"]
    /\ UNCHANGED <<stack, alive, told, owner>>

Next ==
    \E c \in Clients :
        \/ media_server_accept(c)
        \/ Die(c)
        \/ \E k \in Cookies :
               \/ \E ok \in BOOLEAN : CreateNotify(c, k, ok)
               \/ \E level \in Levels \cup {UnknownStream} : Request(c, k, level)
               \/ Abandon(c, k)
               \/ Hangup(c, k)

Spec == Init /\ [][Next]_vars

-----------------------------------------------------------------------------

(* Every variable has its type.                                            *)
TypeOK ==
    /\ stack \in StackType(Levels, {Daemon}, Cookies)
    /\ conns \in [Cookies -> ConnType(Handles)]
    /\ phase \in [Clients -> Phases]
    /\ alive \subseteq Clients
    /\ told \in [Clients -> Suggestions \cup {NULL}]
    /\ owner \in [Slots -> Clients \cup {NULL}]

\* The entry at position j of the stack.
Entry(j) == stack.node_list[stack.list[j]]

OwnerOf(j) == owner[stack.list[j]]

(* The array, the list and the counter of the focus stack agree, and       *)
(* exactly the head of the list is in the TOP state, whatever sequence of  *)
(* requests, refusals and abandons built the stack.                        *)
FocusStackShape == StackShape(stack)

(* The handle a connection keeps is that of its own request: the slot it   *)
(* names is occupied by the client at the other end, and a slot whose      *)
(* cookie still belongs to its requester is named by that connection.      *)
HandleIsOwn ==
    /\ \A k \in Cookies, c \in Clients :
          conns[k].tran_fd = c =>
              /\ phase[c] \in {"connected", "listening", "refused"} => conns[k].data = NULL
              /\ phase[c] = "requested" /\ conns[k].data \in Slots =>
                    conns[k].data \in Range(stack.list) /\ owner[conns[k].data] = c
    /\ \A i \in Range(stack.list) :
          LET conn == conns[stack.node_list[i].callback_argv]
          IN  conn.tran_fd = owner[i] => phase[owner[i]] = "requested" /\ conn.data = i

(* A queued focus notifies the client that requested it: the connection    *)
(* entry its callback_argv points to has not been handed to another client *)
(* in the meantime (media_server_conn_init's "closing" condition).         *)
CookieBelongs ==
    \A j \in DOMAIN stack.list :
        LET conn == conns[Entry(j).callback_argv]
        IN  /\ conn.tran_fd \in {OwnerOf(j), CLOSED}
            /\ conn.notify_fd = OwnerOf(j)

\* The suggestions that are right for position j: PLAY for the holder of the
\* focus; below it what the matrix says under the current top, as a passive
\* suggestion or as the answer to a request that was queued under this top.
Due(j) ==
    LET top == Entry(1).focus_level
        own == Entry(j).focus_level
    IN  IF j = 1 THEN {MEDIA_FOCUS_PLAY}
        ELSE {pas_inter[<<top, own>>]} \cup
             ({pro_inter[<<own, top>>]} \cap
                 {MEDIA_FOCUS_PLAY_BUT_SILENT, MEDIA_FOCUS_PLAY_WITH_DUCK})

(* The last suggestion sent to the client of every queued focus is the one *)
(* due to it under the current top, after every change of the top.         *)
Arbitrated ==
    \A j \in DOMAIN stack.list :
        conns[Entry(j).callback_argv].notify_fd = OwnerOf(j) => told[OwnerOf(j)] \in Due(j)

(* A client answered MEDIA_FOCUS_STOP is not called back any more          *)
(* (include/media_focus.h, note of media_focus_request).                   *)
StopIsFinal ==
    \A k \in Cookies, c \in Clients :
        /\ conns[k].tran_fd = c /\ phase[c] = "requested"
        /\ conns[k].data \notin Slots
        => told[c] = MEDIA_FOCUS_STOP

(* When a client has abandoned and hung up, the server keeps nothing of    *)
(* it: neither its stack entry nor its connection entry is lost.           *)
CleanExit == \A c \in alive : phase[c] = "idle" => ~ Remnant(c)

(* A focus leaves the stack only when the client that requested it         *)
(* abandons it; no other client's abandon, whatever handle it carries, and *)
(* no request removes it.                                                  *)
OnlyOwnerLeaves ==
    [][\A i \in Slots :
          /\ stack.node_list[i].client_id = i
          /\ stack'.node_list[i].client_id # i \/ owner'[i] # owner[i]
          => phase[owner[i]] = "requested" /\ phase'[owner[i]] = "abandoned"]_vars
=============================================================================
