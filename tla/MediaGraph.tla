----------------------------- MODULE MediaGraph -----------------------------
(***************************************************************************)
(* server/media_graph.c in the loop of server/media_daemon.c: players and  *)
(* recorders on the filters of a graph.                                    *)
(*                                                                         *)
(* The daemon is one thread.  In a round of its loop it serves requests,   *)
(* lets the graph run, which reports what filters have done, and takes up  *)
(* commands that had to wait.  Every movie filter has a worker thread      *)
(* (libavfilter, external) that carries out a command and leaves a status  *)
(* for the graph.  A client that opens a player gets a context, the data   *)
(* of its connection; the events of the filter go to the connection the    *)
(* context names, and change ActiveStreams in the policy, which may answer *)
(* with a command of its own.  A client lives once.                        *)
(***************************************************************************)
EXTENDS ServerConn, Sequences, Functions

CONSTANTS FilterSeq,         \* the movie filters, in the order of the graph
          Stream,            \* the filters whose name fits what a client opens
          Ctxs,              \* memory for contexts
          PolicyCommand(_),  \* what pfw_apply asks for (settings.pfw), or NULL
          ClientCommands,    \* commands clients give
          MaxCommands,       \* how many of them between open and close
          Faults

Filters == Range(FilterSeq)

ASSUME FiltersAssumption == FilterSeq \in Seq(Filters) /\ Stream \in [Clients -> SUBSET Filters]
ASSUME CommandsAssumption ==
    ClientCommands \subseteq {"start", "pause", "volume", "get"} /\ MaxCommands \in [Clients -> Nat]

\* What acts without the worker of the filter, and what has a result.
Silent == {"volume"}
Queries == {"get"}

\* A rule of the policy sets a filter's parameters; players are started and
\* closed by their clients.
ASSUME PolicyCommandAssumption ==
    \A now \in SUBSET Filters :
        PolicyCommand(now) # NULL =>
            PolicyCommand(now).target \in Filters /\ PolicyCommand(now).cmd \in Silent
ASSUME GraphFaultsAssumption ==
    Faults \subseteq {"command",  \* a filter refuses a command
                      "notify",   \* the server cannot connect to a listener
                      "pending"}  \* pending close without an event callback

\* MediaFilterPriv: what the data of a connection and the opaque of a filter
\* point to.
Ctx0 == [filter : Filters, cookie : Cookies \cup {NULL}, event : BOOLEAN, owner : Clients]

ASSUME GraphNullAssumption == NULL \notin Ctxs \cup Ctx0

VARIABLES
    conns,   \* priv->conns of media_server.c
    life,    \* what a client does with its player
    entry,   \* the entry of its connection
    given,   \* commands without a result it has given
    deaf,    \* clients that were gone before they listened to their events
    ctxs,    \* contexts; NULL is free memory
    opaque,  \* filter->opaque
    todo,    \* what the worker of a filter has not carried out
    status,  \* what it has to report to the graph
    queue,   \* priv->cmdhead ... priv->cmdtail
    done,    \* the numbers of the commands of its client a filter was given
    active,  \* the criterion ActiveStreams
    phase,   \* where the daemon's loop stands
    wake     \* poll() has something to return for

client_vars == <<life, entry, given, deaf>>
filter_vars == <<todo, queue, done>>
vars == <<conns, client_vars, ctxs, opaque, filter_vars, status, active, phase, wake>>

Init ==
    /\ conns = [k \in Cookies |-> ZeroConn]
    /\ life = [c \in Clients |-> "new"] /\ entry = [c \in Clients |-> NULL]
    /\ given = [c \in Clients |-> 0] /\ deaf = {}
    /\ ctxs = [x \in Ctxs |-> NULL] /\ opaque = [f \in Filters |-> NULL]
    /\ todo = [f \in Filters |-> <<>>] /\ status = [f \in Filters |-> <<>>]
    /\ queue = <<>> /\ done = [f \in Filters |-> <<>>] /\ active = {}
    /\ phase = "poll" /\ wake = FALSE

-----------------------------------------------------------------------------
(* Commands                                                                *)

\* What the worker reports about a command; STARTED carries the result of the
\* start.
Report(cmd) ==
    CASE cmd = "start" -> {"STARTED", "STARTED with an error"}
      [] cmd = "pause" -> {"PAUSED"}
      [] cmd = "close" -> {"CLOSED"}

\* ff_filter_graph_has_pending_status: a worker has not reported yet.
ff_filter_graph_has_pending_status(rest) == \E f \in Filters : todo[f] # <<>> \/ rest[f] # <<>>

\* The filter is given a command; it may refuse all but the one to close.
MayRefuse(m) == "command" \in Faults /\ m.cmd # "close"
avfilter_process_command(m, accepts) ==
    /\ accepts \/ MayRefuse(m)
    /\ todo' = IF m.cmd \in Silent \cup Queries \/ ~ accepts THEN todo
               ELSE [todo EXCEPT ![m.filter] = Append(@, m.cmd)]
    /\ done' = IF m.n = 0 THEN done ELSE [done EXCEPT ![m.filter] = Append(@, m.n)]

\* A mutant: the commands that wait are overtaken.
QueueOvertaken(m, rest) ==
    IF ff_filter_graph_has_pending_status(rest)
    THEN queue' = Append(queue, m) /\ UNCHANGED <<todo, done>>
    ELSE UNCHANGED queue /\ \E accepts \in BOOLEAN : avfilter_process_command(m, accepts)

\* A mutant: a command that waits has been carried out, too.
QueueAndProcess(m, rest) ==
    IF m.cmd \notin Queries /\ (queue # <<>> \/ ff_filter_graph_has_pending_status(rest))
    THEN queue' = Append(queue, m) /\ avfilter_process_command(m, TRUE)
    ELSE UNCHANGED queue /\ \E accepts \in BOOLEAN : avfilter_process_command(m, accepts)

\* A command with a result is carried out at once, past those that wait; m may
\* have to, while something of "rest" is to be reported.
media_graph_queue_command(m, rest) ==
    IF m.cmd \notin Queries /\ (queue # <<>> \/ ff_filter_graph_has_pending_status(rest))
    THEN queue' = Append(queue, m) /\ UNCHANGED <<todo, done>>
    ELSE UNCHANGED queue /\ \E accepts \in BOOLEAN : avfilter_process_command(m, accepts)

\* media_graph_handler, called from within: the filter whose name is the target,
\* or ends with it, is given the command at once or in its turn.
media_graph_handler(target, cmd, rest) ==
    media_graph_queue_command([filter |-> target, cmd |-> cmd, n |-> 0], rest)

\* pfw_apply, when a rule holds now that did not: its plugin FFmpegCommand names
\* a target and a command.
pfw_ffmpeg_command_callback(now, rest) ==
    IF PolicyCommand(now) = NULL THEN UNCHANGED filter_vars
    ELSE media_graph_handler(PolicyCommand(now).target, PolicyCommand(now).cmd, rest)

\* "include" or "exclude" the name of the stream, then pfw_apply.
media_stub_set_stream_status(now, rest) ==
    /\ active' = now
    /\ IF now = active THEN UNCHANGED filter_vars ELSE pfw_ffmpeg_command_callback(now, rest)

\* media_common_notify_cb: who is told of an event of the filter.
Hears(x) ==
    IF ctxs[x].event /\ ctxs[x].cookie # NULL THEN media_server_notify(conns[ctxs[x].cookie])
    ELSE {}

-----------------------------------------------------------------------------
(* Requests.  The daemon serves them when poll() returns.                  *)

Request(c) == phase = "poll" /\ wake' = TRUE /\ life[c] # "gone"

Accept(c) ==
    /\ Request(c) /\ life[c] = "new"
    /\ \E k \in AcceptEntry(conns) :
          /\ conns' = [conns EXCEPT ![k] = media_server_conn_init(@, c)]
          /\ entry' = [entry EXCEPT ![c] = k]
    /\ life' = [life EXCEPT ![c] = "connected"]
    /\ UNCHANGED <<given, deaf, ctxs, opaque, filter_vars, status, active, phase>>

\* A mutant: it may have a context.
FindTaken(c) ==
    {FilterSeq[i] : i \in {i \in 1 .. Len(FilterSeq) :
        /\ FilterSeq[i] \in Stream[c]
        /\ \A j \in 1 .. i - 1 : FilterSeq[j] \notin Stream[c]}}

\* media_find_filter: the first one that fits and has no context.
media_find_filter(c) ==
    {FilterSeq[i] : i \in {i \in 1 .. Len(FilterSeq) :
        /\ FilterSeq[i] \in Stream[c] /\ opaque[FilterSeq[i]] = NULL
        /\ \A j \in 1 .. i - 1 : FilterSeq[j] \in Stream[c] => opaque[FilterSeq[j]] # NULL}}

\* Memory that was freed is given out again.
malloc ==
    LET free == {x \in Ctxs : ctxs[x] = NULL}
    IN  {x \in free : x = CHOOSE y \in free : TRUE}

\* media_common_open, behind it set_data.
media_common_open(c) ==
    /\ Request(c) /\ life[c] = "connected"
    /\ \E f \in media_find_filter(c), x \in malloc :
          /\ ctxs' = [ctxs EXCEPT ![x] = [filter |-> f, cookie |-> entry[c],
                                          event |-> FALSE, owner |-> c]]
          /\ opaque' = [opaque EXCEPT ![f] = x]
          /\ done' = [done EXCEPT ![f] = <<>>]
          /\ conns' = [conns EXCEPT ![entry[c]] = media_server_set_data(@, x)]
    /\ life' = [life EXCEPT ![c] = "open"]
    /\ UNCHANGED <<entry, given, deaf, todo, queue, status, active, phase>>

\* The connection ends, with a context that tells of events and no socket to
\* tell them on, so that the entry is free.
Deaf(c) ==
    /\ conns[entry[c]].notify_fd # c
    /\ \E x \in Ctxs : ctxs[x] # NULL /\ ctxs[x].owner = c /\ ctxs[x].event /\ ctxs[x].cookie # NULL

Gone(c) ==
    /\ deaf' = deaf \cup (IF Deaf(c) THEN {c} ELSE {})
    /\ life' = [life EXCEPT ![c] = "gone"]
    /\ entry' = [entry EXCEPT ![c] = NULL] /\ given' = [given EXCEPT ![c] = 0]

\* No filter, or one that refuses to open: the answer is an error, and
\* media_open gives up the connection.
OpenFails(c) ==
    /\ Request(c) /\ life[c] = "connected" /\ (media_find_filter(c) = {} \/ "command" \in Faults)
    /\ conns' = [conns EXCEPT ![entry[c]] = media_server_conn_close(@)]
    /\ Gone(c)
    /\ UNCHANGED <<ctxs, opaque, filter_vars, status, active, phase>>

CreateNotify(c, ok) ==
    /\ Request(c) /\ life[c] = "open"
    /\ ok \/ "notify" \in Faults
    /\ conns' = [conns EXCEPT ![entry[c]] = media_server_create_notify(@, c, ok)]
    /\ life' = [life EXCEPT ![c] = "listening"]
    /\ UNCHANGED <<entry, given, deaf, ctxs, opaque, filter_vars, status, active, phase>>

\* What media_common_handler finds for the connection of c.
Ctx(c) == media_server_get_data(conns[entry[c]])

\* A synchronous client asks for events when it listens, an asynchronous one
\* before that; the server takes it as it comes.
SetEvent(c) ==
    /\ Request(c) /\ life[c] \in {"open", "listening"}
    /\ Ctx(c) # NULL /\ ~ ctxs[Ctx(c)].event
    /\ ctxs' = [ctxs EXCEPT ![Ctx(c)].event = TRUE]
    /\ UNCHANGED <<conns, client_vars, opaque, filter_vars, status, active, phase>>

Query(c, cmd) ==
    /\ Request(c) /\ life[c] \in {"open", "listening"} /\ Ctx(c) # NULL
    /\ media_graph_queue_command([filter |-> ctxs[Ctx(c)].filter, cmd |-> cmd, n |-> 0], status)
    /\ UNCHANGED <<conns, client_vars, ctxs, opaque, status, active, phase>>

Command(c, cmd) ==
    /\ Request(c) /\ life[c] \in {"open", "listening"}
    /\ Ctx(c) # NULL /\ given[c] < MaxCommands[c]
    /\ given' = [given EXCEPT ![c] = @ + 1]
    /\ media_graph_queue_command([filter |-> ctxs[Ctx(c)].filter, cmd |-> cmd,
                                  n |-> given[c] + 1], status)
    /\ UNCHANGED <<conns, life, entry, deaf, ctxs, opaque, status, active, phase>>

\* Without "pending" the connection is told at once that events have ended.
Close(c, pending) ==
    /\ Request(c) /\ life[c] \in {"open", "listening"} /\ Ctx(c) # NULL
    /\ pending => life[c] = "listening" \/ "pending" \in Faults
    /\ IF pending THEN UNCHANGED <<conns, ctxs>>
       ELSE /\ conns' = [conns EXCEPT ![ctxs[Ctx(c)].cookie] = media_server_finalize(@)]
            /\ ctxs' = [ctxs EXCEPT ![Ctx(c)].cookie = NULL]
    /\ media_graph_queue_command([filter |-> ctxs[Ctx(c)].filter, cmd |-> "close",
                                  n |-> given[c] + 1], status)
    /\ life' = [life EXCEPT ![c] = "closing"]
    /\ UNCHANGED <<entry, given, deaf, opaque, status, active, phase>>

\* media_proxy_disconnect, once the listener has seen the end of its events.
Disconnect(c) ==
    /\ Request(c) /\ life[c] = "closing" /\ conns[entry[c]].notify_fd # c
    /\ conns' = [conns EXCEPT ![entry[c]] = media_server_conn_close(@)]
    /\ Gone(c)
    /\ UNCHANGED <<ctxs, opaque, filter_vars, status, active, phase>>

\* The process ends; what the server holds for it stays.
Dies(c) ==
    /\ Request(c) /\ life[c] # "new"
    /\ conns' = [conns EXCEPT ![entry[c]] = media_server_conn_close(@)]
    /\ Gone(c)
    /\ UNCHANGED <<ctxs, opaque, filter_vars, status, active, phase>>

-----------------------------------------------------------------------------
(* The workers and the rest of the loop                                    *)

\* media_graph_filter_ready wakes the loop through the eventfd.
Worker(f) ==
    /\ todo[f] # <<>>
    /\ \E e \in Report(Head(todo[f])) : status' = [status EXCEPT ![f] = Append(@, e)]
    /\ todo' = [todo EXCEPT ![f] = Tail(@)]
    /\ wake' = TRUE
    /\ UNCHANGED <<conns, client_vars, ctxs, opaque, queue, done, active, phase>>

\* Any other descriptor: a focus request, a session, a socket of a filter.
OtherActivity ==
    /\ phase = "poll" /\ ~ wake /\ wake' = TRUE
    /\ UNCHANGED <<conns, client_vars, ctxs, opaque, filter_vars, status, active, phase>>

\* media_graph_run_once: first ff_filter_graph_run_all ...
RunOnce ==
    /\ phase = "poll" /\ wake
    /\ phase' = "run" /\ wake' = FALSE
    /\ UNCHANGED <<conns, client_vars, ctxs, opaque, filter_vars, status, active>>

\* A mutant: the filter stays taken.
ClosedKeepsOpaque(f, x, rest) ==
    /\ media_stub_set_stream_status(active \ {f}, rest)
    /\ conns' = IF ctxs[x].cookie = NULL THEN conns
                ELSE [conns EXCEPT ![ctxs[x].cookie] = media_server_finalize(@)]
    /\ UNCHANGED <<ctxs, opaque>>

\* media_common_event_cb, AVMOVIE_ASYNC_EVENT_CLOSED.
Closed(f, x, rest) ==
    /\ media_stub_set_stream_status(active \ {f}, rest)
    /\ conns' = IF ctxs[x].cookie = NULL THEN conns
                ELSE [conns EXCEPT ![ctxs[x].cookie] = media_server_finalize(@)]
    /\ opaque' = [opaque EXCEPT ![f] = NULL]
    /\ ctxs' = [ctxs EXCEPT ![x] = NULL]

\* The other events; they are passed on to Hears(x).
Reported(f, e, rest) ==
    /\ media_stub_set_stream_status(
           CASE e = "STARTED" -> active \cup {f}
             [] e = "STARTED with an error" -> active
             [] OTHER -> active \ {f}, rest)
    /\ UNCHANGED <<conns, opaque, ctxs>>

\* A filter reports: media_common_event_cb with the context it was given.
Deliver(f) ==
    /\ phase = "run" /\ status[f] # <<>>
    /\ LET rest == [status EXCEPT ![f] = Tail(@)]
       IN  /\ status' = rest
           /\ \/ Head(status[f]) = "CLOSED" /\ Closed(f, opaque[f], rest)
              \/ Head(status[f]) # "CLOSED" /\ Reported(f, Head(status[f]), rest)
    /\ UNCHANGED <<client_vars, phase, wake>>

\* ... and when it has nothing more to report, the commands that wait, as
\* long as none is pending or refused.
RunAllDone == phase = "drain" \/ (phase = "run" /\ \A f \in Filters : status[f] = <<>>)

media_graph_dequeue_command(accepts) ==
    /\ RunAllDone /\ queue # <<>> /\ ~ ff_filter_graph_has_pending_status(status)
    /\ avfilter_process_command(Head(queue), accepts)
    /\ queue' = Tail(queue)
    /\ phase' = IF accepts THEN "drain" ELSE "poll"
    /\ UNCHANGED <<conns, client_vars, ctxs, opaque, status, active, wake>>

RunDone ==
    /\ RunAllDone /\ (queue = <<>> \/ ff_filter_graph_has_pending_status(status))
    /\ phase' = "poll"
    /\ UNCHANGED <<conns, client_vars, ctxs, opaque, filter_vars, status, active, wake>>

Loop ==
    \/ RunOnce
    \/ \E f \in Filters : Deliver(f)
    \/ \E accepts \in BOOLEAN : media_graph_dequeue_command(accepts)
    \/ RunDone

Next ==
    \/ \E c \in Clients :
          \/ Accept(c) \/ media_common_open(c) \/ OpenFails(c)
          \/ \E ok \in BOOLEAN : CreateNotify(c, ok)
          \/ SetEvent(c)
          \/ \E cmd \in ClientCommands \ Queries : Command(c, cmd)
          \/ \E cmd \in ClientCommands \cap Queries : Query(c, cmd)
          \/ \E pending \in BOOLEAN : Close(c, pending)
          \/ Disconnect(c)
          \/ Dies(c)
    \/ \E f \in Filters : Worker(f)
    \/ OtherActivity
    \/ Loop

\* The daemon's thread and the workers run; nobody has to ask for anything.
Spec == Init /\ [][Next]_vars /\ WF_vars(Loop) /\ \A f \in Filters : WF_vars(Worker(f))

-----------------------------------------------------------------------------
(* Properties                                                              *)

Commands == [filter : Filters, cmd : {"start", "pause", "volume", "close"}, n : Nat]

(* Every variable has its type, and a filter that has something to do or   *)
(* to report has a context that is not free: its events are written there. *)
(* A command that waits has no result: its memory is gone with the answer. *)
GraphTypeOK ==
    /\ conns \in [Cookies -> ConnType(Ctxs)]
    /\ ctxs \in [Ctxs -> Ctx0 \cup {NULL}] /\ opaque \in [Filters -> Ctxs \cup {NULL}]
    /\ life \in [Clients -> {"new", "connected", "open", "listening", "closing", "gone"}]
    /\ deaf \subseteq Clients /\ queue \in Seq(Commands) /\ active \subseteq Filters
    /\ phase \in {"poll", "run", "drain"} /\ wake \in BOOLEAN
    /\ \A f \in Filters : todo[f] # <<>> \/ status[f] # <<>> =>
          opaque[f] # NULL /\ ctxs[opaque[f]] # NULL

(* A player or recorder that was opened keeps its context and, with an     *)
(* event callback, its event socket until it is closed, whatever becomes   *)
(* of the others: nobody else finalizes its connection, and its context is *)
(* not freed under it.                                                     *)
ClientKeeps ==
    \A c \in Clients : life[c] \in {"open", "listening"} =>
        /\ Ctx(c) # NULL /\ ctxs[Ctx(c)] # NULL
        /\ ctxs[Ctx(c)].owner = c /\ ctxs[Ctx(c)].cookie = entry[c]
        /\ opaque[ctxs[Ctx(c)].filter] = Ctx(c)
        /\ life[c] = "listening" /\ "notify" \notin Faults => conns[entry[c]].notify_fd = c

(* media_common_notify_cb tells a client about its own filter only,        *)
(* whenever an event comes, though entries of the connection table are     *)
(* used again and filters change hands; only the events of a client that   *)
(* was gone before it listened may go to whoever has its entry then.       *)
EventsToOwner ==
    \A x \in Ctxs : ctxs[x] # NULL /\ ctxs[x].owner \notin deaf => Hears(x) \subseteq {ctxs[x].owner}

(* The commands without a result that a client gives to its player reach   *)
(* the filter in their order, each once and none left out, whether they    *)
(* were queued or not.                                                     *)
InOrder == \A f \in Filters : \A i \in DOMAIN done[f] : done[f][i] = i

(* A filter that was asked to close is free for the next player in the     *)
(* end, as long as something wakes the daemon now and then: a command that *)
(* was refused stops the loop over the queue until then.                   *)
ClosedIsFreed ==
    ([]<> wake) =>
        \A f \in Filters :
            (\E i \in DOMAIN queue : queue[i].filter = f /\ queue[i].cmd = "close")
                ~> (opaque[f] = NULL)
=============================================================================
