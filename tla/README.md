# A TLA+ model of the media framework

This directory holds TLA+ specifications of the media framework, the TLC
configurations that check them on small instances, and theorems about them that
TLAPS proves for every instance. Paths such as `server/media_focus.c` are paths of
the repository. `PROJECT.json` lists, for every definition that models code, the
lines it models; every run; and the hazards the properties are aimed at.

## 1. The system

Applications talk to a media daemon. The daemon (`server/`) is one process with one
poll loop; clients (`client/`) link a library with a synchronous interface (threads,
blocking calls) and an asynchronous one (libuv). A client opens a stream socket
(`tran_fd`) for requests and answers. When it wants events it listens on a socket of
its own and asks the server to connect back (`notify_fd`).

| Component | State | Operations | Hard about it |
|---|---|---|---|
| Focus stack, `server/focus_stack.c` | array of nodes, linked list through it, counter | push, pop, insert, delete, clear, broadcast | three views of one list; callbacks out of the middle of an update |
| Focus arbiter, `server/media_focus.c` | the stack, the interaction matrix | request, abandon, suggestions to everybody below | handles of reused slots; dead clients; who is told what |
| Connections, `server/media_server.c` | table of `{tran_fd, notify_fd, data}` | accept, receive, create_notify, notify, finalize, close | entries are reused while handlers keep pointers to them; notifications are dropped at a full socket |
| Session, `server/media_session.c` | controllees by activity with their metadata, controllers | register, update, event, unregister; open, set_event, control, query, close | everybody has to hear of a change of the first controllee |
| Graph, `server/media_graph.c` | FFmpeg graph, queued commands, a context per player | prepare, start, ..., close; run_once | commands outlive their clients; events from other threads |
| Policy, `server/media_policy.c` | parameter framework criteria | get, set, increase, ..., delayed save | one delayed save for many changes |
| Daemon, `server/media_daemon.c`, `media_stub.c` | poll table | dispatch by MEDIA_ID | fixed table of descriptors |
| Sync proxy, `client/media_proxy.c` | counted handle, connection, listener thread | connect, once, set_event_cb, disconnect | two threads, join, callbacks that re-enter |
| Async proxy, `client/media_uv.c` | proxy, pipes, request queue, flags | connect, send, listen, reconnect, disconnect | every callback may meet a teardown |
| Focus clients, `client/media_focus.c`, `media_uv_focus.c` | a handle | request, abandon, on_suggestion | answer and events on two sockets |
| Session clients, `client/media_session.c`, `media_uv_session.c` | metadata cache, `need_query` | query, listen, control | cache against events |
| Player clients, `client/media_graph.c`, `media_uv_graph.c` | handle and data socket | open, prepare, write_data, close | data socket shared by threads |
| Parcels, `utils/media_parcel.c` | buffer | append, read, send, recv | partial reads |
| Metadata, `utils/media_metadata.c` | flags and fields | merge, to text and back | text form loses information |
| Policy clients, `client/media_policy.c`, `media_uv_policy.c` | a subscription | subscribe, set, get | the server's handle of it lives in a connection entry |
| Tools, bindings, DTMF | | | not part of the core |

What makes each of them correct:

- *focus*: the stack is well formed; a focus is taken from nobody but by its own
  abandon; every queued client has been told what the matrix says under the current
  top; the server keeps nothing of a client that left properly;
- *connections*: an entry that a handler still points to is not given to another client;
- *sync proxy*: a handle is freed exactly once and after its last use, abandon returns,
  and a call from any thread is answered with its own answer;
- *parcels*: whatever sizes the sockets take and give, nothing is written beyond a
  parcel's memory and no two messages are mixed;
- *session*: what a controller has cached is the metadata of the most active controllee;
- *async proxy*: answers find their requests, requests keep their order, a handle is
  released once and after its last callback;
- *async streams*: the memory of a stream outlives what still calls back into it, every
  callback of the application comes once, and closing ends;
- *graph*: commands keep their order, events reach the client that owns the filter, a
  player that is closed gives its filter back;
- *policy*: subscriptions reach their subscribers, the last value of a criterion is saved;
- *data sockets*: nobody uses or closes a descriptor that is no longer the player's.

## 2. Modules

| Module | Models | Run through |
|---|---|---|
| `MediaDefs` | shared constants | all |
| `FocusStack` | `focus_stack.c`; operators that return the new stack, the callbacks made, the return value | `MCMediaFocus` |
| `ServerConn` | the connection table of `media_server.c`; operators on an entry | the four below |
| `MediaFocus` | the arbiter and its connections; composes `FocusStack` and `ServerConn` | `MCMediaFocus` |
| `FocusConfig` | how `media_focus.c` reads the interaction file | `MCMediaFocus` |
| `FocusRpc` | `MediaFocus` and the two sockets to each client; extends it | `MCFocusRpc` |
| `MediaGraph` | `media_graph.c` in the loop of the daemon, over `ServerConn` | `MCMediaGraph` |
| `MediaPolicy` | `media_policy.c` with its worker and the synchronous client, over `ServerConn` | `MCMediaPolicy` |
| `MediaParcel` | `media_parcel.c`: memory, fields, partial receives; operators | `MCParcelRpc` |
| `ParcelRpc` | one connection, its client threads, the daemon and `media_stub.c`, over `MediaParcel` | `MCParcelRpc` |
| `ProxyCall` | what `media_proxy_once` promises; the abstract specification of `ParcelRpc` | `MCParcelRpc` |
| `MediaProxy` | one handle of the synchronous client, its two threads and the server's part | itself |
| `MediaIO` | `client/media_graph.c`: the data socket with its threads, and `media_recorder_take_picture` | `MCMediaIO` |
| `MediaMetadata` | merge and text form of metadata | the session runs |
| `MediaSession` | the session server and the notification sockets of controllers | the session runs |
| `ControllerCache` | what both controllers count on of `MediaSession`: whose metadata is current | the session runs |
| `SessionCache` | a synchronous controller over `MediaSession` | `MCSessionCache` |
| `UvSessionCache` | an asynchronous controller over `MediaSession` | `MCUvSessionCache` |
| `MediaUv` | one connection of the asynchronous client, what the clients built on it do in its callbacks, and the server's part | `MCMediaUv` |
| `UvStream` | `media_uv_graph.c`: a player, recorder or picture and the objects beside it | `MCUvStream` |
| `MediaFocus_proofs`, `PolicyProxy_proofs`, `MediaGraph_proofs`, `ParcelRpc_proofs`, `MediaIO_proofs`, `Session_proofs`, `MediaUv_proofs`, `UvStream_proofs` | lemmas and theorems (section 4) | |

Conventions. Operators and actions keep the names of the C functions. The daemon
handles one message at a time, so a message is one action, with everything its
handler does: the stack operations, the callbacks into `media_focus_notify_cb`, the
changes of the connection entry. `ParcelRpc` is where this unit is justified: below it
are single calls of `send` and `recv`, above it (`ProxyCall`) a call is served in one
step. Operators named in a comment "A mutant: ..." are not
part of the model; each is a plausible bug in the definition that follows it, and
breaks the property `PROJECT.json` names for it. `Faults` is, in every module that has
it (`ProxyFaults` in `MediaProxy`), the set of steps that may fail in a run. Every module has a type invariant; those of
`FocusRpc`, `MediaProxy`, `SessionCache`, `UvSessionCache` (`UvTypeOK`), `MediaUv`, `ParcelRpc` and
`MediaIO` hold too but say nothing but the types, and are not part of the runs.

### MediaFocus, FocusConfig

`stack` is the C structure: `node_list` indexed by slot, `list` for the linked list
(top first), `cur_size`. `conns` is the connection table; a cookie (`callback_argv`) is
an index into it, as the pointer is in C. `phase` is how far a client has come in
its protocol, `alive` the clients whose process runs; a client may die at any
moment, and the server notices later (`Hangup`) or never. `told` is the last
suggestion sent to a client, `owner` the client that holds a slot: history that
only properties read. The interaction matrix is two constants, `pro_inter` (what a
requester is told) and `pas_inter` (what a holder is told). `NotifyMayFail` lets
connecting back to a client fail, which nobody reports to the client.

The matrix of the runs is what `FocusConfig` reads out of a file (`MCFile`), a function
from lines to streams and cells. That a well-formed file is read as written is an
assumption of `MCMediaFocus` that TLC evaluates over all files of up to four lines.

### FocusRpc

`reply` and `events` are the contents of the two sockets, `heard` the last suggestion
the application was given. A reply is sent after the notifications its handler caused.
`overtaken` and `lost` record the two ways an application may end up with an old word.

### MediaGraph

The loop has three phases, as in `media_daemon.c`: `"poll"` serves requests, `"run"` lets
the graph report what filters have done, one report at a time, `"drain"` takes up the
commands that waited. `todo` and `status` are the commands a filter's worker has
and the statuses it left, `queue` the commands that wait in the daemon because some filter had
one of either. `opaque[f]` is the context of a filter, `ctxs` the contexts with their cookies
(pointers into the connection table) and `owner`, history for the properties, like
`done[f]`, the numbers of the commands of its client that filter `f` was given, and `deaf`, the clients that
were gone after they had asked for events and before they listened. `Queries` are the commands with a
result: they go to the filter at once, past those that wait, and have no number. Synchronous clients ask for events
when they listen, asynchronous ones before, so `SetEvent` is possible in both states. Policy
rules that answer a change of the active streams with a command are the constant `PolicyCommand`. libavfilter is external: a worker takes its commands
in order, leaves one status for each, and may refuse a command (`"command"` in `Faults`).

### MediaPolicy

`value` are the criteria (the framework, external), `subs` its subscriptions with the
pointer to an entry, `slot` is `priv->key` and `priv->value`, `queued` and `work` what the
work queue holds, `saving` what the worker has read and not yet written, `store` what
survives a restart. The daemon fills the slot under the mutex and queues the work after it,
in two steps: first the key, then the value, the unlock and `work_queue` together (between these two
the worker could only read what it reads after them, and be queued once more). The worker reads under the mutex and writes without it.

### MediaParcel, ParcelRpc, ProxyCall

A parcel is a record of its units and of how much memory it has; a string is a sequence of
units with its end. `c2s` and `s2c` are the two directions of the connection, each of
`SockBuf` units, so that everything is sent and received in parts of any size. A thread holds
the mutex from the first unit sent to the last one received. The daemon keeps the part it has in
the entry (`conn`); the entry is given to the next client when this one is gone. `Handler`
is any function of the arguments a handler is given, so that an answer tells whether the
arguments were those of the call. `Implements` is `ProxyCall!Spec` under the mapping at the end
of `ParcelRpc`, with its fairness: a call that was begun returns. Its safety part is proved (section 4).

### MediaProxy

`api` is where `media_focus_request` or `media_focus_abandon` stands, `thread` the
listener ("unstarted" when `pthread_create` failed, which the code does not notice; an `accept4` that fails ends it at once), `refs` the counter, `freed` how often the release ran. `pthread_join` in the listener's own callback returns
at once with EDEADLK, as the C library does. Initial state, steps and specification are prefixed `Proxy`, so that
one module can prove about this one and `MediaPolicy`.

### MediaIO

`files` is the table of descriptors of the process, where the lowest free one is given out
and the application has some of its own; `socket`, `socket_fd` and `refs` are the fields.
`ctl` is where the controlling thread stands in `media_prepare` or `media_close_socket`, `call[d]` where a
data thread stands in `media_process_data`: between two accesses of a field anything may
happen. `raced` records that two threads met where nothing keeps them apart
(section 3), `failed` counts the prepares that left a descriptor open; the
properties say what holds otherwise. `pic`, `rec`, `events`, `listener` and `sem` are
`media_recorder_take_picture`: its thread, the recorder in the daemon, the notification socket,
the listener thread and the semaphore.

### MediaSession, ControllerCache, SessionCache, UvSessionCache

`controllees` is the list with the most active first. An event that finds
`NotifyQueue` unread ones is dropped and recorded in `lost`. The synchronous
controller has one call at a time and a listener thread that interleaves with it; the
asynchronous one has requests, answers and events on pipes (its initial state, steps and
invariants are prefixed `Uv`, so that one module can prove about both). `ControllerCache` is what the two
share. A text is a sequence of words, since `sscanf` splits at white space.

### MediaUv

Everything in `media_uv.c` runs in callbacks of one loop, often nested: an answer calls
the client, which sets a flag, which the same handler then acts upon. The client's
memory is therefore one record, `uv`, the C functions are operators from that record
to itself, and the actions are the callbacks of the loop and the calls of the
application. What the application does inside a callback (`then`) is any of the
things the four clients do there: nothing, close, disconnect, reconnect, listen, send.
`pipes` has every pipe that was made, in order, so that the memory of one is never taken for another's.
A use of a null or freed pointer sets `bad` and nothing runs after it. The loop is
libuv's as documented, with one fact about its order: close callbacks end a turn, so
what a pipe replaced is closed before that pipe is polled (`Polled`); libuv since 1.45
reports a failed connect earlier, which is `EarlyConnect`.

### UvStream

The same form one level up: `s` is the stream with its listeners, pipe, query and focus
objects, and `MediaUv` below it is taken for what it was shown to be: requests are answered in
order (`q`), and a proxy that is disconnected calls back once. `told` counts how often a
callback of the application ran. A picture is a recorder that an event starts and closes.

## 3. Runs

| Run | Instance | Shows |
|---|---|---|
| `focus_arbitration` | 3 clients, 3 slots, 3 entries, 3 streams | `CookieBelongs`, `Arbitrated`, `StopIsFinal` while connecting back works; clients die at any time |
| `focus_failures` | 3 clients, 2 slots, 2 entries, connecting back may fail | `TypeOK`, `FocusStackShape`, `HandleIsOwn`, `CleanExit`, `OnlyOwnerLeaves` |
| `focus_rpc` | 2 clients, sockets of 2 events | `HeardIsCurrent` |
| `proxy_lifecycle` | 1 handle; the listening socket, the listener thread, its `accept4` or the daemon may fail | `NoUseAfterFree`, `RefsCounted`, and under fairness `AbandonReleases`, `AbandonReturns` |
| `parcel_rpc` | 2 threads, 2 requests, parcels of 4 units without malloc, sockets of 3 units, 1 restart | `InBounds`, `Implements` (refinement of `ProxyCall`) |
| `session_cache` | 2 controllees, 1 controller, 2 unread events | `KeepsGiven` (of a title, what stands before the first white space), `CacheFresh` |
| `uv_session_cache` | the same, 2 requests under way | `CacheComplete` |
| `uv_client` | 1 handle, 4 worlds of servers, 2 messages besides those of the connection, the last pipe to listen with is the 4th | `AnswersPaired`, `OrderKept`, `NoUseAfterFree`, `ReleasedLast`, and under fairness `QueueMoves`, `CloseReleases` |
| `uv_stream` | a player, recorder or picture; 2 CPUs, 2 focus objects, 2 prepares, 3 other calls | `StreamTypeOK`, `StreamOutlivesCallbacks`, `CallbacksOnce`, and under fairness `CloseComes` |
| `graph` | 2 clients, 2 filters, 2 entries, 2 contexts, a command without a result of each client, queries and close; filters may refuse | `GraphTypeOK`, `ClientKeeps`, `EventsToOwner`, `InOrder`, and under fairness `ClosedIsFreed` |
| `policy` | 2 clients, 2 entries, 3 criteria, 2 of them persistent | `PolicyTypeOK`, `SubscriptionsKept`, and under fairness `LastSaved` |
| `media_io` | 2 data threads, 5 descriptors, 2 prepares, 1 picture | `DescriptorsOwned`, `LostCounted`, and under fairness `CallsReturn`, `PictureEnds` |

The bounds. Three clients are enough for a top, somebody below it and a newcomer, and
with two slots and two entries for every full table; the matrix of `MCMediaFocus` has
all the answers that take different paths (play, stop, silent, duck, and a refused
insertion). Two controllees can overtake each other and one can leave the other
behind; controllers do not influence each other. Queues of two are enough for
an event to cross an answer and for a drop. For the asynchronous handle, a list of two CPUs
has a first and a last server; four pipes are two connections, a listener and what it
accepts; two messages can overtake each other, and three (tried once, for the
invariants) show nothing else. A socket of three units is shorter than any parcel, and a
parcel of four units without malloc is exceeded by one of the requests and one of the answers
and not by the others; two threads are one that holds the mutex and one that waits. Two
filters are enough for a command to be queued behind one for another filter and for a policy
rule to act on the other one, and a command and the close behind it are what a queue that does not keep order would exchange (two commands of one client, tried once, show nothing else); two entries are reused as soon as a client leaves, and a client
that closes gives its filter to the other. Three criteria are two that share the slot and one
that is not saved. Two prepares make an old data socket meet a new one, in both orders of
their descriptors; with five descriptors one is always free.

Seen while modelling: where the code, as modelled, does something else than its
documentation says or its authors will have meant. The properties above except these
cases, or the constant named here leaves them out; with it set, TLC finds the trace.

*Focus and connections*

- The answer of `media_focus_request` is read from one socket by the application's thread,
  suggestions from another by the listener thread. A client answered PLAY that loses
  the focus at once may handle STOP first and return PLAY afterwards; two applications
  then play, although `README.md:34` says "Ensure that only one application gets the
  media focus and plays media at a given time." (`client/media_focus.c:91`; `overtaken`.)
- The clearing pass of a request ("step 3: useless focus node clear") removes the foci of threads
  that have ended, but every focus records the daemon's own thread: that of a client
  that died stays (`server/media_focus.c:411`).
- `StopIsFinal` does not hold when connecting back may fail: the entry of a client
  that died is then taken for free while its focus is still queued, and a later
  client on that entry gets the suggestions (`server/media_server.c:204`).
- A row of the interaction file with a cell too many writes behind the matrix
  (`server/media_focus.c:241`); one with too few, or missing rows, leaves cells unwritten; the names of the
  rows are not compared with the first line, a prefix of "Stream" passes for it, and the numbers are not checked.

*Synchronous clients*

- `AbandonReturns` does not hold with `"notify"` among the `ProxyFaults` of `MediaProxy`:
  `media_proxy_disconnect` joins a listener that waits in `accept4` for a server that
  could not connect back (`client/media_proxy.c:223`).
- After a refused request the error path of `media_focus_request` keeps the handle: its
  abandon is refused too and returns before the disconnect (`client/media_focus.c:108`).
- `media_proxy_set_event_cb` tests `ret < 0`, but `pthread_create` returns a positive
  number, so a listener that did not start keeps its reference for ever
  (`client/media_proxy.c:311`). `RefsCounted` counts this reference and
  `AbandonReleases` excepts it.
- The return of a query resets `need_query`, also when an event set it while the answer was
  under way; later queries return the old metadata until the next event, although
  `include/media_session.h:190` says "Query metadata from most active controllee."
  (`client/media_session.c:186`; `overtaken` in `SessionCache`.)
- A title of two words loses the second one to the artist
  (`utils/media_metadata.c:99`). `KeepsGiven` states what is kept.
- The error path of `media_policy_subscribe` gives `priv->proxy` to a function that expects
  `priv` (`client/media_policy.c:212`): `SubscribeFails` is what comes of it.
- `include/media_player.h` calls the data functions thread-safe. In `media_graph.c` a data call that
  begins between the test of `refs` and the close of the socket uses a closed or reused descriptor (115), and so
  do two that fail at once, or one that fails next to a prepare (271). These are `raced`.
- A prepare that fails after the listening socket was made leaves it open (214), an `accept4` that
  fails keeps `socket_fd` (224) and nothing limits how long it waits; `media_close` frees the handle
  whatever `refs` says (124); a `send` that takes part of the data closes the socket (250).
- `media_recorder_take_picture`: when the last event comes before `priv->cookie` is assigned the
  recorder is not closed (616, `overtaken` in `PictureEnds`); neither is it after an error event, and a later
  event uses freed memory; when the daemon ends it waits for ever.
- A receive interrupted by a signal fails and leaves the answer to the next call
  (`client/media_proxy.c:266`). Signals are not part of `ParcelRpc`.

*Asynchronous clients*

- After all servers refused, close shuts a null pipe down (`client/media_uv.c:774`); the
  lines below expect the case ("Do real work if uv_pipes already closed.").
- A close after a failed connect, as the example at `include/media_player.h:354` makes
  it, is queued for ever: the flag of the attempt stays (`client/media_uv.c:346`). `failed` in `CloseReleases`.
- An asynchronous controller merges answers into its cache, so fields of a former
  controllee stay in the metadata of its successor (`client/media_uv_session.c:170`).
- `ReleasedLast` does not hold with `EarlyConnect`: when the first server refuses, the
  second is absent and the application disconnects, the proxy is freed before the
  close callback of the first pipe uses it.
- A proxy that is disconnected while its listener is made (`LISTENING`) shuts nothing
  down (`client/media_uv.c:773`), and a listener that cannot be bound leaves the flag set,
  so that everything after it is queued. The first is not reached through the clients,
  the second is excepted by `failed` in `CloseReleases`.
- Requests that `media_uv_clear_queue` drops get no callback, although
  `include/media_player.h` announces `-ECANCELED` for requests that a close overtakes.
- A failed asynchronous query calls its callback with the error and then again with
  success (`client/media_uv_session.c:164`).
- A second `media_uv_player_query` resets the fields the first one waits with: with `"requery"` among
  the `Faults` of `UvStream`, `StreamOutlivesCallbacks` does not hold (`client/media_uv_graph.c:991`).
- An application that stops or closes inside `on_connection` is called once more with `-ECANCELED`, since
  the field is reset only after the call (`client/media_uv_graph.c:414` and 461): with `"reenter"` `CallbacksOnce` does not hold.
- `media_uv_focus.c:195` tests `!priv->cookie` where it will have meant `!priv->proxy`.

*Graph and policy*

- `media_player_close(handle, 1)` without an event callback leaves the context's pointer to the
  connection entry (`server/media_graph.c:471`). The client disconnects, another one gets the entry, and the CLOSED
  of the first player finalizes it: with `"pending"` among the `Faults` of `MediaGraph`,
  `ClientKeeps` does not hold.
- An asynchronous client sends `set_event` before it listens (`client/media_uv_graph.c:762`, 1127), and the server sets
  the flag at once (`server/media_graph.c:458`). When the client dies between the two, its entry is free and its context
  tells of events to it: the next client with this entry hears of a filter that is not its own. `EventsToOwner` excepts the events of such clients (`deaf`).
- A command with a result overtakes commands of the same player that wait in the queue (`server/media_graph.c:237`), so
  a query may show the state before a command that was given first. `InOrder` is about the commands without a result.
- A queued command that is refused ends the loop that drains the queue until something else wakes the
  daemon (`server/media_graph.c:604`): the condition of `ClosedIsFreed`.
- With `"notify"` among the `Faults` of `MediaPolicy`, a subscription outlives a client whose notification socket could not be
  opened, and `SubscriptionsKept` does not hold (`server/media_policy.c:217`).
- Of two persistent criteria changed within the delay only the second is saved: `LastSaved` is about the last one.

Deadlock is not checked where the system may stop: clients that have died are not
replaced, and a handle that was released is not opened again.

Fairness. The two client threads of `MediaProxy` and the
daemon's loop are weakly fair: they are scheduled by the system and block only in the
calls the guards model (`accept4`, `recv`, `pthread_join`). When the application
abandons, and whether there is anything to suggest, is not fair. In `MediaUv` the loop does not stop while a callback is due,
events do not starve the other callbacks, and the server handles what it is sent; that the
server goes on running is not assumed. `UvStream` needs only that the loop turns. In `ParcelRpc` threads and the
daemon are weakly fair, and a waiter gets a mutex that is released again and again (strong
fairness of `Lock`: its semaphore is first come first served). In `MediaGraph` the loop and the filters' workers are weakly fair; that something
wakes the daemon now and then is the premise of `ClosedIsFreed` and not assumed. In `MediaPolicy` the daemon leaves
its callback and the work queue runs when its delay is over. In `MediaIO` threads go on with what they began, a filter connects
when it was told to and closes its end when stopped, and a recorder reports in the end; a filter need
not take or give data. No application has to ask for anything in any of them.

## 4. Proofs

Every theorem is about the specification of its module, for all values of its constants:
any number of clients, slots, entries, filters, criteria and commands, any matrix, texts of any length,
sockets of any size.

| Theorem | Statement |
|---|---|
| `MediaFocus_proofs!TypeCorrect` | `Spec => []TypeOK` |
| `MediaFocus_proofs!StackWellFormed` | `Spec => []FocusStackShape` |
| `MediaFocus_proofs!HandleOwned` | `Spec => []HandleIsOwn` |
| `MediaFocus_proofs!FocusNotStolen` | `Spec => OnlyOwnerLeaves` |
| `MediaFocus_proofs!ExitLeavesNothing` | `Spec => []CleanExit` |
| `MediaFocus_proofs!CookieKept` | `~NotifyMayFail` and `Spec` imply `[]CookieBelongs` |
| `MediaFocus_proofs!EveryoneTold` | the same for `[]Arbitrated` |
| `MediaFocus_proofs!StoppedStays` | the same for `[]StopIsFinal` |
| `MediaFocus_proofs!HearsCurrent` | `~NotifyMayFail` and `RpcSpec` imply `[]HeardIsCurrent` |
| `PolicyProxy_proofs!ProxyTypeCorrect` | `ProxySpec => []TypeOK` |
| `PolicyProxy_proofs!ReferencesCounted` | `ProxySpec => []RefsCounted` |
| `PolicyProxy_proofs!HandleNotFreedEarly` | `ProxySpec => []NoUseAfterFree` |
| `PolicyProxy_proofs!PolicyTypeCorrect` | `Spec => []PolicyTypeOK` |
| `PolicyProxy_proofs!SubscriptionsOwned` | `"notify" \notin Faults` and `Spec` imply `[]SubscriptionsKept` |
| `MediaGraph_proofs!GraphTypeCorrect` | `Spec => []GraphTypeOK` |
| `MediaGraph_proofs!CommandsInOrder` | `Spec => []InOrder` |
| `MediaGraph_proofs!PlayersKeep` | `AllListen` and `Spec` imply `[]ClientKeeps` |
| `MediaGraph_proofs!EventsReachOwner` | `AllListen` and `Spec` imply `[]EventsToOwner` |
| `ParcelRpc_proofs!RpcInBounds` | `Spec => []InBounds` |
| `ParcelRpc_proofs!RpcRefines` | `Spec => Abstract!Init /\ [][Abstract!Next]_(Abstract!vars)`, `Abstract` being `ProxyCall` |
| `MediaIO_proofs!IOTypesKept` | `Spec => []IOTypeOK` |
| `MediaIO_proofs!OwnedWhenUsed` | `Spec => []DescriptorsOwned` |
| `MediaIO_proofs!LostIsCounted` | `Spec => []LostCounted` |
| `Session_proofs!SessionKeepsGiven` | `Spec => []KeepsGiven` |
| `Session_proofs!SyncCacheFresh` | `CacheSpec => []CacheFresh` |
| `Session_proofs!UvCacheComplete` | `UvSpec => []CacheComplete` |
| `MediaUv_proofs!PairsAnswers` | `~EarlyConnect` and `Spec` imply `[]AnswersPaired` |
| `MediaUv_proofs!KeepsOrder` | the same for `[]OrderKept` |
| `MediaUv_proofs!NeverFreedEarly` | the same for `[]NoUseAfterFree` |
| `MediaUv_proofs!ReleasedOnce` | the same for `[]ReleasedLast` |
| `UvStream_proofs!StreamTypeCorrect` | neither `"requery"` nor `"reenter"` among the `Faults` and `Spec` imply `[]StreamTypeOK` |
| `UvStream_proofs!StreamNotFreedEarly` | the same for `[]StreamOutlivesCallbacks` |
| `UvStream_proofs!CalledOnce` | the same for `[]CallbacksOnce` |

**MediaFocus_proofs** has first what every stack operation does to the list,
the array and the counter (elements, distinctness, states), and which callbacks it makes in which order. The base of the theorems is `OwnInv`: the types, the shape of the stack, that a client sits
in at most one entry, that a client in an entry is not idle, that an occupied slot has an owner,
and `HandleIsOwn`. The last alone is not inductive: that the abandon of one client does not empty the slot
another connection names needs that no two entries hold the same client, and that a request does not
overwrite a slot in use needs that the free slot is not in the list. Three layers stand on it.
`ExitInv` adds that a notification socket is that of the client of its entry or of one that died, that a queued focus
came by its client's entry or is that of one that died and was seen to, and that a client has one
queued focus; `CleanExit` follows and holds whatever fails. `CookieInv` adds that
the server is connected back to every client that may have a focus, and that a queued focus points to the entry of its client. That is where
connecting back must not fail: an entry is free for the next client when its two sockets are closed,
and a client that died with a focus and without a notification socket leaves such an entry (`server/media_server.c:204`, section 3).
`ToldInv` adds that what the client of a queued focus was told last is what the matrix says for it and the top. It is kept because the callbacks of a request or an exit reach exactly
the focuses whose due suggestion may have changed, which is what the lemmas on the callbacks say: a broadcast goes to all below the
top (`BroadcastSpread`), after a push to all that were queued before (`PushSpread`), a pop tells the next one (`PopSpread`), and an insertion or
deletion below the top changes nobody's (`InsertKeepsTop`, `DeleteKeepsTop`). `Arbitrated` and `StopIsFinal` follow from it.

`HearsCurrent` carries this over the sockets. What is on the way to a client is the answer of its request and the
events behind it; `RpcInv` adds to `ToldInv` that the last word on the way, or if there is none the last one heard, is
what the server told last (`TellsLast`), and that a client that has not asked has nothing on the way (`Untold`). A handler puts on a socket
just the callbacks for its client, in the order it made them, so the last of them is what `told` becomes; that is shown along the
recursion of `Notified` by a least counterexample. It excepts a full socket (`lost`) and an answer read after an event (`overtaken`), as the property does.

**PolicyProxy_proofs.** For `MediaProxy`, `RefsCounted` is inductive only next to the facts that no thread runs before it
was created and that the release ran just when the counter fell to zero; `NoUseAfterFree` follows, since each
user of the handle is one that is counted. The theorems hold for every set of `ProxyFaults`.

For `MediaPolicy` (and in **MediaGraph_proofs**) there is first what each operation on the connection table does to one entry and leaves of the others,
and which entry an accept takes. Then two invariants that do not need each other. `SaveInv`: the slot holds a key with the value of
another one only while the daemon has the mutex and the right value in its hand, and that key is persistent; otherwise slot, work and store hold
values their keys can have. `SubsInv`: an unused
entry has no subscription, a notification socket belongs to the client of its entry, and so does each
subscription. The second needs `"notify" \notin Faults`, the hazard of `server/media_policy.c:217`.

**MediaGraph_proofs.** That a worker's report finds a context is not inductive; it needs where the
commands of one filter are: the statuses not yet reported, what the worker still has, what waits in the daemon's queue.
`PipeInv` says that nothing follows a close on this way and that a filter without a context has nothing
on it, `OrderInv` that the commands a filter was given are numbered from 1 (`Numbered`) and that the numbers in the queue go on from there, without a gap; queries have no number and never wait (`NoQuery`). A command that arrives is behind all of them since
the queue is used whenever something of the filter is not finished. `GraphTypeOK` and `InOrder` come from these,
for every set of `Faults`. `KeepInv` is about the cookies: a context's cookie is an entry of its owner, and while a close waits
on the way the client stays until the report of it, except that the entry of a context whose client was gone before it listened may be anybody's. `ClientKeeps`
does not need those contexts, and `EventsToOwner` excepts them. It needs `AllListen` (neither `"notify"` nor `"pending"` among the
`Faults`): a client that closes without listening leaves its cookie behind (`server/media_graph.c:471`, section 3).

**ParcelRpc_proofs.** First what the parcel's operators do, for a format of any length: `PrintfWrites` (the values stand
one behind the other, the header counts them, the memory is enough) and `ScanReads` (values that stand so are read). The loops over a format are recursive functions, and what
holds of their steps is shown by a least counterexample (`LeastNat`), as the induction theorems of the library are out of
reach. So the stub reads what `media_proxy_once` was given and the caller what the handler answered
(`RequestCarried`, `ReplyCarried`). Then what a socket does to a stream of parcels: a receiver that asks for the rest of the header
and then for the rest of the payload never has a unit of the next parcel, and when it has all it asked for, it has the parcel that was
sent (`Arrives`), however units were split on the way. The invariant `RpcInv` says where units are: what the daemon has of a parcel, what
is in the socket and what its thread has still to send are, one behind the other, a listener's address, if one is on its way, and the
request of the thread with the mutex, if it was not dispatched (`Upstream`); in the other direction they are the reply to that
request (`Downstream`); and nothing is on the way for a mutex that is free (`Silent`). Neither half is inductive alone: that the daemon serves the
call that waits needs that nothing of an earlier one is in front of it, which is so as a call returns only when its reply has
been read to the end, and as the parcel of a client that died goes with its entry. `InBounds` and each step of the refinement follow: `Dispatch` is `Serve` of the thread
with the mutex, or a stutter when the client is dead or the parcel is an address; `media_proxy_once`, `Return`, `Fail` and `ClientDies` are the abstract actions, and all else stutters.

**MediaIO_proofs.** `DescriptorsOwned` says what a thread finds when it uses a descriptor; that it does is not inductive, since it
depends on who else may close it. `IOInv` says how the threads exclude each other without a lock: `Counted`, that `refs` is the number of
data calls under way and one for the handle, so that `refs = 1` in `media_close_socket` means nobody is under way; `Alone`, that a data call that
closes is the only one and that the controlling thread closes when there is none; `Sockets`, that the socket of the handle is
connected and its other descriptor listens until one of these has begun; and `Controls`, what the controlling thread has in its
hand, in particular that a prepare next to a data call that still has to close `socket_fd` listens with another descriptor. A thread that begins where `Alone` would
break is a race, and nothing is said after one. `Lost` is what is open and nobody will close; every action leaves it as it is or takes from it, but a
prepare that fails. The theorems hold for any number of threads, descriptors and prepares and every set of `Faults`.

**Session_proofs.** The server's invariant is small: of a controllee it keeps what its last update said, of a title the first word
(`GivenKept`). What the work is about is the way of a metadata record into a cache. `media_metadata_serialize` and
`media_metadata_unserialize` are shown to give back a record whose texts have one word, which is what the server keeps (`Kept`), so
that an answer read is the record it was made of. Each step of the controllees then either leaves the
top as it was or puts an event on every socket that listens (`Told`, with `SameTop`). For the synchronous controller `CacheInv` says that
a cache which would be used is current if no event that makes it ask again is on its way, and `AnswerInv` the same of an answer not yet read; neither
is inductive alone, since the return of a query makes the one out of the other. For the
asynchronous one answers are merged, in order, and `LatestInv` says which of three places has the last word: a query behind the request to listen, the last
answer on its way, or the cache. A merge of answers can only add, and the last one adds all that is current.

**MediaUv_proofs.** The C functions are operators from the client's memory to the memory they leave, nested as the calls are;
for each there is a lemma that it keeps `Good`, what must hold of the memory also in the middle of a callback, and then one for each callback
of the loop and each call of the application. `Good` has, next to the type and that the memory is not freed: `Piped`, that a pipe which is
neither the connection nor the event pipe is closing, and then a later one connects or is open, which with `Polled` gives
`ReleasedLast` (the proxy is freed by the close callback of its last pipe); `Memory`, that no queue has a message twice, that a write not yet
reported is neither written nor freed, and that what the proxy has queued is in nothing else; `Linked`, that while the proxy connects only its own
"open" may be written, once, and there is no event pipe; `Ordered`, that the numbers grow along the wire and the queue of the proxy, and
that what waits is younger than what is on the wire. `NoUseAfterFree` and `OrderKept` are parts of it. `ReleasedLast` needs the loop's order, and the
theorems exclude `EarlyConnect`, with which it fails (section 3). For `AnswersPaired`, `Paired` says that what waits for an
answer (`sentq`) is what the answers on their way belong to, followed by what on the wire will be answered (`Acked`);
it is carried through the loop that sends what was queued by a least counterexample, since the loop and `Acked` are recursive functions. `Quiet`
(without a flag nothing is queued) holds only between callbacks, and is why a send that is not queued may go to the wire at once.

**UvStream_proofs.** The actions of `UvStream` are compositions of C functions, operators from a stream to the stream they leave,
that call each other and the application in the middle; so the proof goes along them. For each function there is a lemma on what it
changes, and one that says it keeps `Good`, the invariant of a stream at any moment, also in the middle of a handler;
the lemma on an action puts them together, and `Closed` (what close has ended stays ended) is added where a handler returns. `Good` has,
next to the type: `Links`, that stream and focus point to each other; `Plays`, that `on_play` is either still in the focus, or in one
"play" of the queue, or was called; `Pipes`, that every prepare was called but the one that waits; `Released`, that a freed stream has nothing beside it;
`Closing`, that only who closes gives up the connection; `Bare`, that a picture has no objects. `StreamOutlivesCallbacks` needs all of them: that a
callback finds the memory is `Released`, that `media_uv_stream_release` comes when nothing is left is what `expected`, the listeners and the focus say together,
and a focus that outlives the stream must have been detached, which is `Links`. `CallbacksOnce` is `Plays` and `Pipes`. With `"requery"` or `"reenter"` among the `Faults`
the properties do not hold (section 3), and the theorems exclude just these.

Assumptions, all evaluated by the runs: positive sizes; null is not a client, number, callback record, filter or context; a matrix of suggestions
(`MediaFocus`); the data threads of an application are finitely many, a free descriptor is in no use (`MediaIO`); filters are named by finitely many indices, commands are of the given kinds, and a rule of the policy sets parameters and never opens or closes a context, as in
the platform's settings (`MediaGraph`). In `ParcelRpc`, arguments and responses are null or texts with at least one character (an empty string is
written like the null pointer and read as one), and of `arg` and `apply` a request has what the format of its component carries: the options
that `media_focus_dump` passes (`client/media_focus.c:116`) are not sent, since the format of the focus has no place for them. A handler that
succeeds gives a response when there is room for one: `media_proxy_once` copies it without a test (`client/media_proxy.c:425`).
In the session modules a text is null or a sequence of words with at least one, and null is neither a text, nor a
state, nor a call. In `UvStream` the CPUs and focus objects are
numbered and finitely many, and null is not a number.

Only model-checked:

- Liveness (`AbandonReleases`, `AbandonReturns`, `QueueMoves`, `CloseReleases`, `CloseComes`, `ClosedIsFreed`, `LastSaved`, `CallsReturn`,
  `PictureEnds`, the fairness of `Implements`): the prover has no rules for fairness.

## 5. Not modelled

- The poll table of `media_server.c` and `media_daemon.c`: its sizes are compile-time constants far
  above what a model can have; what its bounds allow is under "hazards".
- Socket addresses, logging, dump commands, the loop over the CPUs in `media_proxy`, signals, running
  out of memory.
- In the session model, clients that die (the server has no step for them), the data race on the texts
  of the cache, and the limits of the text buffers.
- In `MediaUv`, errors of `uv_accept`, answers that arrive in parts and writes that wait for room in the socket.
- What the build leaves out on one platform or the other: asynchronous clients without RPMSG for other CPUs (the `-ENOSYS` of
  `client/media_uv.c:397` and the `continue` in the loop that listens).
- In `MediaGraph`, loading the graph from its description, commands sent to the graph itself or to another filter on the link by
  name, and the "close" that a filter is sent when it refuses "set_event" (for its client it is an open that fails); filters
  and the parameter framework are not in the repository and appear as what the code needs of them (external in the map).
- In `MediaParcel`, 64-bit and floating-point fields.
- The policy calls of an asynchronous application (one request each), DTMF synthesis (arithmetic), the tools
  and the bindings (no protocol of their own).

## 6. Plan

1. `SessionServer`: `MediaSession` with `ServerConn`, to say what a controllee that dies costs.
2. An abstract specification of the focus service (who plays) refined by `MediaFocus`.
