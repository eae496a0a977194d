-------------------------- MODULE MediaGraph_proofs --------------------------
(***************************************************************************)
(* Players, their contexts and their commands, for every number of clients *)
(* and filters, every rule of the policy and every length of the queue.    *)
(***************************************************************************)
EXTENDS MediaGraph, SequenceTheorems, TLAPS

(***************************************************************************)
(* What the operations of media_server.c do to an entry of the connection  *)
(* table, field by field; the proofs below cite these facts in place of    *)
(* the definitions.                                                        *)
(***************************************************************************)

\* A table that was just created.
LEMMA ZeroConnFields ==
    ASSUME NEW H
    PROVE  ZeroConn \in ConnType(H) /\ ZeroConn.tran_fd = NULL /\ ~ Open(ZeroConn.notify_fd)
BY FdAssumption DEF ZeroConn, ConnType, Open

\* Accepting a client leaves the event socket as it was.
LEMMA ConnInitFields ==
    ASSUME NEW H, NEW conn \in ConnType(H), NEW c \in Clients
    PROVE  LET new == media_server_conn_init(conn, c)
           IN  /\ new \in ConnType(H) /\ new.tran_fd = c
               /\ new.notify_fd = conn.notify_fd /\ new.data = NULL
BY DEF media_server_conn_init, ConnType

LEMMA ConnCloseFields ==
    ASSUME NEW H, NEW conn \in ConnType(H)
    PROVE  LET new == media_server_conn_close(conn)
           IN  /\ new \in ConnType(H) /\ new.tran_fd = CLOSED
               /\ new.notify_fd = conn.notify_fd /\ new.data = conn.data
BY DEF media_server_conn_close, ConnType

LEMMA CreateNotifyFields ==
    ASSUME NEW H, NEW conn \in ConnType(H), NEW c \in Clients, NEW ok \in BOOLEAN
    PROVE  LET new == media_server_create_notify(conn, c, ok)
           IN  /\ new \in ConnType(H) /\ new.tran_fd = conn.tran_fd /\ new.data = conn.data
               /\ ok => new.notify_fd = c
               /\ ~ ok => new.notify_fd = NULL
BY DEF media_server_create_notify, ConnType

\* The two sockets are given up apart from each other: the client's stays.
LEMMA FinalizeFields ==
    ASSUME NEW H, NEW conn \in ConnType(H)
    PROVE  LET new == media_server_finalize(conn)
           IN  /\ new \in ConnType(H) /\ new.tran_fd = conn.tran_fd
               /\ new.notify_fd = NULL
               /\ Open(conn.notify_fd) => new.data = NULL
               /\ ~ Open(conn.notify_fd) => new = conn
BY FdAssumption DEF media_server_finalize, ConnType, Open

LEMMA SetDataFields ==
    ASSUME NEW H, NEW conn \in ConnType(H), NEW d \in H \cup {NULL}
    PROVE  LET new == media_server_set_data(conn, d)
           IN  /\ new \in ConnType(H) /\ new.data = d
               /\ new.tran_fd = conn.tran_fd /\ new.notify_fd = conn.notify_fd
BY DEF media_server_set_data, ConnType

\* An entry for a new client has nobody at its end; one that was closed
\* has no event socket either, so the events of its last client are over.
LEMMA AcceptEntryFree ==
    ASSUME NEW H, NEW table \in [Cookies -> ConnType(H)], NEW k \in AcceptEntry(table)
    PROVE  /\ k \in Cookies /\ ~ Open(table[k].tran_fd)
           /\ table[k].tran_fd = NULL \/ ~ Open(table[k].notify_fd)
BY FdAssumption DEF AcceptEntry, Available, Open

\* A parcel reaches the client at the other end of the event socket, or nobody.
LEMMA NotifyReaches ==
    ASSUME NEW conn, NEW c, conn.notify_fd = c
    PROVE  media_server_notify(conn) \subseteq {c}
BY DEF media_server_notify

-----------------------------------------------------------------------------

(***************************************************************************)
(* That a filter with something to report has a context is not inductive:  *)
(* the context is freed with the report of the close, so nothing of its    *)
(* client may follow the close, in the filter's worker, in its reports or  *)
(* among the commands that wait; and that is so because a client that      *)
(* closed gives no more commands, and commands stay in their order.        *)
(***************************************************************************)

Slow == {"start", "pause", "close"}
Events == {"STARTED", "STARTED with an error", "PAUSED", "CLOSED"}

ClientTypes ==
    /\ conns \in [Cookies -> ConnType(Ctxs)]
    /\ ctxs \in [Ctxs -> Ctx0 \cup {NULL}] /\ opaque \in [Filters -> Ctxs \cup {NULL}]
    /\ life \in [Clients -> {"new", "connected", "open", "listening", "closing", "gone"}]
    /\ entry \in [Clients -> Cookies \cup {NULL}] /\ given \in [Clients -> Nat]

PipeTypes ==
    /\ todo \in [Filters -> Seq(Slow)] /\ status \in [Filters -> Seq(Events)]
    /\ queue \in Seq(Commands) /\ done \in [Filters -> Seq(Nat)]

LoopTypes ==
    /\ active \in SUBSET Filters /\ phase \in {"poll", "run", "drain"} /\ wake \in BOOLEAN
    /\ deaf \in SUBSET Clients

\* A filter that is taken and its context name each other.
Linked ==
    /\ \A f \in Filters : opaque[f] # NULL => ctxs[opaque[f]] # NULL /\ ctxs[opaque[f]].filter = f
    /\ \A x \in Ctxs : ctxs[x] # NULL => opaque[ctxs[x].filter] = x

\* A client that is connected is the one at the other end of its entry.
EntryOwn ==
    \A c \in Clients : life[c] \notin {"new", "gone"} =>
        entry[c] \in Cookies /\ conns[entry[c]].tran_fd = c

\* A client has one context, from its open on.
OneCtx ==
    /\ \A x \in Ctxs : ctxs[x] # NULL => life[ctxs[x].owner] \notin {"new", "connected"}
    /\ \A x, y \in Ctxs : ctxs[x] # NULL /\ ctxs[y] # NULL /\ ctxs[x].owner = ctxs[y].owner => x = y

\* Before its open a client has given no command.
NothingGiven == \A c \in Clients : life[c] \in {"new", "connected"} => given[c] = 0

\* While a client may give commands, the data of its connection is its context
\* or, when somebody else has finalized the connection, nothing.
DataOwn ==
    \A c \in Clients : life[c] \in {"open", "listening"} /\ Ctx(c) # NULL =>
        ctxs[Ctx(c)] # NULL /\ ctxs[Ctx(c)].owner = c

\* Commands of clients that wait for filter f.
Waits(i, f) == queue[i].filter = f /\ queue[i].n # 0

\* Work for a filter, under way or waiting, is work for the one who took it.
BusyTaken ==
    \A f \in Filters :
        (todo[f] # <<>> \/ status[f] # <<>> \/ \E i \in DOMAIN queue : Waits(i, f)) => opaque[f] # NULL

\* What the policy has asked for is nothing that is reported.
PolicyQueued == \A i \in DOMAIN queue : queue[i].n = 0 => queue[i].cmd \in Silent

\* Its client gives no more commands.
Ends(f) == life[ctxs[opaque[f]].owner] \in {"closing", "gone"}

\* Wherever the close of a filter is, its client's other commands are ahead.
ReportedLast ==
    \A f \in Filters : \A i \in DOMAIN status[f] : status[f][i] = "CLOSED" =>
        /\ i = Len(status[f]) /\ todo[f] = <<>> /\ Ends(f)
        /\ \A j \in DOMAIN queue : ~ Waits(j, f)

WorkedLast ==
    \A f \in Filters : \A i \in DOMAIN todo[f] : todo[f][i] = "close" =>
        /\ i = Len(todo[f]) /\ Ends(f)
        /\ \A j \in DOMAIN queue : ~ Waits(j, f)

QueuedLast ==
    \A i \in DOMAIN queue : queue[i].cmd = "close" =>
        /\ queue[i].n # 0 /\ Ends(queue[i].filter)
        /\ \A j \in DOMAIN queue : j > i => ~ Waits(j, queue[i].filter)

\* The commands of its client that a filter was given are numbered from one.
Numbered == \A f \in Filters : \A i \in DOMAIN done[f] : done[f][i] = i

\* The commands of a client that wait are the ones that follow the last its
\* filter was given, in their order and without a gap ...
QueueInOrder ==
    \A i \in DOMAIN queue : queue[i].n # 0 =>
        /\ queue[i].n > Len(done[queue[i].filter])
        /\ \A j \in DOMAIN queue : j < i /\ Waits(j, queue[i].filter) => queue[j].n < queue[i].n
        /\ queue[i].n # Len(done[queue[i].filter]) + 1 =>
              \E j \in DOMAIN queue : j < i /\ Waits(j, queue[i].filter) /\ queue[j].n = queue[i].n - 1

\* ... up to the last it gave, while it may give more.
QueueComplete ==
    \A f \in Filters : opaque[f] # NULL /\ ~ Ends(f) =>
        LET last == given[ctxs[opaque[f]].owner]
        IN  /\ last >= Len(done[f])
            /\ \A i \in DOMAIN queue : Waits(i, f) => queue[i].n <= last
            /\ last # Len(done[f]) => \E i \in DOMAIN queue : Waits(i, f) /\ queue[i].n = last

ClientInv == ClientTypes /\ Linked /\ EntryOwn /\ OneCtx /\ NothingGiven /\ DataOwn
CloseLast == ReportedLast /\ WorkedLast /\ QueuedLast
PipeInv == PipeTypes /\ PolicyQueued /\ BusyTaken /\ CloseLast
OrderInv == Numbered /\ QueueInOrder /\ QueueComplete

GraphInv == ClientInv /\ PipeInv /\ OrderInv /\ LoopTypes

-----------------------------------------------------------------------------
(* Facts about the state                                                   *)

LEMMA CtxFields ==
    ASSUME ClientTypes, NEW x \in Ctxs, ctxs[x] # NULL
    PROVE  /\ ctxs[x].filter \in Filters /\ ctxs[x].cookie \in Cookies \cup {NULL}
           /\ ctxs[x].event \in BOOLEAN /\ ctxs[x].owner \in Clients
BY DEF ClientTypes, Ctx0

\* The context of a filter that is taken.
LEMMA TakenFields ==
    ASSUME ClientTypes, Linked, NEW f \in Filters, opaque[f] # NULL
    PROVE  /\ opaque[f] \in Ctxs /\ ctxs[opaque[f]] # NULL /\ ctxs[opaque[f]].filter = f
           /\ ctxs[opaque[f]].owner \in Clients
BY CtxFields DEF ClientTypes, Linked

\* What a client that may give commands finds in the data of its connection.
LEMMA CtxOwned ==
    ASSUME ClientInv, NEW c \in Clients, life[c] \in {"open", "listening"}, Ctx(c) # NULL
    PROVE  /\ entry[c] \in Cookies /\ conns[entry[c]] \in ConnType(Ctxs)
           /\ conns[entry[c]].tran_fd = c /\ conns[entry[c]].data = Ctx(c)
           /\ Ctx(c) \in Ctxs /\ ctxs[Ctx(c)] # NULL /\ ctxs[Ctx(c)].owner = c
           /\ ctxs[Ctx(c)].filter \in Filters /\ opaque[ctxs[Ctx(c)].filter] = Ctx(c)
           /\ ~ Ends(ctxs[Ctx(c)].filter)
<1>1. entry[c] \in Cookies /\ conns[entry[c]] \in ConnType(Ctxs) /\ conns[entry[c]].tran_fd = c
  BY DEF ClientInv, ClientTypes, EntryOwn
<1>2. conns[entry[c]].data = Ctx(c) /\ Ctx(c) \in Ctxs
  BY <1>1 DEF Ctx, media_server_get_data, ConnType
<1>3. ctxs[Ctx(c)] # NULL /\ ctxs[Ctx(c)].owner = c
  BY DEF ClientInv, DataOwn
<1> HIDE DEF Ctx
<1>4. ctxs[Ctx(c)].filter \in Filters /\ opaque[ctxs[Ctx(c)].filter] = Ctx(c)
  BY <1>2, <1>3, CtxFields DEF ClientInv, Linked
<1>5. ~ Ends(ctxs[Ctx(c)].filter)
  BY <1>3, <1>4 DEF Ends
<1>6. QED
  BY <1>1, <1>2, <1>3, <1>4, <1>5

LEMMA QueueFields ==
    ASSUME PipeTypes, NEW i \in DOMAIN queue
    PROVE  /\ queue[i] \in Commands /\ queue[i].filter \in Filters /\ queue[i].n \in Nat
           /\ queue[i].cmd \in Slow \cup Silent
<1>1. queue[i] \in Commands
  BY DEF PipeTypes
<1>2. QED
  BY <1>1 DEF Commands, Slow, Silent

\* A table in which one entry has changed.
LEMMA OneEntry ==
    ASSUME conns \in [Cookies -> ConnType(Ctxs)],
           NEW k \in Cookies, NEW new \in ConnType(Ctxs), conns' = [conns EXCEPT ![k] = new]
    PROVE  /\ conns' \in [Cookies -> ConnType(Ctxs)] /\ conns'[k] = new
           /\ \A j \in Cookies \ {k} : conns'[j] = conns[j]
OBVIOUS

LEMMA FiltersOf == \A i \in 1 .. Len(FilterSeq) : FilterSeq[i] \in Filters
BY FiltersAssumption

LEMMA PolicyAsks ==
    ASSUME NEW now \in SUBSET Filters, PolicyCommand(now) # NULL
    PROVE  PolicyCommand(now).target \in Filters /\ PolicyCommand(now).cmd = "volume"
BY PolicyCommandAssumption DEF Silent

-----------------------------------------------------------------------------
(* What most steps do to the commands: nothing                             *)

\* Nobody's context changes hands, and who has ended does not begin again.
CtxsKept == \A x \in Ctxs : ctxs[x] # NULL => ctxs'[x] # NULL /\ ctxs'[x].owner = ctxs[x].owner
LivesOn == \A c \in Clients : life[c] \in {"closing", "gone"} => life'[c] \in {"closing", "gone"}

LEMMA EndsKept ==
    ASSUME ClientTypes, Linked, CtxsKept, LivesOn,
           NEW f \in Filters, opaque[f] # NULL, opaque'[f] = opaque[f], Ends(f)
    PROVE  Ends(f)'
BY TakenFields DEF CtxsKept, LivesOn, Ends

LEMMA PipeKept ==
    ASSUME ClientTypes, Linked, PipeInv, CtxsKept, LivesOn, UNCHANGED <<todo, status, queue, done, opaque>>
    PROVE  PipeInv'
<1>1. \A f \in Filters : opaque[f] # NULL /\ Ends(f) => Ends(f)'
  BY EndsKept
<1> HIDE DEF Ends
<1>2. PipeTypes' /\ PolicyQueued' /\ BusyTaken'
  BY DEF PipeInv, PipeTypes, PolicyQueued, BusyTaken, Waits
<1>3. ReportedLast'
  <2> SUFFICES ASSUME NEW f \in Filters, NEW i \in DOMAIN status[f], status[f][i] = "CLOSED"
               PROVE  /\ i = Len(status[f]) /\ todo[f] = <<>> /\ Ends(f)'
                      /\ \A j \in DOMAIN queue : ~ Waits(j, f)
    BY DEF ReportedLast, Waits
  <2>1. status[f] # <<>>
    BY DEF PipeInv, PipeTypes
  <2>2. QED
    BY <1>1, <2>1 DEF PipeInv, CloseLast, ReportedLast, BusyTaken
<1>4. WorkedLast'
  <2> SUFFICES ASSUME NEW f \in Filters, NEW i \in DOMAIN todo[f], todo[f][i] = "close"
               PROVE  /\ i = Len(todo[f]) /\ Ends(f)'
                      /\ \A j \in DOMAIN queue : ~ Waits(j, f)
    BY DEF WorkedLast, Waits
  <2>1. todo[f] # <<>>
    BY DEF PipeInv, PipeTypes
  <2>2. QED
    BY <1>1, <2>1 DEF PipeInv, CloseLast, WorkedLast, BusyTaken
<1>5. QueuedLast'
  <2> SUFFICES ASSUME NEW i \in DOMAIN queue, queue[i].cmd = "close"
               PROVE  /\ queue[i].n # 0 /\ Ends(queue[i].filter)'
                      /\ \A j \in DOMAIN queue : j > i => ~ Waits(j, queue[i].filter)
    BY DEF QueuedLast, Waits, Ends
  <2>1. queue[i].n # 0 /\ Ends(queue[i].filter)
        /\ \A j \in DOMAIN queue : j > i => ~ Waits(j, queue[i].filter)
    BY DEF PipeInv, CloseLast, QueuedLast
  <2>2. queue[i].filter \in Filters
    BY QueueFields DEF PipeInv
  <2>3. Waits(i, queue[i].filter)
    BY <2>1 DEF Waits
  <2>4. opaque[queue[i].filter] # NULL
    BY <2>2, <2>3 DEF PipeInv, BusyTaken
  <2>5. QED
    BY <1>1, <2>1, <2>2, <2>4
<1>6. QED
  BY <1>2, <1>3, <1>4, <1>5 DEF PipeInv, CloseLast

LEMMA OrderKept ==
    ASSUME ClientTypes, Linked, OrderInv, CtxsKept, LivesOn, UNCHANGED <<queue, done, opaque>>,
           \A c \in Clients : life'[c] \notin {"closing", "gone"} => given'[c] = given[c]
    PROVE  OrderInv'
<1>1. QueueInOrder'
  BY DEF OrderInv, QueueInOrder, Waits
<1>2. QueueComplete'
  <2> SUFFICES ASSUME NEW f \in Filters, opaque[f] # NULL, ~ Ends(f)'
               PROVE  LET last == given'[ctxs'[opaque[f]].owner]
                      IN  /\ last >= Len(done[f])
                          /\ \A i \in DOMAIN queue : Waits(i, f) => queue[i].n <= last
                          /\ last # Len(done[f]) => \E i \in DOMAIN queue : Waits(i, f) /\ queue[i].n = last
    BY DEF QueueComplete, Waits
  <2>1. ~ Ends(f)
    BY EndsKept
  <2>2. ctxs'[opaque[f]].owner = ctxs[opaque[f]].owner /\ ctxs[opaque[f]].owner \in Clients
    BY TakenFields DEF CtxsKept
  <2>3. given'[ctxs'[opaque[f]].owner] = given[ctxs[opaque[f]].owner]
    BY <2>2 DEF Ends
  <2>4. QED
    BY <2>1, <2>3 DEF OrderInv, QueueComplete
<1>3. QED
  BY <1>1, <1>2 DEF OrderInv, Numbered

-----------------------------------------------------------------------------
(* A client gives a command                                                *)

\* The command waits behind the others.
LEMMA GiveQueued ==
    ASSUME ClientTypes, Linked, OneCtx, PipeInv, OrderInv, CtxsKept, LivesOn,
           NEW f \in Filters, opaque[f] # NULL, ~ Ends(f),
           NEW m \in Commands, m.filter = f, m.n = given[ctxs[opaque[f]].owner] + 1,
           m.cmd = "close" => Ends(f)',
           ~ Ends(f)' => given'[ctxs[opaque[f]].owner] = m.n,
           \A c \in Clients \ {ctxs[opaque[f]].owner} : life'[c] = life[c] /\ given'[c] = given[c],
           queue' = Append(queue, m), UNCHANGED <<todo, status, done, opaque>>
    PROVE  PipeInv' /\ OrderInv'
<1> DEFINE c == ctxs[opaque[f]].owner
<1>1. PICK n \in Nat \ {0} :
         /\ DOMAIN queue = 1 .. n - 1 /\ DOMAIN queue' = 1 .. n
         /\ queue'[n] = m /\ \A i \in DOMAIN queue : queue'[i] = queue[i]
  <2> DEFINE n == Len(queue) + 1
  <2>1. /\ n \in Nat \ {0} /\ DOMAIN queue = 1 .. n - 1 /\ DOMAIN queue' = 1 .. n
        /\ queue'[n] = m /\ \A i \in DOMAIN queue : queue'[i] = queue[i]
    BY DEF PipeInv, PipeTypes
  <2>2. QED
    BY <2>1
<1>2. c \in Clients /\ m.n \in Nat \ {0} /\ m.n = given[c] + 1 /\ given[c] \in Nat
  BY TakenFields DEF ClientTypes
<1>3. PipeTypes' /\ PolicyQueued'
  BY <1>1, <1>2 DEF PipeInv, PipeTypes, PolicyQueued
<1>4. \A g \in Filters : opaque[g] # NULL /\ Ends(g) => Ends(g)'
  BY EndsKept
<1>5. \A i \in DOMAIN queue : \A g : Waits(i, g)' <=> Waits(i, g)
  BY <1>1 DEF Waits
<1>6. \A g : Waits(n, g)' <=> g = f
  BY <1>1, <1>2 DEF Waits
<1>7. \A i \in DOMAIN queue : Waits(i, f) => queue[i].n <= given[c]
  BY DEF OrderInv, QueueComplete
<1>8. BusyTaken'
  BY <1>1, <1>5, <1>6 DEF PipeInv, BusyTaken
<1>9. ReportedLast'
  <2> SUFFICES ASSUME NEW g \in Filters, NEW i \in DOMAIN status[g], status[g][i] = "CLOSED"
               PROVE  /\ i = Len(status[g]) /\ todo[g] = <<>> /\ Ends(g)'
                      /\ \A j \in DOMAIN queue' : ~ Waits(j, g)'
    BY DEF ReportedLast
  <2>1. /\ i = Len(status[g]) /\ todo[g] = <<>> /\ Ends(g) /\ status[g] # <<>>
        /\ \A j \in DOMAIN queue : ~ Waits(j, g)
    BY DEF PipeInv, PipeTypes, CloseLast, ReportedLast
  <2>2. opaque[g] # NULL /\ g # f
    BY <2>1 DEF PipeInv, BusyTaken
  <2>3. QED
    BY <1>1, <1>4, <1>5, <1>6, <2>1, <2>2
<1>10. WorkedLast'
  <2> SUFFICES ASSUME NEW g \in Filters, NEW i \in DOMAIN todo[g], todo[g][i] = "close"
               PROVE  /\ i = Len(todo[g]) /\ Ends(g)'
                      /\ \A j \in DOMAIN queue' : ~ Waits(j, g)'
    BY DEF WorkedLast
  <2>1. /\ i = Len(todo[g]) /\ Ends(g) /\ todo[g] # <<>>
        /\ \A j \in DOMAIN queue : ~ Waits(j, g)
    BY DEF PipeInv, PipeTypes, CloseLast, WorkedLast
  <2>2. opaque[g] # NULL /\ g # f
    BY <2>1 DEF PipeInv, BusyTaken
  <2>3. QED
    BY <1>1, <1>4, <1>5, <1>6, <2>1, <2>2
<1>11. QueuedLast'
  <2> SUFFICES ASSUME NEW i \in DOMAIN queue', queue'[i].cmd = "close"
               PROVE  /\ queue'[i].n # 0 /\ Ends(queue[i].filter)'
                      /\ \A j \in DOMAIN queue' : j > i => ~ Waits(j, queue[i].filter)'
    BY DEF QueuedLast, Ends, Waits
  <2>1. CASE i = n
    BY <1>1, <1>2, <2>1
  <2>2. CASE i \in DOMAIN queue
    <3>1. /\ queue[i].n # 0 /\ Ends(queue[i].filter) /\ queue[i].filter \in Filters
          /\ \A j \in DOMAIN queue : j > i => ~ Waits(j, queue[i].filter)
      BY <1>1, <2>2, QueueFields DEF PipeInv, CloseLast, QueuedLast
    <3>2. opaque[queue[i].filter] # NULL /\ queue[i].filter # f
      BY <2>2, <3>1 DEF PipeInv, BusyTaken, Waits
    <3>3. QED
      BY <1>1, <1>4, <1>5, <1>6, <2>2, <3>1, <3>2
  <2>3. QED
    BY <1>1, <2>1, <2>2
<1>12. QueueInOrder'
  <2> SUFFICES ASSUME NEW i \in DOMAIN queue', queue'[i].n # 0
               PROVE  /\ queue'[i].n > Len(done[queue'[i].filter])
                      /\ \A j \in DOMAIN queue' : j < i /\ Waits(j, queue[i].filter)' => queue'[j].n < queue'[i].n
                      /\ queue'[i].n # Len(done[queue'[i].filter]) + 1 =>
                            \E j \in DOMAIN queue' : j < i /\ Waits(j, queue[i].filter)'
                                                     /\ queue'[j].n = queue'[i].n - 1
    BY DEF QueueInOrder, Waits
  <2>1. CASE i \in DOMAIN queue
    <3>1. /\ queue[i].n > Len(done[queue[i].filter])
          /\ \A j \in DOMAIN queue : j < i /\ Waits(j, queue[i].filter) => queue[j].n < queue[i].n
          /\ queue[i].n # Len(done[queue[i].filter]) + 1 =>
                \E j \in DOMAIN queue : j < i /\ Waits(j, queue[i].filter) /\ queue[j].n = queue[i].n - 1
      BY <1>1, <2>1 DEF OrderInv, QueueInOrder
    <3>2. \A j \in DOMAIN queue' : j < i => j \in DOMAIN queue
      BY <1>1, <2>1
    <3>3. QED
      BY <1>1, <1>5, <2>1, <3>1, <3>2
  <2>2. CASE i = n
    <3>1. Len(done[f]) \in Nat /\ given[c] >= Len(done[f])
      BY DEF OrderInv, QueueComplete, PipeInv, PipeTypes
    <3>2. \A j \in DOMAIN queue : Waits(j, f) => queue[j].n \in Nat /\ queue[j].n < m.n
      BY <1>2, <1>7, QueueFields DEF PipeInv
    <3>3. m.n # Len(done[f]) + 1 => \E j \in DOMAIN queue : Waits(j, f) /\ queue[j].n = m.n - 1
      BY <1>2, <3>1, SMTT(60) DEF OrderInv, QueueComplete
    <3>4. \A j \in DOMAIN queue : j < n /\ j \in DOMAIN queue' /\ j # n
      BY <1>1
    <3>5. \A j \in DOMAIN queue' : j < n => j \in DOMAIN queue
      BY <1>1
    <3>6. queue'[i] = m /\ m.filter = f
      BY <1>1, <2>2
    <3>7. m.n > Len(done[f])
      BY <1>2, <3>1
    <3>8. \A j \in DOMAIN queue' : j < n /\ Waits(j, f)' => queue'[j].n < m.n
      BY <1>1, <1>5, <3>2, <3>5
    <3>9. m.n # Len(done[f]) + 1 => \E j \in DOMAIN queue' : j < n /\ Waits(j, f)' /\ queue'[j].n = m.n - 1
      BY <1>1, <1>5, <3>3, <3>4
    <3>10. queue[i].filter' = f
      BY <3>6
    <3>11. QED
      BY <2>2, <3>6, <3>7, <3>8, <3>9, <3>10 DEF Waits
  <2>3. QED
    BY <1>1, <2>1, <2>2
<1>13. QueueComplete'
  <2> SUFFICES ASSUME NEW g \in Filters, opaque[g] # NULL, ~ Ends(g)'
               PROVE  LET last == given'[ctxs'[opaque[g]].owner]
                      IN  /\ last >= Len(done[g])
                          /\ \A i \in DOMAIN queue' : Waits(i, g)' => queue'[i].n <= last
                          /\ last # Len(done[g]) => \E i \in DOMAIN queue' : Waits(i, g)' /\ queue'[i].n = last
    BY DEF QueueComplete
  <2>1. ctxs'[opaque[g]].owner = ctxs[opaque[g]].owner /\ ctxs[opaque[g]].owner \in Clients
    BY TakenFields DEF CtxsKept
  <2>2. /\ given[ctxs[opaque[g]].owner] >= Len(done[g])
        /\ \A i \in DOMAIN queue : Waits(i, g) => queue[i].n <= given[ctxs[opaque[g]].owner]
        /\ given[ctxs[opaque[g]].owner] # Len(done[g]) =>
              \E i \in DOMAIN queue : Waits(i, g) /\ queue[i].n = given[ctxs[opaque[g]].owner]
    BY <1>4 DEF OrderInv, QueueComplete
  <2>3. CASE g = f
    <3>1. given'[ctxs'[opaque[g]].owner] = m.n
      BY <2>1, <2>3
    <3>2. Len(done[f]) \in Nat /\ m.n >= Len(done[f])
      BY <1>2, <2>2, <2>3 DEF PipeInv, PipeTypes
    <3>3. \A i \in DOMAIN queue : Waits(i, f) => queue[i].n \in Nat /\ queue[i].n <= m.n
      BY <1>2, <1>7, QueueFields DEF PipeInv
    <3>4. n \in DOMAIN queue' /\ Waits(n, f)' /\ queue'[n].n = m.n
      BY <1>1, <1>6
    <3>5. \A i \in DOMAIN queue' : Waits(i, f)' => queue'[i].n <= m.n
      BY <1>1, <1>2, <1>5, <3>3
    <3>6. QED
      BY <2>3, <3>1, <3>2, <3>4, <3>5
  <2>4. CASE g # f
    <3>1. ctxs[opaque[g]].owner # c
      BY <2>4, TakenFields DEF OneCtx
    <3>2. given'[ctxs'[opaque[g]].owner] = given[ctxs[opaque[g]].owner]
      BY <2>1, <3>1
    <3>3. QED
      BY <1>1, <1>5, <1>6, <2>2, <2>4, <3>2
  <2>5. QED
    BY <2>3, <2>4
<1>14. QED
  BY <1>3, <1>8, <1>9, <1>10, <1>11, <1>12, <1>13 DEF PipeInv, CloseLast, OrderInv, Numbered

\* What a filter that was given a command has to do.
LEMMA FilterGiven ==
    ASSUME PipeTypes, NEW m \in Commands, NEW accepts \in BOOLEAN, avfilter_process_command(m, accepts)
    PROVE  /\ todo' \in [Filters -> Seq(Slow)] /\ done' \in [Filters -> Seq(Nat)]
           /\ \A g \in Filters : g # m.filter => todo'[g] = todo[g] /\ Len(done'[g]) = Len(done[g])
           /\ Len(done'[m.filter]) = IF m.n = 0 THEN Len(done[m.filter]) ELSE Len(done[m.filter]) + 1
           /\ Numbered /\ m.n \in {0, Len(done[m.filter]) + 1} => Numbered'
           /\ \/ todo'[m.filter] = todo[m.filter]
              \/ m.cmd \in Slow /\ todo'[m.filter] = Append(todo[m.filter], m.cmd)
           /\ m.cmd \in Silent => todo' = todo
           /\ m.n = 0 => done' = done
<1>1. m.filter \in Filters /\ m.n \in Nat /\ m.cmd \in Slow \cup Silent
  BY DEF Commands, Slow, Silent
<1>2. \/ todo' = todo
      \/ m.cmd \in Slow /\ todo' = [todo EXCEPT ![m.filter] = Append(todo[m.filter], m.cmd)]
  BY <1>1 DEF avfilter_process_command
<1>3. m.cmd \in Silent => todo' = todo
  BY DEF avfilter_process_command
<1>4. (m.n = 0 => done' = done) /\ (m.n # 0 => done' = [done EXCEPT ![m.filter] = Append(done[m.filter], m.n)])
  BY DEF avfilter_process_command
<1>5. todo' \in [Filters -> Seq(Slow)]
  <2>1. todo \in [Filters -> Seq(Slow)]
    BY DEF PipeTypes
  <2>2. CASE todo' = todo
    BY <2>1, <2>2
  <2>3. CASE m.cmd \in Slow /\ todo' = [todo EXCEPT ![m.filter] = Append(todo[m.filter], m.cmd)]
    <3>1. Append(todo[m.filter], m.cmd) \in Seq(Slow)
      BY <1>1, <2>1, <2>3
    <3>2. QED
      BY <1>1, <2>1, <2>3, <3>1
  <2>4. QED
    BY <1>2, <2>2, <2>3
<1>6. \A g \in Filters : g # m.filter => todo'[g] = todo[g]
  BY <1>2 DEF PipeTypes
<1>7. \/ todo'[m.filter] = todo[m.filter]
      \/ m.cmd \in Slow /\ todo'[m.filter] = Append(todo[m.filter], m.cmd)
  BY <1>1, <1>2 DEF PipeTypes
<1>8. /\ done' \in [Filters -> Seq(Nat)] /\ \A g \in Filters : g # m.filter => done'[g] = done[g]
      /\ m.n # 0 => done'[m.filter] = Append(done[m.filter], m.n)
      /\ m.n = 0 => done' = done
  <2>1. Append(done[m.filter], m.n) \in Seq(Nat) /\ done \in [Filters -> Seq(Nat)]
    BY <1>1 DEF PipeTypes
  <2>2. QED
    BY <1>1, <1>4, <2>1
<1>9. /\ \A g \in Filters : g # m.filter => Len(done'[g]) = Len(done[g])
      /\ Len(done'[m.filter]) = IF m.n = 0 THEN Len(done[m.filter]) ELSE Len(done[m.filter]) + 1
  <2>1. \A g \in Filters : g # m.filter => Len(done'[g]) = Len(done[g])
    BY <1>8
  <2>2. done[m.filter] \in Seq(Nat)
    BY <1>1 DEF PipeTypes
  <2>3. Len(Append(done[m.filter], m.n)) = Len(done[m.filter]) + 1
    BY <1>1, <2>2
  <2>4. Len(done'[m.filter]) = IF m.n = 0 THEN Len(done[m.filter]) ELSE Len(done[m.filter]) + 1
    <3>1. CASE m.n = 0
      BY <1>8, <3>1
    <3>2. CASE m.n # 0
      BY <1>8, <2>3, <3>2
    <3>3. QED
      BY <3>1, <3>2
  <2>5. QED
    BY <2>1, <2>4
<1>10. ASSUME Numbered, m.n \in {0, Len(done[m.filter]) + 1}
       PROVE  Numbered'
  <2>1. CASE m.n = 0
    BY <1>8, <1>10, <2>1 DEF Numbered
  <2>2. CASE m.n = Len(done[m.filter]) + 1 /\ m.n # 0
    <3>1. done[m.filter] \in Seq(Nat) /\ done'[m.filter] = Append(done[m.filter], m.n)
      BY <1>1, <1>8, <2>2 DEF PipeTypes
    <3>2. \A i \in DOMAIN done'[m.filter] :
             (i = m.n /\ done'[m.filter][i] = m.n) \/ (i \in DOMAIN done[m.filter] /\ done'[m.filter][i] = done[m.filter][i])
      BY <1>1, <2>2, <3>1
    <3>3. \A i \in DOMAIN done'[m.filter] : done'[m.filter][i] = i
      BY <1>1, <1>10, <3>2 DEF Numbered
    <3>4. QED
      BY <1>8, <1>10, <3>3 DEF Numbered
  <2>3. QED
    BY <1>10, <2>1, <2>2
<1>11. QED
  BY <1>3, <1>5, <1>6, <1>7, <1>8, <1>9, <1>10

\* A client's command that may have to wait has no result.
LEMMA NoQuery ==
    ASSUME NEW m \in Commands
    PROVE  m.cmd \notin Queries
BY DEF Commands, Queries

\* Nothing waits and nothing is under way: the filter has the command now.
LEMMA GiveDirect ==
    ASSUME ClientTypes, Linked, OneCtx, PipeInv, OrderInv, CtxsKept, LivesOn,
           NEW f \in Filters, opaque[f] # NULL, ~ Ends(f),
           NEW m \in Commands, m.filter = f, m.n = given[ctxs[opaque[f]].owner] + 1,
           m.cmd = "close" => Ends(f)',
           ~ Ends(f)' => given'[ctxs[opaque[f]].owner] = m.n,
           \A c \in Clients \ {ctxs[opaque[f]].owner} : life'[c] = life[c] /\ given'[c] = given[c],
           queue = <<>>, ~ ff_filter_graph_has_pending_status(status),
           NEW accepts \in BOOLEAN, avfilter_process_command(m, accepts),
           UNCHANGED <<queue, status, opaque>>
    PROVE  PipeInv' /\ OrderInv'
<1> DEFINE c == ctxs[opaque[f]].owner
<1>1. c \in Clients /\ m.n \in Nat \ {0} /\ m.n = given[c] + 1 /\ given[c] \in Nat
  BY TakenFields DEF ClientTypes
<1>2. DOMAIN queue = {} /\ \A g \in Filters : todo[g] = <<>> /\ status[g] = <<>>
  BY DEF ff_filter_graph_has_pending_status
<1>3. Len(done[f]) = given[c]
  BY <1>2 DEF OrderInv, QueueComplete
<1>4. /\ todo' \in [Filters -> Seq(Slow)] /\ done' \in [Filters -> Seq(Nat)]
      /\ \A g \in Filters : g # f => todo'[g] = todo[g] /\ Len(done'[g]) = Len(done[g])
      /\ Len(done'[f]) = m.n /\ Numbered'
      /\ todo'[f] = <<>> \/ (m.cmd \in Slow /\ todo'[f] = <<m.cmd>>)
  <2>1. Append(<<>>, m.cmd) = <<m.cmd>>
    OBVIOUS
  <2>2. QED
    BY <1>1, <1>2, <1>3, <2>1, FilterGiven DEF PipeInv, OrderInv
<1>5. PipeTypes' /\ PolicyQueued'
  BY <1>2, <1>4 DEF PipeInv, PipeTypes, PolicyQueued
<1>6. BusyTaken'
  BY <1>2, <1>4 DEF BusyTaken
<1>7. ReportedLast' /\ QueuedLast' /\ QueueInOrder'
  BY <1>2 DEF ReportedLast, QueuedLast, QueueInOrder
<1>8. WorkedLast'
  <2> SUFFICES ASSUME NEW g \in Filters, NEW i \in DOMAIN todo'[g], todo'[g][i] = "close"
               PROVE  i = Len(todo'[g]) /\ Ends(g)'
    BY <1>2 DEF WorkedLast
  <2>1. g = f /\ todo'[f] = <<m.cmd>>
    BY <1>2, <1>4
  <2>2. i = 1 /\ Len(todo'[g]) = 1 /\ m.cmd = "close"
    BY <2>1
  <2>3. QED
    BY <2>1, <2>2
<1>9. QueueComplete'
  <2> SUFFICES ASSUME NEW g \in Filters, opaque[g] # NULL, ~ Ends(g)'
               PROVE  given'[ctxs'[opaque[g]].owner] = Len(done'[g])
    BY <1>2, <1>4 DEF QueueComplete
  <2>1. ctxs'[opaque[g]].owner = ctxs[opaque[g]].owner /\ ctxs[opaque[g]].owner \in Clients
    BY TakenFields DEF CtxsKept
  <2>2. CASE g = f
    BY <1>4, <2>1, <2>2
  <2>3. CASE g # f
    <3>1. ctxs[opaque[g]].owner # c
      BY <2>3, TakenFields DEF OneCtx
    <3>2. ~ Ends(g)
      BY EndsKept
    <3>3. given[ctxs[opaque[g]].owner] = Len(done[g])
      BY <1>2, <3>2 DEF OrderInv, QueueComplete
    <3>4. QED
      BY <1>4, <2>1, <2>3, <3>1, <3>3, ZenonT(60)
  <2>4. QED
    BY <2>2, <2>3
<1>10. QED
  BY <1>1, <1>3, <1>4, <1>5, <1>6, <1>7, <1>8, <1>9 DEF PipeInv, CloseLast, OrderInv

LEMMA Given ==
    ASSUME ClientTypes, Linked, OneCtx, PipeInv, OrderInv, CtxsKept, LivesOn,
           NEW f \in Filters, opaque[f] # NULL, ~ Ends(f),
           NEW m \in Commands, m.filter = f, m.n = given[ctxs[opaque[f]].owner] + 1,
           m.cmd = "close" => Ends(f)',
           ~ Ends(f)' => given'[ctxs[opaque[f]].owner] = m.n,
           \A c \in Clients \ {ctxs[opaque[f]].owner} : life'[c] = life[c] /\ given'[c] = given[c],
           media_graph_queue_command(m, status), UNCHANGED <<status, opaque>>
    PROVE  PipeInv' /\ OrderInv'
<1>1. CASE queue' = Append(queue, m) /\ UNCHANGED <<todo, done>>
  BY <1>1, GiveQueued
<1>2. ASSUME NEW accepts \in BOOLEAN, avfilter_process_command(m, accepts), queue = <<>>,
             ~ ff_filter_graph_has_pending_status(status), queue' = queue
      PROVE  PipeInv' /\ OrderInv'
  BY <1>2, GiveDirect
<1>3. QED
  BY <1>1, <1>2, NoQuery DEF media_graph_queue_command

-----------------------------------------------------------------------------
(* The daemon takes up the first command that waits                        *)

LEMMA Dequeued ==
    ASSUME ClientInv, PipeInv, OrderInv, NEW accepts \in BOOLEAN, media_graph_dequeue_command(accepts)
    PROVE  PipeInv' /\ OrderInv'
<1>0. \A g \in Filters : todo[g] = <<>> /\ status[g] = <<>>
  BY DEF media_graph_dequeue_command, ff_filter_graph_has_pending_status
<1>1. /\ queue # <<>> /\ queue' = Tail(queue) /\ avfilter_process_command(Head(queue), accepts)
      /\ UNCHANGED <<conns, client_vars, ctxs, opaque, status>>
  BY DEF media_graph_dequeue_command
<1>2. PICK n \in Nat, m \in Commands :
         /\ DOMAIN queue = 1 .. n + 1 /\ DOMAIN queue' = 1 .. n
         /\ \A i \in 1 .. n : queue'[i] = queue[i + 1]
         /\ queue[1] = m /\ avfilter_process_command(m, accepts)
  <2> DEFINE n == Len(queue) - 1
  <2>1. n \in Nat /\ DOMAIN queue = 1 .. n + 1 /\ DOMAIN queue' = 1 .. n
        /\ (\A i \in 1 .. n : queue'[i] = queue[i + 1]) /\ queue[1] = Head(queue)
    BY <1>1 DEF PipeInv, PipeTypes
  <2>2. Head(queue) \in Commands
    BY <1>1 DEF PipeInv, PipeTypes
  <2>3. QED
    BY <1>1, <2>1, <2>2
<1>3. PICK f \in Filters : m.filter = f /\ m.n \in Nat
  BY DEF Commands
<1>4. queue' \in Seq(Commands)
  BY <1>1 DEF PipeInv, PipeTypes
<1>5. m.n # 0 => m.n = Len(done[f]) + 1
  BY <1>2, <1>3 DEF OrderInv, QueueInOrder
<1>6. /\ todo' \in [Filters -> Seq(Slow)] /\ done' \in [Filters -> Seq(Nat)]
      /\ \A g \in Filters : g # f => todo'[g] = todo[g] /\ Len(done'[g]) = Len(done[g])
      /\ Len(done'[f]) = IF m.n = 0 THEN Len(done[f]) ELSE m.n
      /\ todo'[f] = <<>> \/ (m.cmd \in Slow /\ todo'[f] = <<m.cmd>>)
      /\ m.cmd \in Silent => todo' = todo
      /\ Numbered'
  <2>1. Append(<<>>, m.cmd) = <<m.cmd>>
    OBVIOUS
  <2>2. QED
    BY <1>0, <1>2, <1>3, <1>5, <2>1, FilterGiven DEF PipeInv, OrderInv
<1>7. m.n = 0 => m.cmd \in Silent
  BY <1>2 DEF PipeInv, PolicyQueued
<1>8. \A i \in 1 .. n : i + 1 \in DOMAIN queue /\ \A g : Waits(i, g)' <=> Waits(i + 1, g)
  BY <1>2 DEF Waits
<1>9. PipeTypes' /\ PolicyQueued'
  <2>1. PipeTypes'
    BY <1>1, <1>4, <1>6 DEF PipeInv, PipeTypes
  <2>2. PolicyQueued'
    BY <1>2 DEF PipeInv, PolicyQueued
  <2>3. QED
    BY <2>1, <2>2
<1>10. ReportedLast'
  BY <1>0, <1>1 DEF ReportedLast
<1>11. QueuedLast'
  <2> SUFFICES ASSUME NEW i \in 1 .. n, queue'[i].cmd = "close"
               PROVE  /\ queue'[i].n # 0 /\ Ends(queue[i].filter)'
                      /\ \A j \in 1 .. n : j > i => ~ Waits(j, queue[i].filter)'
    BY <1>2 DEF QueuedLast
  <2>1. /\ queue[i + 1].n # 0 /\ Ends(queue[i + 1].filter)
        /\ \A j \in DOMAIN queue : j > i + 1 => ~ Waits(j, queue[i + 1].filter)
    BY <1>2, <1>8 DEF PipeInv, CloseLast, QueuedLast
  <2>2. Ends(queue[i].filter)'
    BY <1>1, <1>2, <2>1 DEF Ends, client_vars
  <2>3. \A j \in 1 .. n : j > i => j + 1 > i + 1 /\ j + 1 \in DOMAIN queue
    BY <1>2
  <2>4. QED
    BY <1>2, <1>8, <2>1, <2>2, <2>3
<1>12. QueueInOrder'
  <2> SUFFICES ASSUME NEW i \in 1 .. n, queue'[i].n # 0
               PROVE  /\ queue'[i].n > Len(done'[queue'[i].filter])
                      /\ \A j \in 1 .. n : j < i /\ Waits(j, queue[i].filter)' => queue'[j].n < queue'[i].n
                      /\ queue'[i].n # Len(done'[queue'[i].filter]) + 1 =>
                            \E j \in 1 .. n : j < i /\ Waits(j, queue[i].filter)'
                                               /\ queue'[j].n = queue'[i].n - 1
    BY <1>2 DEF QueueInOrder
  <2>1. PICK p \in Commands, g \in Filters :
           queue[i + 1] = p /\ queue'[i] = p /\ i + 1 \in DOMAIN queue /\ p.n \in Nat /\ p.filter = g /\ p.n # 0
    <3>1. i + 1 \in DOMAIN queue /\ queue'[i] = queue[i + 1] /\ queue[i + 1].n # 0
      BY <1>2
    <3>2. QED
      BY <3>1, QueueFields DEF PipeInv
  <2>2. /\ p.n > Len(done[g])
        /\ \A j \in DOMAIN queue : j < i + 1 /\ Waits(j, g) => queue[j].n < p.n
        /\ p.n # Len(done[g]) + 1 =>
              \E j \in DOMAIN queue : j < i + 1 /\ Waits(j, g) /\ queue[j].n = p.n - 1
    BY <2>1 DEF OrderInv, QueueInOrder
  <2>3. queue'[i].filter = g
    BY <2>1
  <2>4. Len(done'[g]) \in Nat /\ Len(done[g]) \in Nat
    <3>1. done'[g] \in Seq(Nat) /\ done[g] \in Seq(Nat)
      BY <1>6, <2>1 DEF PipeInv, PipeTypes
    <3>2. QED
      BY <3>1
  <2>5. Waits(1, g) => g = f /\ Len(done'[g]) = m.n /\ m.n = Len(done[g]) + 1
    BY <1>2, <1>3, <1>5, <1>6 DEF Waits
  <2>6. ~ Waits(1, g) => Len(done'[g]) = Len(done[g])
    BY <1>2, <1>3, <1>6, <2>1 DEF Waits
  <2>7. p.n > Len(done'[g])
    <3>1. CASE Waits(1, g)
      <4>1. 1 \in DOMAIN queue /\ 1 < i + 1
        BY <1>2
      <4>2. queue[1].n < p.n
        BY <2>2, <3>1, <4>1
      <4>3. QED
        BY <1>2, <2>5, <3>1, <4>2
    <3>2. QED
      BY <2>2, <2>6, <3>1
  <2>8. \A j \in 1 .. n : j < i /\ Waits(j, g)' => queue'[j].n < p.n
    <3> SUFFICES ASSUME NEW j \in 1 .. n, j < i, Waits(j, g)' PROVE queue'[j].n < p.n
      OBVIOUS
    <3>1. j + 1 \in DOMAIN queue /\ j + 1 < i + 1 /\ Waits(j + 1, g) /\ queue'[j] = queue[j + 1]
      BY <1>2, <1>8, <2>1 DEF Waits
    <3>2. QED
      BY <2>2, <3>1
  <2>9. p.n # Len(done'[g]) + 1 => \E j \in 1 .. n : j < i /\ Waits(j, g)' /\ queue'[j].n = p.n - 1
    <3> SUFFICES ASSUME p.n # Len(done'[g]) + 1
                 PROVE  \E j \in 1 .. n : j < i /\ Waits(j, g)' /\ queue'[j].n = p.n - 1
      OBVIOUS
    <3>1. p.n # Len(done[g]) + 1
      <4>1. CASE Waits(1, g)
        BY <2>1, <2>4, <2>5, <2>7, <4>1
      <4>2. QED
        BY <2>6, <4>1
    <3>2. PICK j \in DOMAIN queue : j < i + 1 /\ Waits(j, g) /\ queue[j].n = p.n - 1
      BY <2>2, <3>1
    <3>3. j # 1
      <4> SUFFICES ASSUME j = 1 PROVE FALSE
        OBVIOUS
      <4>1. p.n - 1 = m.n /\ m.n = Len(done'[g])
        BY <1>2, <2>5, <3>2
      <4>2. QED
        BY <2>1, <2>4, <4>1
    <3>4. j - 1 \in 1 .. n /\ j - 1 < i /\ queue'[j - 1] = queue[j]
      BY <1>2, <3>2, <3>3
    <3>5. Waits(j - 1, g)'
      BY <3>2, <3>4 DEF Waits
    <3>6. QED
      BY <3>2, <3>4, <3>5
  <2>10. QED
    BY <2>1, <2>3, <2>7, <2>8, <2>9 DEF Waits
<1>13. QueueComplete'
  <2> SUFFICES ASSUME NEW g \in Filters, opaque[g] # NULL, ~ Ends(g)
               PROVE  LET last == given[ctxs[opaque[g]].owner]
                      IN  /\ last >= Len(done'[g])
                          /\ \A i \in 1 .. n : Waits(i, g)' => queue'[i].n <= last
                          /\ last # Len(done'[g]) => \E i \in 1 .. n : Waits(i, g)' /\ queue'[i].n = last
    BY <1>1, <1>2 DEF QueueComplete, Ends, client_vars
  <2> DEFINE last == given[ctxs[opaque[g]].owner]
  <2>1. /\ last >= Len(done[g]) /\ last \in Nat /\ Len(done[g]) \in Nat
        /\ \A i \in DOMAIN queue : Waits(i, g) => queue[i].n <= last
        /\ last # Len(done[g]) => \E i \in DOMAIN queue : Waits(i, g) /\ queue[i].n = last
    BY TakenFields DEF OrderInv, QueueComplete, ClientInv, ClientTypes, PipeInv, PipeTypes
  <2> HIDE DEF last
  <2>2. Waits(1, g) => g = f /\ Len(done'[g]) = m.n /\ m.n = Len(done[g]) + 1 /\ m.n <= last
    <3> SUFFICES ASSUME Waits(1, g) PROVE g = f /\ Len(done'[g]) = m.n /\ m.n = Len(done[g]) + 1 /\ m.n <= last
      OBVIOUS
    <3>1. g = f /\ m.n # 0
      BY <1>2, <1>3 DEF Waits
    <3>2. 1 \in DOMAIN queue
      BY <1>2
    <3>3. m.n <= last
      BY <1>2, <2>1, <3>2
    <3>4. QED
      BY <1>5, <1>6, <3>1, <3>3
  <2>3. ~ Waits(1, g) => Len(done'[g]) = Len(done[g])
    BY <1>2, <1>3, <1>6 DEF Waits
  <2>4. last >= Len(done'[g])
    BY <2>1, <2>2, <2>3
  <2>5. \A i \in 1 .. n : Waits(i, g)' => queue'[i].n <= last
    BY <1>2, <1>8, <2>1
  <2>6. last # Len(done'[g]) => \E i \in 1 .. n : Waits(i, g)' /\ queue'[i].n = last
    <3> SUFFICES ASSUME last # Len(done'[g]) PROVE \E i \in 1 .. n : Waits(i, g)' /\ queue'[i].n = last
      OBVIOUS
    <3>1. last # Len(done[g])
      BY <2>1, <2>2, <2>3
    <3>2. PICK j \in DOMAIN queue : Waits(j, g) /\ queue[j].n = last
      BY <2>1, <3>1
    <3>3. j # 1
      BY <1>2, <2>2, <3>2
    <3>4. j - 1 \in 1 .. n /\ queue'[j - 1] = queue[j]
      BY <1>2, <3>2, <3>3
    <3>5. Waits(j - 1, g)'
      BY <3>2, <3>4 DEF Waits
    <3>6. QED
      BY <3>2, <3>4, <3>5
  <2>7. QED
    BY <2>4, <2>5, <2>6 DEF last
<1>14. BusyTaken'
  <2> SUFFICES ASSUME NEW g \in Filters,
                      todo'[g] # <<>> \/ \E i \in 1 .. n : Waits(i, g)'
               PROVE  opaque[g] # NULL
    BY <1>0, <1>1, <1>2 DEF BusyTaken
  <2>1. \E i \in DOMAIN queue : Waits(i, g)
    <3>1. CASE \E i \in 1 .. n : Waits(i, g)'
      BY <1>8, <3>1
    <3>2. CASE todo'[g] # <<>>
      <4>1. g = f /\ m.cmd \in Slow
        BY <1>0, <1>6, <3>2
      <4>2. m.n # 0
        BY <1>7, <4>1 DEF Slow, Silent
      <4>3. QED
        BY <1>2, <1>3, <4>1, <4>2 DEF Waits
    <3>3. QED
      BY <3>1, <3>2
  <2>2. QED
    BY <2>1 DEF PipeInv, BusyTaken
<1>15. WorkedLast'
  <2> SUFFICES ASSUME NEW g \in Filters, NEW i \in DOMAIN todo'[g], todo'[g][i] = "close"
               PROVE  i = Len(todo'[g]) /\ Ends(g)' /\ \A j \in 1 .. n : ~ Waits(j, g)'
    BY <1>2 DEF WorkedLast
  <2>1. g = f /\ todo'[f] = <<m.cmd>>
    <3>1. todo'[g] # <<>>
      OBVIOUS
    <3>2. g = f
      BY <1>0, <1>6, <3>1
    <3>3. QED
      BY <1>6, <3>1, <3>2
  <2>2. i = 1 /\ Len(todo'[g]) = 1 /\ m.cmd = "close"
    BY <2>1
  <2>3. Ends(f) /\ \A j \in DOMAIN queue : j > 1 => ~ Waits(j, f)
    <3>1. 1 \in DOMAIN queue /\ queue[1].cmd = "close" /\ queue[1].filter = f
      BY <1>2, <1>3, <2>2
    <3>2. QED
      BY <3>1 DEF PipeInv, CloseLast, QueuedLast
  <2>4. Ends(f)'
    BY <1>1, <2>3 DEF Ends, client_vars
  <2>5. \A j \in 1 .. n : j + 1 \in DOMAIN queue /\ j + 1 > 1
    BY <1>2
  <2>6. \A j \in 1 .. n : ~ Waits(j, f)'
    BY <1>2, <2>3, <2>5 DEF Waits
  <2>7. QED
    BY <2>1, <2>2, <2>4, <2>6
<1>16. QED
  BY <1>5, <1>6, <1>9, <1>10, <1>11, <1>12, <1>13, <1>14, <1>15 DEF PipeInv, CloseLast, OrderInv

-----------------------------------------------------------------------------
(* A worker reports, and the daemon takes the report                       *)

LEMMA Worked ==
    ASSUME ClientInv, PipeInv, OrderInv, NEW f \in Filters, Worker(f)
    PROVE  PipeInv' /\ OrderInv'
<1>1. PICK e \in Report(Head(todo[f])) : status' = [status EXCEPT ![f] = Append(status[f], e)]
  BY DEF Worker
<1>2. /\ todo[f] # <<>> /\ todo' = [todo EXCEPT ![f] = Tail(todo[f])]
      /\ UNCHANGED <<client_vars, ctxs, opaque, queue, done>>
  BY DEF Worker
<1>3. todo[f] \in Seq(Slow) /\ status[f] \in Seq(Events)
  BY DEF PipeInv, PipeTypes
<1>4. /\ Head(todo[f]) \in Slow /\ Tail(todo[f]) \in Seq(Slow)
      /\ Len(Tail(todo[f])) = Len(todo[f]) - 1 /\ 1 \in DOMAIN todo[f] /\ todo[f][1] = Head(todo[f])
      /\ \A i \in DOMAIN Tail(todo[f]) : i + 1 \in DOMAIN todo[f] /\ Tail(todo[f])[i] = todo[f][i + 1]
  BY <1>2, <1>3
<1>5. e \in Events /\ (e = "CLOSED" => Head(todo[f]) = "close")
  BY <1>1, <1>4 DEF Report, Slow, Events
<1>6. /\ Append(status[f], e) \in Seq(Events) /\ Len(Append(status[f], e)) = Len(status[f]) + 1
      /\ DOMAIN Append(status[f], e) = 1 .. Len(status[f]) + 1 /\ DOMAIN status[f] = 1 .. Len(status[f])
      /\ Append(status[f], e)[Len(status[f]) + 1] = e /\ Len(status[f]) \in Nat
      /\ \A i \in DOMAIN status[f] : Append(status[f], e)[i] = status[f][i]
  BY <1>3, <1>5
<1>7. PipeTypes'
  BY <1>1, <1>2, <1>4, <1>6 DEF PipeInv, PipeTypes
<1>8. /\ todo'[f] = Tail(todo[f]) /\ status'[f] = Append(status[f], e)
      /\ \A g \in Filters \ {f} : todo'[g] = todo[g] /\ status'[g] = status[g]
  BY <1>1, <1>2 DEF PipeInv, PipeTypes
<1>9. PolicyQueued' /\ QueuedLast' /\ Numbered' /\ QueueInOrder' /\ QueueComplete'
  BY <1>2 DEF PipeInv, CloseLast, OrderInv, PolicyQueued, QueuedLast, Numbered, QueueInOrder, QueueComplete,
              Ends, Waits, client_vars
<1>10. BusyTaken'
  BY <1>2, <1>8 DEF PipeInv, BusyTaken, Waits
<1>11. \A g : Ends(g)' = Ends(g) /\ \A j : Waits(j, g)' = Waits(j, g)
  BY <1>2 DEF Ends, Waits, client_vars
<1>12. WorkedLast'
  <2> SUFFICES ASSUME NEW g \in Filters, NEW i \in DOMAIN todo'[g], todo'[g][i] = "close"
               PROVE  /\ i = Len(todo'[g]) /\ Ends(g)
                      /\ \A j \in DOMAIN queue : ~ Waits(j, g)
    BY <1>2, <1>11 DEF WorkedLast
  <2>1. CASE g = f
    <3>1. i + 1 \in DOMAIN todo[f] /\ todo[f][i + 1] = "close"
      BY <1>4, <1>8, <2>1
    <3>2. i + 1 = Len(todo[f]) /\ Ends(f) /\ \A j \in DOMAIN queue : ~ Waits(j, f)
      BY <3>1 DEF PipeInv, CloseLast, WorkedLast
    <3>3. i \in Nat
      BY <1>4, <1>8, <2>1, SMTT(60)
    <3>4. Len(todo'[g]) = Len(todo[f]) - 1
      BY <1>4, <1>8, <2>1
    <3>5. i = Len(todo'[g])
      BY <3>2, <3>3, <3>4
    <3>6. QED
      BY <2>1, <3>2, <3>5
  <2>2. CASE g # f
    BY <1>8, <2>2 DEF PipeInv, CloseLast, WorkedLast
  <2>3. QED
    BY <2>1, <2>2
<1>13. ReportedLast'
  <2> SUFFICES ASSUME NEW g \in Filters, NEW i \in DOMAIN status'[g], status'[g][i] = "CLOSED"
               PROVE  /\ i = Len(status'[g]) /\ todo'[g] = <<>> /\ Ends(g)
                      /\ \A j \in DOMAIN queue : ~ Waits(j, g)
    BY <1>2, <1>11 DEF ReportedLast
  <2>1. CASE g # f
    BY <1>8, <2>1 DEF PipeInv, CloseLast, ReportedLast
  <2>2. CASE g = f /\ i \in DOMAIN status[f]
    <3>1. todo[f] = <<>>
      BY <1>6, <1>8, <2>2 DEF PipeInv, CloseLast, ReportedLast
    <3>2. QED
      BY <1>2, <3>1
  <2>3. CASE g = f /\ i = Len(status[f]) + 1
    <3>1. todo[f][1] = "close"
      BY <1>4, <1>5, <1>6, <1>8, <2>3
    <3>2. 1 = Len(todo[f]) /\ Ends(f) /\ \A j \in DOMAIN queue : ~ Waits(j, f)
      BY <1>4, <3>1 DEF PipeInv, CloseLast, WorkedLast
    <3>3. Tail(todo[f]) = <<>>
      BY <1>4, <3>2
    <3>4. QED
      BY <1>6, <1>8, <2>3, <3>2, <3>3
  <2>4. QED
    BY <1>6, <1>8, <2>1, <2>2, <2>3
<1>14. QED
  BY <1>7, <1>9, <1>10, <1>12, <1>13 DEF PipeInv, CloseLast, OrderInv

\* A command of the policy may join the queue; it belongs to no client.
SilentAdded ==
    /\ queue' \in Seq(Commands)
    /\ \A i \in DOMAIN queue : i \in DOMAIN queue' /\ queue'[i] = queue[i]
    /\ \A i \in DOMAIN queue' : i \in DOMAIN queue \/ (queue'[i].n = 0 /\ queue'[i].cmd \in Silent)

LEMMA PolicyOnly ==
    ASSUME PipeTypes, NEW now \in SUBSET Filters, NEW rest, media_stub_set_stream_status(now, rest)
    PROVE  active' = now /\ UNCHANGED <<todo, done>> /\ SilentAdded
<1>1. CASE UNCHANGED filter_vars
  BY <1>1 DEF filter_vars, SilentAdded, PipeTypes, media_stub_set_stream_status
<1>2. CASE ~ UNCHANGED filter_vars
  <2> DEFINE m == [filter |-> PolicyCommand(now).target, cmd |-> PolicyCommand(now).cmd, n |-> 0]
  <2>1. PolicyCommand(now) # NULL /\ media_graph_queue_command(m, rest)
    BY <1>2 DEF media_stub_set_stream_status, pfw_ffmpeg_command_callback, media_graph_handler
  <2>2. m \in Commands /\ m.n = 0 /\ m.cmd \in Silent
    BY <2>1, PolicyAsks DEF Commands, Silent
  <2> HIDE DEF m
  <2>3. UNCHANGED <<todo, done>> /\ (queue' = queue \/ queue' = Append(queue, m))
    <3>1. CASE queue' = Append(queue, m) /\ UNCHANGED <<todo, done>>
      BY <3>1
    <3>2. ASSUME NEW accepts \in BOOLEAN, avfilter_process_command(m, accepts), queue' = queue
          PROVE  UNCHANGED <<todo, done>>
      BY <2>2, <3>2, FilterGiven
    <3>3. QED
      BY <2>1, <3>1, <3>2 DEF media_graph_queue_command
  <2>4. SilentAdded
    <3>1. CASE queue' = queue
      BY <3>1 DEF SilentAdded, PipeTypes
    <3>2. CASE queue' = Append(queue, m)
      <4>1. /\ queue' \in Seq(Commands) /\ DOMAIN queue = 1 .. Len(queue) /\ Len(queue) \in Nat
            /\ DOMAIN queue' = 1 .. Len(queue) + 1 /\ queue'[Len(queue) + 1] = m
            /\ \A i \in DOMAIN queue : queue'[i] = queue[i]
        BY <2>2, <3>2 DEF PipeTypes
      <4>2. QED
        BY <2>2, <4>1 DEF SilentAdded
    <3>3. QED
      BY <2>3, <3>1, <3>2
  <2>5. QED
    BY <2>3, <2>4 DEF media_stub_set_stream_status
<1>3. QED
  BY <1>1, <1>2

LEMMA WaitsSame ==
    ASSUME SilentAdded, NEW g
    PROVE  /\ \A i \in DOMAIN queue : i \in DOMAIN queue' /\ queue'[i] = queue[i]
                                      /\ (Waits(i, g)' <=> Waits(i, g))
           /\ \A i \in DOMAIN queue' : Waits(i, g)' => i \in DOMAIN queue /\ Waits(i, g)
BY DEF SilentAdded, Waits

\* What the daemon does with a report: it is gone, a command of the policy may
\* be new, and with the report of the close the filter is free.
LEMMA Taken ==
    ASSUME ClientInv, PipeInv, OrderInv, NEW f \in Filters,
           status[f] # <<>>, status' = [status EXCEPT ![f] = Tail(status[f])],
           UNCHANGED <<todo, done, client_vars>>, SilentAdded,
           \A g \in Filters : opaque'[g] # opaque[g] => g = f /\ Head(status[f]) = "CLOSED" /\ opaque'[f] = NULL,
           \A g \in Filters : opaque'[g] # NULL => ctxs'[opaque[g]] = ctxs[opaque[g]]
    PROVE  PipeInv' /\ OrderInv'
<1>1. status[f] \in Seq(Events)
  BY DEF PipeInv, PipeTypes
<1>2. /\ Tail(status[f]) \in Seq(Events) /\ Len(Tail(status[f])) = Len(status[f]) - 1
      /\ 1 \in DOMAIN status[f] /\ status[f][1] = Head(status[f]) /\ Len(status[f]) \in Nat
      /\ \A i \in DOMAIN Tail(status[f]) :
            i \in Nat /\ i + 1 \in DOMAIN status[f] /\ Tail(status[f])[i] = status[f][i + 1]
  BY <1>1
<1>3. status'[f] = Tail(status[f]) /\ \A g \in Filters \ {f} : status'[g] = status[g]
  BY DEF PipeInv, PipeTypes
\* A filter that was freed had nothing left.
<1>4. ASSUME NEW g \in Filters, opaque'[g] # opaque[g]
      PROVE  /\ todo[g] = <<>> /\ status'[g] = <<>> /\ Ends(g) /\ \A j \in DOMAIN queue : ~ Waits(j, g)
             /\ g = f /\ opaque'[g] = NULL
  <2>1. g = f /\ status[f][1] = "CLOSED" /\ opaque'[g] = NULL
    BY <1>2, <1>4
  <2>2. 1 = Len(status[f]) /\ todo[f] = <<>> /\ Ends(f) /\ \A j \in DOMAIN queue : ~ Waits(j, f)
    BY <1>2, <2>1 DEF PipeInv, CloseLast, ReportedLast
  <2>3. Tail(status[f]) = <<>>
    BY <1>2, <2>2
  <2>4. QED
    BY <1>3, <2>1, <2>2, <2>3
<1>5. ASSUME NEW g \in Filters, opaque'[g] = opaque[g], opaque[g] # NULL
      PROVE  Ends(g)' <=> Ends(g)
  BY <1>5 DEF Ends, client_vars
<1>6. PipeTypes' /\ PolicyQueued'
  <2>1. todo' \in [Filters -> Seq(Slow)] /\ status' \in [Filters -> Seq(Events)] /\ done' \in [Filters -> Seq(Nat)]
    BY <1>2 DEF PipeInv, PipeTypes
  <2>2. PolicyQueued'
    BY DEF SilentAdded, PipeInv, PolicyQueued
  <2>3. QED
    BY <2>1, <2>2 DEF PipeTypes, SilentAdded
<1>7. \A g \in Filters : status'[g] # <<>> => status[g] # <<>>
  BY <1>3
<1>8. BusyTaken'
  <2> SUFFICES ASSUME NEW g \in Filters,
                      todo[g] # <<>> \/ status'[g] # <<>> \/ \E i \in DOMAIN queue' : Waits(i, g)'
               PROVE  opaque'[g] # NULL
    BY DEF BusyTaken
  <2>1. todo[g] # <<>> \/ status'[g] # <<>> \/ \E i \in DOMAIN queue : Waits(i, g)
    BY WaitsSame
  <2>2. opaque'[g] = opaque[g]
    BY <1>4, <2>1
  <2>3. QED
    BY <1>7, <2>1, <2>2 DEF PipeInv, BusyTaken
<1>9. WorkedLast'
  <2> SUFFICES ASSUME NEW g \in Filters, NEW i \in DOMAIN todo[g], todo[g][i] = "close"
               PROVE  i = Len(todo[g]) /\ Ends(g)' /\ \A j \in DOMAIN queue' : ~ Waits(j, g)'
    BY DEF WorkedLast
  <2>1. i = Len(todo[g]) /\ Ends(g) /\ (\A j \in DOMAIN queue : ~ Waits(j, g)) /\ todo[g] # <<>>
    BY DEF PipeInv, PipeTypes, CloseLast, WorkedLast
  <2>2. opaque'[g] = opaque[g] /\ opaque[g] # NULL
    BY <1>4, <2>1 DEF PipeInv, BusyTaken
  <2>3. QED
    BY <1>5, <2>1, <2>2, WaitsSame
<1>10. ReportedLast'
  <2> SUFFICES ASSUME NEW g \in Filters, NEW i \in DOMAIN status'[g], status'[g][i] = "CLOSED"
               PROVE  /\ i = Len(status'[g]) /\ todo[g] = <<>> /\ Ends(g)'
                      /\ \A j \in DOMAIN queue' : ~ Waits(j, g)'
    BY DEF ReportedLast
  <2>1. status'[g] # <<>>
    OBVIOUS
  <2>2. i = Len(status'[g]) /\ todo[g] = <<>> /\ Ends(g) /\ \A j \in DOMAIN queue : ~ Waits(j, g)
    <3>1. CASE g # f
      BY <1>3, <3>1 DEF PipeInv, CloseLast, ReportedLast
    <3>2. CASE g = f
      <4>0. i \in DOMAIN Tail(status[f]) /\ Tail(status[f])[i] = "CLOSED"
        BY <1>3, <3>2
      <4>1. i \in Nat /\ i + 1 \in DOMAIN status[f] /\ status[f][i + 1] = "CLOSED"
        BY <1>2, <4>0
      <4>2. i + 1 = Len(status[f]) /\ todo[f] = <<>> /\ Ends(f) /\ \A j \in DOMAIN queue : ~ Waits(j, f)
        BY <4>1 DEF PipeInv, CloseLast, ReportedLast
      <4>3. Len(status'[g]) = Len(status[f]) - 1
        BY <1>2, <1>3, <3>2
      <4>4. i = Len(status'[g])
        BY <4>1, <4>2, <4>3
      <4>5. QED
        BY <3>2, <4>2, <4>4
    <3>3. QED
      BY <3>1, <3>2
  <2>3. opaque'[g] = opaque[g] /\ opaque[g] # NULL
    BY <1>4, <1>7, <2>1 DEF PipeInv, BusyTaken
  <2>4. QED
    BY <1>5, <2>2, <2>3, WaitsSame
<1>11. QueuedLast'
  <2> SUFFICES ASSUME NEW i \in DOMAIN queue', queue'[i].cmd = "close"
               PROVE  /\ queue'[i].n # 0 /\ Ends(queue[i].filter)'
                      /\ \A j \in DOMAIN queue' : j > i => ~ Waits(j, queue[i].filter)'
    BY DEF QueuedLast
  <2>1. i \in DOMAIN queue /\ queue'[i] = queue[i]
    BY DEF SilentAdded, Silent
  <2>2. PICK g \in Filters : g = queue[i].filter
    BY <2>1, QueueFields DEF PipeInv
  <2>3. queue[i].n # 0 /\ Ends(g) /\ \A j \in DOMAIN queue : j > i => ~ Waits(j, g)
    BY <2>1, <2>2 DEF PipeInv, CloseLast, QueuedLast
  <2>4. Waits(i, g)
    BY <2>2, <2>3 DEF Waits
  <2>5. opaque'[g] = opaque[g] /\ opaque[g] # NULL
    BY <1>4, <2>1, <2>4 DEF PipeInv, BusyTaken
  <2>6. Ends(g)' /\ \A j \in DOMAIN queue' : j > i => ~ Waits(j, g)'
    BY <1>5, <2>3, <2>5, WaitsSame
  <2>7. queue'[i].filter = g
    BY <2>1, <2>2
  <2>8. QED
    BY <2>1, <2>3, <2>6, <2>7 DEF Ends, Waits
<1>12. QueueInOrder'
  <2> SUFFICES ASSUME NEW i \in DOMAIN queue', queue'[i].n # 0
               PROVE  /\ queue'[i].n > Len(done[queue'[i].filter])
                      /\ \A j \in DOMAIN queue' : j < i /\ Waits(j, queue[i].filter)' => queue'[j].n < queue'[i].n
                      /\ queue'[i].n # Len(done[queue'[i].filter]) + 1 =>
                            \E j \in DOMAIN queue' : j < i /\ Waits(j, queue[i].filter)'
                                                     /\ queue'[j].n = queue'[i].n - 1
    BY DEF QueueInOrder
  <2>1. i \in DOMAIN queue /\ queue'[i] = queue[i]
    BY DEF SilentAdded
  <2>2. PICK g \in Filters : g = queue[i].filter
    BY <2>1, QueueFields DEF PipeInv
  <2>3. /\ queue[i].n > Len(done[g])
        /\ \A j \in DOMAIN queue : j < i /\ Waits(j, g) => queue[j].n < queue[i].n
        /\ queue[i].n # Len(done[g]) + 1 =>
              \E j \in DOMAIN queue : j < i /\ Waits(j, g) /\ queue[j].n = queue[i].n - 1
    BY <2>1, <2>2 DEF OrderInv, QueueInOrder
  <2>4. /\ \A j \in DOMAIN queue' : j < i /\ Waits(j, g)' => queue'[j].n < queue[i].n
        /\ queue[i].n # Len(done[g]) + 1 =>
              \E j \in DOMAIN queue' : j < i /\ Waits(j, g)' /\ queue'[j].n = queue[i].n - 1
    BY <2>3, WaitsSame
  <2>5. queue'[i].filter = g
    BY <2>1, <2>2
  <2>6. QED
    BY <2>1, <2>3, <2>4, <2>5 DEF Waits
<1>13. QueueComplete'
  <2> SUFFICES ASSUME NEW g \in Filters, opaque'[g] # NULL, ~ Ends(g)'
               PROVE  LET last == given[ctxs'[opaque'[g]].owner]
                      IN  /\ last >= Len(done[g])
                          /\ \A i \in DOMAIN queue' : Waits(i, g)' => queue'[i].n <= last
                          /\ last # Len(done[g]) => \E i \in DOMAIN queue' : Waits(i, g)' /\ queue'[i].n = last
    BY DEF QueueComplete, client_vars
  <2>1. opaque'[g] = opaque[g] /\ ctxs'[opaque[g]] = ctxs[opaque[g]]
    BY <1>4
  <2>2. ~ Ends(g)
    BY <1>5, <2>1
  <2>3. LET last == given[ctxs[opaque[g]].owner]
        IN  /\ last >= Len(done[g])
            /\ \A i \in DOMAIN queue : Waits(i, g) => queue[i].n <= last
            /\ last # Len(done[g]) => \E i \in DOMAIN queue : Waits(i, g) /\ queue[i].n = last
    BY <2>1, <2>2 DEF OrderInv, QueueComplete
  <2>4. QED
    BY <2>1, <2>3, WaitsSame
<1>14. QED
  BY <1>6, <1>8, <1>9, <1>10, <1>11, <1>12, <1>13 DEF PipeInv, CloseLast, OrderInv, Numbered

-----------------------------------------------------------------------------
(* Clients, step by step                                                   *)

\* What leaves contexts with their clients and connections at their ends.
LEMMA ClientKept ==
    ASSUME ClientInv,
           conns' \in [Cookies -> ConnType(Ctxs)],
           \A k \in Cookies : conns'[k].tran_fd = conns[k].tran_fd /\ conns'[k].data \in {conns[k].data, NULL},
           ctxs' \in [Ctxs -> Ctx0 \cup {NULL}],
           \A x \in Ctxs : /\ ctxs'[x] = NULL <=> ctxs[x] = NULL
                           /\ ctxs[x] # NULL => ctxs'[x].owner = ctxs[x].owner
                                                /\ ctxs'[x].filter = ctxs[x].filter,
           life' \in [Clients -> {"new", "connected", "open", "listening", "closing", "gone"}],
           \A c \in Clients : \/ life'[c] = life[c]
                              \/ life[c] \in {"open", "listening"} /\ life'[c] \in {"listening", "closing"},
           given' \in [Clients -> Nat],
           \A c \in Clients : life[c] \in {"new", "connected"} => given'[c] = given[c],
           UNCHANGED <<entry, opaque>>
    PROVE  ClientInv' /\ CtxsKept /\ LivesOn
<1>1. ClientTypes'
  BY DEF ClientInv, ClientTypes
<1>2. CtxsKept /\ LivesOn
  BY DEF CtxsKept, LivesOn
<1>3. Linked'
  BY CtxFields DEF ClientInv, Linked, ClientTypes
<1>4. EntryOwn' /\ NothingGiven'
  BY DEF ClientInv, EntryOwn, NothingGiven
<1>5. OneCtx'
  BY CtxFields DEF ClientInv, OneCtx
<1>6. DataOwn'
  <2> SUFFICES ASSUME NEW c \in Clients, life'[c] \in {"open", "listening"}, conns'[entry[c]].data # NULL
               PROVE  LET x == conns'[entry[c]].data IN ctxs'[x] # NULL /\ ctxs'[x].owner = c
    BY DEF DataOwn, Ctx, media_server_get_data
  <2>1. life[c] \in {"open", "listening"} /\ entry[c] \in Cookies
    BY DEF ClientInv, EntryOwn
  <2>2. conns'[entry[c]].data = Ctx(c) /\ Ctx(c) # NULL
    BY <2>1 DEF Ctx, media_server_get_data
  <2>3. Ctx(c) \in Ctxs /\ ctxs[Ctx(c)] # NULL /\ ctxs[Ctx(c)].owner = c
    BY <2>1, <2>2, CtxOwned
  <2>4. QED
    BY <2>2, <2>3
<1>7. QED
  BY <1>1, <1>2, <1>3, <1>4, <1>5, <1>6 DEF ClientInv

\* A table in which one entry was finalized.
LEMMA OneFinalized ==
    ASSUME ClientTypes, NEW k \in Cookies, conns' = [conns EXCEPT ![k] = media_server_finalize(conns[k])]
    PROVE  /\ conns' \in [Cookies -> ConnType(Ctxs)] /\ conns'[k].notify_fd = NULL
           /\ \A j \in Cookies : conns'[j].tran_fd = conns[j].tran_fd
                                 /\ conns'[j].data \in {conns[j].data, NULL}
           /\ \A j \in Cookies \ {k} : conns'[j] = conns[j]
           /\ ~ Open(conns[k].notify_fd) => conns'[k] = conns[k]
<1> DEFINE new == media_server_finalize(conns[k])
<1>1. conns[k] \in ConnType(Ctxs)
  BY DEF ClientTypes
<1>2. /\ new \in ConnType(Ctxs) /\ new.tran_fd = conns[k].tran_fd /\ new.notify_fd = NULL
      /\ new.data \in {conns[k].data, NULL} /\ (~ Open(conns[k].notify_fd) => new = conns[k])
  BY <1>1, FinalizeFields
<1> HIDE DEF new
<1>3. conns' = [conns EXCEPT ![k] = new]
  BY DEF new
<1>4. QED
  BY <1>2, <1>3 DEF ClientTypes

\* A client that ends gives up its end of the connection, and no more.
ClientEnds(c) ==
    /\ conns' = [conns EXCEPT ![entry[c]] = media_server_conn_close(@)]
    /\ Gone(c) /\ UNCHANGED <<ctxs, opaque>>

LEMMA ClientEnded ==
    ASSUME ClientInv, NEW c \in Clients, life[c] \notin {"new", "gone"}, ClientEnds(c)
    PROVE  ClientInv' /\ CtxsKept /\ LivesOn
<1> DEFINE new == media_server_conn_close(conns[entry[c]])
<1>1. entry[c] \in Cookies /\ conns[entry[c]] \in ConnType(Ctxs) /\ conns[entry[c]].tran_fd = c
  BY DEF ClientInv, ClientTypes, EntryOwn
<1>2. new \in ConnType(Ctxs) /\ new.data = conns[entry[c]].data
  BY <1>1, ConnCloseFields
<1> HIDE DEF new
<1>3. conns' = [conns EXCEPT ![entry[c]] = new] /\ UNCHANGED <<ctxs, opaque>>
  BY DEF ClientEnds, new
<1>4. /\ life' = [life EXCEPT ![c] = "gone"] /\ entry' = [entry EXCEPT ![c] = NULL]
      /\ given' = [given EXCEPT ![c] = 0]
  BY DEF ClientEnds, Gone
<1>5. ClientTypes'
  BY <1>1, <1>2, <1>3, <1>4 DEF ClientInv, ClientTypes
<1>6. CtxsKept /\ LivesOn
  BY <1>3, <1>4 DEF CtxsKept, LivesOn, ClientInv, ClientTypes
<1>7. Linked' /\ NothingGiven'
  BY <1>3, <1>4 DEF ClientInv, Linked, NothingGiven, ClientTypes
<1>8. \A d \in Clients : life'[d] # "gone" =>
          /\ d # c /\ life'[d] = life[d] /\ entry'[d] = entry[d] /\ life[d] # "gone"
          /\ life[d] # "new" => entry[d] # entry[c] /\ entry[d] \in Cookies /\ conns'[entry[d]] = conns[entry[d]]
  BY <1>1, <1>3, <1>4 DEF ClientInv, EntryOwn, ClientTypes
<1>9. EntryOwn'
  BY <1>8 DEF ClientInv, EntryOwn
<1>10. OneCtx'
  BY <1>3, <1>4, CtxFields DEF ClientInv, OneCtx, ClientTypes
<1>11. DataOwn'
  BY <1>3, <1>8 DEF ClientInv, DataOwn, Ctx, media_server_get_data
<1>12. QED
  BY <1>5, <1>6, <1>7, <1>9, <1>10, <1>11 DEF ClientInv

LEMMA ClientAccepted ==
    ASSUME ClientInv, NEW c \in Clients, Accept(c)
    PROVE  ClientInv' /\ CtxsKept /\ LivesOn
<1>1. PICK k \in AcceptEntry(conns) :
         /\ conns' = [conns EXCEPT ![k] = media_server_conn_init(conns[k], c)]
         /\ entry' = [entry EXCEPT ![c] = k]
  BY DEF Accept
<1> DEFINE new == media_server_conn_init(conns[k], c)
<1>2. k \in Cookies /\ ~ Open(conns[k].tran_fd) /\ conns[k] \in ConnType(Ctxs)
  BY AcceptEntryFree DEF ClientInv, ClientTypes
<1>3. new \in ConnType(Ctxs) /\ new.tran_fd = c
  BY <1>2, ConnInitFields
<1> HIDE DEF new
<1>4. conns' = [conns EXCEPT ![k] = new]
  BY <1>1 DEF new
<1>5. life[c] = "new" /\ life' = [life EXCEPT ![c] = "connected"] /\ UNCHANGED <<given, ctxs, opaque>>
  BY DEF Accept
<1>6. ClientTypes'
  BY <1>1, <1>2, <1>3, <1>4, <1>5 DEF ClientInv, ClientTypes
<1>7. CtxsKept /\ LivesOn
  BY <1>5 DEF CtxsKept, LivesOn, ClientInv, ClientTypes
<1>8. Linked' /\ NothingGiven'
  BY <1>5 DEF ClientInv, Linked, NothingGiven, ClientTypes
<1>9. \A d \in Clients \ {c} :
          /\ life'[d] = life[d] /\ entry'[d] = entry[d]
          /\ life[d] \notin {"new", "gone"} => entry[d] # k /\ entry[d] \in Cookies /\ conns'[entry[d]] = conns[entry[d]]
  BY <1>1, <1>2, <1>4, <1>5 DEF ClientInv, EntryOwn, ClientTypes, Open
<1>10. life'[c] = "connected" /\ entry'[c] = k /\ conns'[k].tran_fd = c
  BY <1>1, <1>2, <1>3, <1>4, <1>5 DEF ClientInv, ClientTypes
<1>11. EntryOwn'
  BY <1>2, <1>9, <1>10 DEF ClientInv, EntryOwn
<1>12. OneCtx'
  BY <1>5, <1>9, CtxFields DEF ClientInv, OneCtx
<1>13. DataOwn'
  BY <1>5, <1>9, <1>10 DEF ClientInv, DataOwn, Ctx, media_server_get_data
<1>14. QED
  BY <1>6, <1>7, <1>8, <1>11, <1>12, <1>13 DEF ClientInv

\* A filter that nobody has gets a context that nobody has.
LEMMA Opening ==
    ASSUME ClientInv, NEW c \in Clients, media_common_open(c)
    PROVE  \E f \in Filters, x \in Ctxs :
              /\ opaque[f] = NULL /\ ctxs[x] = NULL
              /\ life[c] = "connected" /\ entry[c] \in Cookies /\ conns[entry[c]] \in ConnType(Ctxs)
              /\ conns[entry[c]].tran_fd = c
              /\ ctxs' = [ctxs EXCEPT ![x] = [filter |-> f, cookie |-> entry[c], event |-> FALSE, owner |-> c]]
              /\ opaque' = [opaque EXCEPT ![f] = x] /\ done' = [done EXCEPT ![f] = <<>>]
              /\ conns' = [conns EXCEPT ![entry[c]] = media_server_set_data(conns[entry[c]], x)]
              /\ life' = [life EXCEPT ![c] = "open"]
              /\ UNCHANGED <<entry, given, deaf, todo, status, queue>>
<1>1. PICK f \in media_find_filter(c), x \in malloc :
         /\ ctxs' = [ctxs EXCEPT ![x] = [filter |-> f, cookie |-> entry[c], event |-> FALSE, owner |-> c]]
         /\ opaque' = [opaque EXCEPT ![f] = x] /\ done' = [done EXCEPT ![f] = <<>>]
         /\ conns' = [conns EXCEPT ![entry[c]] = media_server_set_data(conns[entry[c]], x)]
  BY DEF media_common_open
<1>2. f \in Filters /\ opaque[f] = NULL
  BY FiltersOf DEF media_find_filter
<1>3. x \in Ctxs /\ ctxs[x] = NULL
  BY DEF malloc
<1>4. /\ life[c] = "connected" /\ entry[c] \in Cookies /\ conns[entry[c]] \in ConnType(Ctxs)
      /\ conns[entry[c]].tran_fd = c
  BY DEF media_common_open, ClientInv, ClientTypes, EntryOwn
<1>5. life' = [life EXCEPT ![c] = "open"] /\ UNCHANGED <<entry, given, deaf, todo, status, queue>>
  BY DEF media_common_open
<1>6. QED
  BY <1>1, <1>2, <1>3, <1>4, <1>5

LEMMA ClientOpened ==
    ASSUME ClientInv, NEW c \in Clients, media_common_open(c)
    PROVE  ClientInv' /\ CtxsKept /\ LivesOn
<1>1. PICK f \in Filters, x \in Ctxs :
         /\ opaque[f] = NULL /\ ctxs[x] = NULL
         /\ life[c] = "connected" /\ entry[c] \in Cookies /\ conns[entry[c]] \in ConnType(Ctxs)
         /\ conns[entry[c]].tran_fd = c
         /\ ctxs' = [ctxs EXCEPT ![x] = [filter |-> f, cookie |-> entry[c], event |-> FALSE, owner |-> c]]
         /\ opaque' = [opaque EXCEPT ![f] = x]
         /\ conns' = [conns EXCEPT ![entry[c]] = media_server_set_data(conns[entry[c]], x)]
         /\ life' = [life EXCEPT ![c] = "open"]
         /\ UNCHANGED <<entry, given>>
  BY Opening
<1> DEFINE made == [filter |-> f, cookie |-> entry[c], event |-> FALSE, owner |-> c]
           new == media_server_set_data(conns[entry[c]], x)
<1>2. made \in Ctx0 /\ made # NULL /\ made.filter = f /\ made.owner = c
  <2>1. made \in Ctx0
    BY <1>1 DEF Ctx0
  <2>2. QED
    BY <2>1, GraphNullAssumption
<1>3. new \in ConnType(Ctxs) /\ new.tran_fd = c /\ new.data = x /\ x # NULL
  BY <1>1, SetDataFields, GraphNullAssumption
<1> HIDE DEF made, new
<1>4. ctxs' = [ctxs EXCEPT ![x] = made] /\ conns' = [conns EXCEPT ![entry[c]] = new]
  BY <1>1 DEF made, new
<1>5. ClientTypes'
  <2>1. ctxs' \in [Ctxs -> Ctx0 \cup {NULL}] /\ conns' \in [Cookies -> ConnType(Ctxs)]
    BY <1>2, <1>3, <1>4 DEF ClientInv, ClientTypes
  <2>2. opaque' \in [Filters -> Ctxs \cup {NULL}]
    BY <1>1 DEF ClientInv, ClientTypes
  <2>3. QED
    BY <1>1, <2>1, <2>2 DEF ClientInv, ClientTypes
<1>6. CtxsKept /\ LivesOn
  BY <1>1, <1>4 DEF CtxsKept, LivesOn, ClientInv, ClientTypes
<1>7. /\ ctxs'[x] = made /\ \A y \in Ctxs \ {x} : ctxs'[y] = ctxs[y]
      /\ opaque'[f] = x /\ \A g \in Filters \ {f} : opaque'[g] = opaque[g]
      /\ life'[c] = "open" /\ \A d \in Clients \ {c} : life'[d] = life[d]
      /\ conns'[entry[c]] = new /\ \A k \in Cookies \ {entry[c]} : conns'[k] = conns[k]
  BY <1>1, <1>4 DEF ClientInv, ClientTypes
<1>8. Linked'
  <2>1. ASSUME NEW g \in Filters, opaque'[g] # NULL
        PROVE  ctxs'[opaque'[g]] # NULL /\ ctxs'[opaque'[g]].filter = g
    <3>1. CASE g = f
      BY <1>2, <1>7, <3>1
    <3>2. CASE g # f
      <4>1. opaque'[g] = opaque[g] /\ opaque[g] \in Ctxs /\ ctxs[opaque[g]] # NULL
            /\ ctxs[opaque[g]].filter = g
        BY <1>7, <2>1, <3>2, TakenFields DEF ClientInv
      <4>2. QED
        BY <1>1, <1>7, <4>1
    <3>3. QED
      BY <3>1, <3>2
  <2>2. ASSUME NEW y \in Ctxs, ctxs'[y] # NULL
        PROVE  opaque'[ctxs'[y].filter] = y
    <3>1. CASE y = x
      BY <1>2, <1>7, <3>1
    <3>2. CASE y # x
      <4>1. ctxs'[y] = ctxs[y] /\ ctxs[y] # NULL
        BY <1>7, <2>2, <3>2
      <4>2. ctxs[y].filter \in Filters /\ opaque[ctxs[y].filter] = y
        BY <4>1, CtxFields DEF ClientInv, Linked
      <4>3. y # NULL
        BY GraphNullAssumption
      <4>4. QED
        BY <1>1, <1>7, <4>1, <4>2, <4>3
    <3>3. QED
      BY <3>1, <3>2
  <2>3. QED
    BY <2>1, <2>2 DEF Linked
<1>9. NothingGiven'
  BY <1>1, <1>7 DEF ClientInv, NothingGiven
<1>10. EntryOwn'
  BY <1>1, <1>3, <1>7 DEF ClientInv, EntryOwn
<1>11. \A y \in Ctxs : ctxs[y] # NULL => ctxs[y].owner # c /\ y # x
  BY <1>1 DEF ClientInv, OneCtx
<1>12. OneCtx'
  BY <1>2, <1>7, <1>11, CtxFields DEF ClientInv, OneCtx
<1>13. DataOwn'
  <2> SUFFICES ASSUME NEW d \in Clients, life'[d] \in {"open", "listening"}, conns'[entry[d]].data # NULL
               PROVE  LET y == conns'[entry[d]].data IN ctxs'[y] # NULL /\ ctxs'[y].owner = d
    BY <1>1 DEF DataOwn, Ctx, media_server_get_data
  <2>1. CASE d = c
    BY <1>2, <1>3, <1>7, <2>1
  <2>2. CASE d # c
    <3>1. life[d] \in {"open", "listening"} /\ entry[d] \in Cookies /\ entry[d] # entry[c]
      BY <1>1, <1>7, <2>2 DEF ClientInv, EntryOwn
    <3>2. conns'[entry[d]].data = Ctx(d) /\ Ctx(d) # NULL
      BY <1>7, <3>1 DEF Ctx, media_server_get_data
    <3>3. Ctx(d) \in Ctxs /\ ctxs[Ctx(d)] # NULL /\ ctxs[Ctx(d)].owner = d
      BY <3>1, <3>2, CtxOwned
    <3>4. QED
      BY <1>1, <1>7, <3>2, <3>3
  <2>3. QED
    BY <2>1, <2>2
<1>14. QED
  BY <1>5, <1>6, <1>8, <1>9, <1>10, <1>12, <1>13 DEF ClientInv

\* A filter that nobody has, has nothing to do and no command waits for it.
LEMMA PipeOpened ==
    ASSUME ClientInv, PipeInv, OrderInv, NEW c \in Clients, media_common_open(c)
    PROVE  PipeInv' /\ OrderInv'
<1>1. PICK f \in Filters, x \in Ctxs :
         /\ opaque[f] = NULL /\ ctxs[x] = NULL /\ life[c] = "connected"
         /\ ctxs' = [ctxs EXCEPT ![x] = [filter |-> f, cookie |-> entry[c], event |-> FALSE, owner |-> c]]
         /\ opaque' = [opaque EXCEPT ![f] = x] /\ done' = [done EXCEPT ![f] = <<>>]
         /\ life' = [life EXCEPT ![c] = "open"]
         /\ UNCHANGED <<entry, given, todo, status, queue>>
  BY Opening
<1>2. todo[f] = <<>> /\ status[f] = <<>> /\ \A j \in DOMAIN queue : ~ Waits(j, f)
  BY <1>1 DEF PipeInv, BusyTaken
<1>3. /\ opaque'[f] = x /\ ctxs'[x].owner = c /\ done'[f] = <<>> /\ life'[c] = "open" /\ given[c] = 0
      /\ \A g \in Filters \ {f} : opaque'[g] = opaque[g] /\ done'[g] = done[g]
      /\ \A y \in Ctxs \ {x} : ctxs'[y] = ctxs[y]
      /\ \A d \in Clients \ {c} : life'[d] = life[d]
  BY <1>1 DEF ClientInv, ClientTypes, PipeInv, PipeTypes, NothingGiven
<1>4. ASSUME NEW g \in Filters, opaque[g] # NULL
      PROVE  /\ g # f /\ opaque'[g] = opaque[g] /\ Len(done'[g]) = Len(done[g])
             /\ ctxs'[opaque'[g]].owner = ctxs[opaque[g]].owner
             /\ Ends(g)' <=> Ends(g)
  <2>1. opaque[g] \in Ctxs /\ ctxs[opaque[g]] # NULL /\ ctxs[opaque[g]].owner \in Clients
    BY <1>4, TakenFields DEF ClientInv
  <2>2. ctxs[opaque[g]].owner # c
    BY <1>1, <2>1 DEF ClientInv, OneCtx
  <2>3. g # f /\ opaque[g] # x
    BY <1>1, <1>4, <2>1
  <2>4. opaque'[g] = opaque[g] /\ Len(done'[g]) = Len(done[g]) /\ ctxs'[opaque[g]] = ctxs[opaque[g]]
        /\ life'[ctxs[opaque[g]].owner] = life[ctxs[opaque[g]].owner]
    BY <1>3, <2>1, <2>2, <2>3
  <2>5. QED
    BY <2>3, <2>4 DEF Ends
<1>5. \A j \in DOMAIN queue : \A g : Waits(j, g)' <=> Waits(j, g)
  BY <1>1 DEF Waits
<1>6. PipeTypes' /\ PolicyQueued'
  BY <1>1 DEF PipeInv, PipeTypes, PolicyQueued
<1>7. BusyTaken'
  <2> SUFFICES ASSUME NEW g \in Filters,
                      todo[g] # <<>> \/ status[g] # <<>> \/ \E j \in DOMAIN queue : Waits(j, g)
               PROVE  opaque'[g] # NULL
    BY <1>1, <1>5 DEF BusyTaken
  <2>1. opaque[g] # NULL
    BY DEF PipeInv, BusyTaken
  <2>2. QED
    BY <1>4, <2>1
<1>8. ReportedLast'
  <2> SUFFICES ASSUME NEW g \in Filters, NEW i \in DOMAIN status[g], status[g][i] = "CLOSED"
               PROVE  /\ i = Len(status[g]) /\ todo[g] = <<>> /\ Ends(g)'
                      /\ \A j \in DOMAIN queue : ~ Waits(j, g)
    BY <1>1, <1>5 DEF ReportedLast
  <2>1. /\ i = Len(status[g]) /\ todo[g] = <<>> /\ Ends(g) /\ status[g] # <<>>
        /\ \A j \in DOMAIN queue : ~ Waits(j, g)
    BY DEF PipeInv, PipeTypes, CloseLast, ReportedLast
  <2>2. opaque[g] # NULL
    BY <2>1 DEF PipeInv, BusyTaken
  <2>3. QED
    BY <1>4, <2>1, <2>2
<1>9. WorkedLast'
  <2> SUFFICES ASSUME NEW g \in Filters, NEW i \in DOMAIN todo[g], todo[g][i] = "close"
               PROVE  /\ i = Len(todo[g]) /\ Ends(g)'
                      /\ \A j \in DOMAIN queue : ~ Waits(j, g)
    BY <1>1, <1>5 DEF WorkedLast
  <2>1. /\ i = Len(todo[g]) /\ Ends(g) /\ todo[g] # <<>>
        /\ \A j \in DOMAIN queue : ~ Waits(j, g)
    BY DEF PipeInv, PipeTypes, CloseLast, WorkedLast
  <2>2. opaque[g] # NULL
    BY <2>1 DEF PipeInv, BusyTaken
  <2>3. QED
    BY <1>4, <2>1, <2>2
\* Whose commands wait has the filter they wait for.
<1>10. ASSUME NEW i \in DOMAIN queue, queue[i].n # 0
       PROVE  queue[i].filter \in Filters /\ opaque[queue[i].filter] # NULL
  <2>1. queue[i].filter \in Filters /\ Waits(i, queue[i].filter)
    BY <1>10, QueueFields DEF PipeInv, Waits
  <2>2. QED
    BY <2>1 DEF PipeInv, BusyTaken
<1>11. QueuedLast'
  <2> SUFFICES ASSUME NEW i \in DOMAIN queue, queue[i].cmd = "close"
               PROVE  /\ queue[i].n # 0 /\ Ends(queue[i].filter)'
                      /\ \A j \in DOMAIN queue : j > i => ~ Waits(j, queue[i].filter)
    BY <1>1, <1>5 DEF QueuedLast, Ends
  <2>1. /\ queue[i].n # 0 /\ Ends(queue[i].filter)
        /\ \A j \in DOMAIN queue : j > i => ~ Waits(j, queue[i].filter)
    BY DEF PipeInv, CloseLast, QueuedLast
  <2>2. PICK g \in Filters : g = queue[i].filter /\ opaque[g] # NULL
    BY <1>10, <2>1
  <2>3. Ends(g)'
    BY <1>4, <2>1, <2>2
  <2>4. queue'[i].filter = g
    BY <1>1, <2>2
  <2>5. QED
    BY <2>1, <2>2, <2>3, <2>4 DEF Ends
<1>12. QueueInOrder'
  <2> SUFFICES ASSUME NEW i \in DOMAIN queue, queue[i].n # 0
               PROVE  /\ queue[i].n > Len(done'[queue[i].filter])
                      /\ \A j \in DOMAIN queue : j < i /\ Waits(j, queue[i].filter) => queue[j].n < queue[i].n
                      /\ queue[i].n # Len(done'[queue[i].filter]) + 1 =>
                            \E j \in DOMAIN queue : j < i /\ Waits(j, queue[i].filter)
                                                    /\ queue[j].n = queue[i].n - 1
    BY <1>1, <1>5 DEF QueueInOrder
  <2>1. Len(done'[queue[i].filter]) = Len(done[queue[i].filter])
    BY <1>4, <1>10
  <2>2. QED
    BY <2>1 DEF OrderInv, QueueInOrder
<1>13. QueueComplete'
  <2> SUFFICES ASSUME NEW g \in Filters, opaque'[g] # NULL, ~ Ends(g)'
               PROVE  LET last == given[ctxs'[opaque'[g]].owner]
                      IN  /\ last >= Len(done'[g])
                          /\ \A i \in DOMAIN queue : Waits(i, g) => queue[i].n <= last
                          /\ last # Len(done'[g]) => \E i \in DOMAIN queue : Waits(i, g) /\ queue[i].n = last
    BY <1>1, <1>5 DEF QueueComplete
  <2>1. CASE g = f
    BY <1>2, <1>3, <2>1
  <2>2. CASE g # f
    <3>1. opaque[g] # NULL
      BY <1>3, <2>2
    <3>2. Len(done'[g]) = Len(done[g]) /\ ctxs'[opaque'[g]].owner = ctxs[opaque[g]].owner /\ ~ Ends(g)
      BY <1>4, <3>1
    <3>3. QED
      BY <3>1, <3>2 DEF OrderInv, QueueComplete
  <2>3. QED
    BY <2>1, <2>2
<1>14. Numbered'
  BY <1>3 DEF OrderInv, Numbered
<1>15. QED
  BY <1>6, <1>7, <1>8, <1>9, <1>11, <1>12, <1>13, <1>14 DEF PipeInv, CloseLast, OrderInv

-----------------------------------------------------------------------------
(* Every step preserves the invariant                                      *)

CoreInv == ClientInv /\ PipeInv /\ OrderInv

\* A step of a client that gives no command.
LEMMA NoCommand ==
    ASSUME CoreInv, CtxsKept, LivesOn, UNCHANGED <<filter_vars, status, opaque>>,
           \A c \in Clients : life'[c] \notin {"closing", "gone"} => given'[c] = given[c]
    PROVE  PipeInv' /\ OrderInv'
<1>1. UNCHANGED <<todo, status, queue, done, opaque>>
  BY DEF filter_vars
<1>2. PipeInv'
  BY <1>1, PipeKept DEF CoreInv, ClientInv
<1>3. OrderInv'
  BY <1>1, OrderKept DEF CoreInv, ClientInv
<1>4. QED
  BY <1>2, <1>3

LEMMA StepAccept ==
    ASSUME CoreInv, NEW c \in Clients, Accept(c)
    PROVE  CoreInv'
<1>1. ClientInv' /\ CtxsKept /\ LivesOn
  BY ClientAccepted DEF CoreInv
<1>2. UNCHANGED <<filter_vars, status, opaque>> /\ given' = given
  BY DEF Accept
<1>3. QED
  BY <1>1, <1>2, NoCommand DEF CoreInv

LEMMA StepOpen ==
    ASSUME CoreInv, NEW c \in Clients, media_common_open(c)
    PROVE  CoreInv'
BY ClientOpened, PipeOpened DEF CoreInv

LEMMA StepEnds ==
    ASSUME CoreInv, NEW c \in Clients, OpenFails(c) \/ Disconnect(c) \/ Dies(c)
    PROVE  CoreInv'
<1>1. life[c] \notin {"new", "gone"} /\ ClientEnds(c) /\ Gone(c) /\ UNCHANGED <<filter_vars, status, opaque>>
  BY DEF OpenFails, Disconnect, Dies, ClientEnds, Request
<1>2. ClientInv' /\ CtxsKept /\ LivesOn
  BY <1>1, ClientEnded DEF CoreInv
<1>3. \A d \in Clients : life'[d] \notin {"closing", "gone"} => given'[d] = given[d]
  BY <1>1 DEF Gone, CoreInv, ClientInv, ClientTypes
<1>4. QED
  BY <1>1, <1>2, <1>3, NoCommand DEF CoreInv

LEMMA StepCreateNotify ==
    ASSUME CoreInv, NEW c \in Clients, NEW ok \in BOOLEAN, CreateNotify(c, ok)
    PROVE  CoreInv'
<1> DEFINE new == media_server_create_notify(conns[entry[c]], c, ok)
<1>1. /\ life[c] = "open" /\ life' = [life EXCEPT ![c] = "listening"]
      /\ UNCHANGED <<entry, given, ctxs, opaque, filter_vars, status>>
  BY DEF CreateNotify
<1>2. entry[c] \in Cookies /\ conns[entry[c]] \in ConnType(Ctxs)
  BY <1>1 DEF CoreInv, ClientInv, ClientTypes, EntryOwn
<1>3. new \in ConnType(Ctxs) /\ new.tran_fd = conns[entry[c]].tran_fd /\ new.data = conns[entry[c]].data
  BY <1>2, CreateNotifyFields
<1>4. conns' = [conns EXCEPT ![entry[c]] = new]
  BY DEF CreateNotify
<1> HIDE DEF new
<1>5. /\ conns' \in [Cookies -> ConnType(Ctxs)]
      /\ \A k \in Cookies : conns'[k].tran_fd = conns[k].tran_fd /\ conns'[k].data = conns[k].data
  BY <1>2, <1>3, <1>4 DEF CoreInv, ClientInv, ClientTypes
<1>6. /\ life' \in [Clients -> {"new", "connected", "open", "listening", "closing", "gone"}]
      /\ \A d \in Clients : life'[d] = life[d] \/ (life[d] = "open" /\ life'[d] = "listening")
  BY <1>1 DEF CoreInv, ClientInv, ClientTypes
<1>7. ClientInv' /\ CtxsKept /\ LivesOn
  <2>1. ctxs' \in [Ctxs -> Ctx0 \cup {NULL}] /\ given' \in [Clients -> Nat]
    BY <1>1 DEF CoreInv, ClientInv, ClientTypes
  <2>2. QED
    BY <1>1, <1>5, <1>6, <2>1, ClientKept DEF CoreInv
<1>8. QED
  BY <1>1, <1>7, NoCommand DEF CoreInv

LEMMA StepSetEvent ==
    ASSUME CoreInv, NEW c \in Clients, SetEvent(c)
    PROVE  CoreInv'
<1>1. /\ life[c] \in {"open", "listening"} /\ Ctx(c) # NULL
      /\ UNCHANGED <<conns, life, entry, given, opaque, filter_vars, status>>
  BY DEF SetEvent, client_vars
<1>2. PICK x \in Ctxs : x = Ctx(c) /\ ctxs[x] # NULL /\ ctxs[x] \in Ctx0
  BY <1>1, CtxOwned DEF CoreInv, ClientInv, ClientTypes
<1> DEFINE new == [ctxs[x] EXCEPT !.event = TRUE]
<1>3. new \in Ctx0 /\ new # NULL /\ new.owner = ctxs[x].owner /\ new.filter = ctxs[x].filter
  <2>1. new \in Ctx0 /\ new.owner = ctxs[x].owner /\ new.filter = ctxs[x].filter
    BY <1>2 DEF Ctx0
  <2>2. QED
    BY <2>1, GraphNullAssumption
<1>4. ctxs' = [ctxs EXCEPT ![x] = new]
  BY <1>2 DEF SetEvent
<1> HIDE DEF new
<1>5. /\ ctxs' \in [Ctxs -> Ctx0 \cup {NULL}]
      /\ \A y \in Ctxs : /\ ctxs'[y] = NULL <=> ctxs[y] = NULL
                         /\ ctxs'[y].owner = ctxs[y].owner /\ ctxs'[y].filter = ctxs[y].filter
  BY <1>2, <1>3, <1>4 DEF CoreInv, ClientInv, ClientTypes
<1>6. ClientInv' /\ CtxsKept /\ LivesOn
  <2>1. /\ conns' \in [Cookies -> ConnType(Ctxs)] /\ given' \in [Clients -> Nat]
        /\ life' \in [Clients -> {"new", "connected", "open", "listening", "closing", "gone"}]
    BY <1>1 DEF CoreInv, ClientInv, ClientTypes
  <2>2. QED
    BY <1>1, <1>5, <2>1, ClientKept DEF CoreInv
<1>7. QED
  BY <1>1, <1>6, NoCommand DEF CoreInv

\* A query is carried out at once, and nothing is left of it.
LEMMA QueryPasses ==
    ASSUME NEW c \in Clients, NEW cmd \in Queries, Query(c, cmd)
    PROVE  UNCHANGED <<conns, client_vars, ctxs, opaque, filter_vars, status>>
<1> DEFINE m == [filter |-> ctxs[Ctx(c)].filter, cmd |-> cmd, n |-> 0]
<1>1. media_graph_queue_command(m, status) /\ UNCHANGED <<conns, client_vars, ctxs, opaque, status>>
  BY DEF Query
<1>2. m.cmd \in Queries /\ m.n = 0
  OBVIOUS
<1> HIDE DEF m
<1>3. UNCHANGED <<todo, queue, done>>
  BY <1>1, <1>2 DEF media_graph_queue_command, avfilter_process_command
<1>4. QED
  BY <1>1, <1>3 DEF filter_vars

LEMMA StepCommand ==
    ASSUME CoreInv, NEW c \in Clients, NEW cmd \in ClientCommands \ Queries, Command(c, cmd)
    PROVE  CoreInv'
<1>1. /\ life[c] \in {"open", "listening"} /\ Ctx(c) # NULL /\ given' = [given EXCEPT ![c] = given[c] + 1]
      /\ UNCHANGED <<conns, life, entry, ctxs, opaque, status>>
  BY DEF Command
<1>2. PICK f \in Filters :
         /\ f = ctxs[Ctx(c)].filter /\ opaque[f] = Ctx(c) /\ opaque[f] # NULL
         /\ ctxs[opaque[f]].owner = c /\ ~ Ends(f)
  BY <1>1, CtxOwned DEF CoreInv
<1>3. given[c] \in Nat /\ given'[c] = given[c] + 1 /\ given' \in [Clients -> Nat]
      /\ \A d \in Clients \ {c} : given'[d] = given[d]
  BY <1>1 DEF CoreInv, ClientInv, ClientTypes
<1> DEFINE m == [filter |-> f, cmd |-> cmd, n |-> given[c] + 1]
<1>4. m \in Commands /\ m.filter = f /\ m.n = given[c] + 1 /\ m.cmd # "close"
  BY <1>3, CommandsAssumption DEF Commands, Queries
<1>5. media_graph_queue_command(m, status)
  BY <1>2 DEF Command
<1> HIDE DEF m
<1>6. ClientInv' /\ CtxsKept /\ LivesOn
  <2>1. /\ conns' \in [Cookies -> ConnType(Ctxs)] /\ ctxs' \in [Ctxs -> Ctx0 \cup {NULL}]
        /\ life' \in [Clients -> {"new", "connected", "open", "listening", "closing", "gone"}]
    BY <1>1 DEF CoreInv, ClientInv, ClientTypes
  <2>2. \A d \in Clients : life[d] \in {"new", "connected"} => given'[d] = given[d]
    BY <1>1, <1>3
  <2>3. QED
    BY <1>1, <1>3, <2>1, <2>2, ClientKept DEF CoreInv
<1>7. PipeInv' /\ OrderInv'
  BY <1>1, <1>2, <1>3, <1>4, <1>5, <1>6, Given DEF CoreInv, ClientInv
<1>8. QED
  BY <1>6, <1>7 DEF CoreInv

LEMMA StepClose ==
    ASSUME CoreInv, NEW c \in Clients, NEW pending \in BOOLEAN, Close(c, pending)
    PROVE  CoreInv'
<1>1. /\ life[c] \in {"open", "listening"} /\ Ctx(c) # NULL /\ life' = [life EXCEPT ![c] = "closing"]
      /\ UNCHANGED <<entry, given, opaque, status>>
  BY DEF Close
<1>2. PICK f \in Filters, x \in Ctxs :
         /\ x = Ctx(c) /\ f = ctxs[x].filter /\ opaque[f] = x /\ opaque[f] # NULL
         /\ ctxs[x].owner = c /\ ctxs[x] # NULL /\ ctxs[x] \in Ctx0 /\ ~ Ends(f)
  BY <1>1, CtxOwned DEF CoreInv, ClientInv, ClientTypes
<1>3. /\ life' \in [Clients -> {"new", "connected", "open", "listening", "closing", "gone"}]
      /\ life'[c] = "closing" /\ \A d \in Clients \ {c} : life'[d] = life[d]
      /\ given[c] \in Nat /\ given' \in [Clients -> Nat]
  BY <1>1 DEF CoreInv, ClientInv, ClientTypes
<1> DEFINE m == [filter |-> f, cmd |-> "close", n |-> given[c] + 1]
<1>4. m \in Commands /\ m.filter = f /\ m.n = given[c] + 1
  BY <1>3 DEF Commands
<1>5. media_graph_queue_command(m, status)
  BY <1>2 DEF Close
<1> HIDE DEF m
<1>6. /\ conns' \in [Cookies -> ConnType(Ctxs)]
      /\ \A k \in Cookies : conns'[k].tran_fd = conns[k].tran_fd /\ conns'[k].data \in {conns[k].data, NULL}
      /\ ctxs' \in [Ctxs -> Ctx0 \cup {NULL}]
      /\ \A y \in Ctxs : /\ ctxs'[y] = NULL <=> ctxs[y] = NULL
                         /\ ctxs[y] # NULL => ctxs'[y].owner = ctxs[y].owner /\ ctxs'[y].filter = ctxs[y].filter
  <2>1. CASE pending
    BY <2>1 DEF Close, CoreInv, ClientInv, ClientTypes
  <2>2. CASE ~ pending
    <3> DEFINE new == [ctxs[x] EXCEPT !.cookie = NULL]
               k == ctxs[x].cookie
    <3>1. new \in Ctx0 /\ new # NULL /\ new.owner = ctxs[x].owner /\ new.filter = ctxs[x].filter
      <4>1. new \in Ctx0 /\ new.owner = ctxs[x].owner /\ new.filter = ctxs[x].filter
        BY <1>2 DEF Ctx0
      <4>2. QED
        BY <4>1, GraphNullAssumption
    <3>2. ctxs' = [ctxs EXCEPT ![x] = new] /\ conns' = [conns EXCEPT ![k] = media_server_finalize(conns[k])]
      <4>1. conns' = [conns EXCEPT ![k] = media_server_finalize(@)]
        BY <1>2, <2>2 DEF Close
      <4>2. QED
        BY <1>2, <2>2, <4>1 DEF Close
    <3>3. k \in Cookies \cup {NULL}
      BY <1>2 DEF Ctx0
    <3> HIDE DEF new, k
    <3>4. /\ ctxs' \in [Ctxs -> Ctx0 \cup {NULL}]
          /\ \A y \in Ctxs : /\ ctxs'[y] = NULL <=> ctxs[y] = NULL
                             /\ ctxs'[y].owner = ctxs[y].owner /\ ctxs'[y].filter = ctxs[y].filter
      BY <1>2, <3>1, <3>2 DEF CoreInv, ClientInv, ClientTypes
    <3>5. CASE k \in Cookies
      BY <3>2, <3>4, <3>5, OneFinalized DEF CoreInv, ClientInv
    <3>6. CASE k \notin Cookies
      <4>1. conns' = conns
        BY <3>2, <3>6 DEF CoreInv, ClientInv, ClientTypes
      <4>2. QED
        BY <3>4, <4>1 DEF CoreInv, ClientInv, ClientTypes
    <3>7. QED
      BY <3>5, <3>6
  <2>3. QED
    BY <2>1, <2>2
<1>7. ClientInv' /\ CtxsKept /\ LivesOn
  BY <1>1, <1>3, <1>6, ClientKept DEF CoreInv
<1>8. Ends(f)'
  <2>1. ctxs'[x].owner = c
    BY <1>2, <1>6
  <2>2. QED
    BY <1>1, <1>2, <1>3, <2>1 DEF Ends
<1>9. PipeInv' /\ OrderInv'
  BY <1>1, <1>2, <1>3, <1>4, <1>5, <1>7, <1>8, Given DEF CoreInv, ClientInv
<1>10. QED
  BY <1>7, <1>9 DEF CoreInv

\* A step that no client takes.
LEMMA NoClient ==
    ASSUME ClientInv, UNCHANGED <<conns, client_vars, ctxs, opaque>>
    PROVE  ClientInv' /\ CtxsKept /\ LivesOn
<1>1. UNCHANGED <<conns, life, entry, given, ctxs, opaque>>
  BY DEF client_vars
<1>2. /\ conns' \in [Cookies -> ConnType(Ctxs)] /\ ctxs' \in [Ctxs -> Ctx0 \cup {NULL}]
      /\ life' \in [Clients -> {"new", "connected", "open", "listening", "closing", "gone"}]
      /\ given' \in [Clients -> Nat]
  BY <1>1 DEF ClientInv, ClientTypes
<1>3. QED
  BY <1>1, <1>2, ClientKept

LEMMA StepWorker ==
    ASSUME CoreInv, NEW f \in Filters, Worker(f)
    PROVE  CoreInv'
<1>1. UNCHANGED <<conns, client_vars, ctxs, opaque>>
  BY DEF Worker
<1>2. QED
  BY <1>1, NoClient, Worked DEF CoreInv

LEMMA StepIdle ==
    ASSUME CoreInv, UNCHANGED <<conns, client_vars, ctxs, opaque, filter_vars, status>>
    PROVE  CoreInv'
<1>1. ClientInv' /\ CtxsKept /\ LivesOn
  BY NoClient DEF CoreInv
<1>2. given' = given /\ UNCHANGED <<filter_vars, status, opaque>>
  BY DEF client_vars
<1>3. QED
  BY <1>1, <1>2, NoCommand DEF CoreInv

LEMMA StepDequeue ==
    ASSUME CoreInv, NEW accepts \in BOOLEAN, media_graph_dequeue_command(accepts)
    PROVE  CoreInv'
<1>1. UNCHANGED <<conns, client_vars, ctxs, opaque>>
  BY DEF media_graph_dequeue_command
<1>2. PipeInv' /\ OrderInv'
  BY Dequeued DEF CoreInv
<1>3. QED
  BY <1>1, <1>2, NoClient DEF CoreInv

\* The filter is free when it has reported its close, and so is its context.
LEMMA ClientClosed ==
    ASSUME ClientInv, NEW f \in Filters, opaque[f] # NULL, Ends(f),
           conns' = IF ctxs[opaque[f]].cookie = NULL THEN conns
                    ELSE [conns EXCEPT ![ctxs[opaque[f]].cookie] = media_server_finalize(@)],
           opaque' = [opaque EXCEPT ![f] = NULL], ctxs' = [ctxs EXCEPT ![opaque[f]] = NULL],
           UNCHANGED client_vars
    PROVE  ClientInv'
<1>1. PICK x \in Ctxs :
         /\ x = opaque[f] /\ ctxs[x] # NULL /\ ctxs[x].filter = f
         /\ life[ctxs[x].owner] \in {"closing", "gone"} /\ ctxs[x].cookie \in Cookies \cup {NULL}
  BY TakenFields, CtxFields DEF ClientInv, Ends
<1>2. /\ conns' \in [Cookies -> ConnType(Ctxs)]
      /\ \A k \in Cookies : conns'[k].tran_fd = conns[k].tran_fd /\ conns'[k].data \in {conns[k].data, NULL}
  <2>1. CASE ctxs[x].cookie = NULL
    BY <1>1, <2>1 DEF ClientInv, ClientTypes
  <2>2. CASE ctxs[x].cookie # NULL
    <3>1. PICK k \in Cookies : k = ctxs[x].cookie
      BY <1>1, <2>2
    <3>2. conns' = [conns EXCEPT ![k] = media_server_finalize(conns[k])]
      BY <1>1, <2>2, <3>1
    <3>3. QED
      BY <3>2, OneFinalized DEF ClientInv
  <2>3. QED
    BY <2>1, <2>2
<1>3. /\ ctxs' \in [Ctxs -> Ctx0 \cup {NULL}] /\ ctxs'[x] = NULL /\ \A y \in Ctxs \ {x} : ctxs'[y] = ctxs[y]
      /\ opaque' \in [Filters -> Ctxs \cup {NULL}] /\ opaque'[f] = NULL
      /\ \A g \in Filters \ {f} : opaque'[g] = opaque[g]
  BY <1>1 DEF ClientInv, ClientTypes
<1>4. UNCHANGED <<life, entry, given>>
  BY DEF client_vars
<1>5. ClientTypes'
  BY <1>2, <1>3, <1>4 DEF ClientInv, ClientTypes
<1>6. Linked'
  <2>1. ASSUME NEW g \in Filters, opaque'[g] # NULL
        PROVE  ctxs'[opaque'[g]] # NULL /\ ctxs'[opaque'[g]].filter = g
    <3>1. g # f /\ opaque'[g] = opaque[g]
      BY <1>3, <2>1
    <3>2. opaque[g] \in Ctxs /\ ctxs[opaque[g]] # NULL /\ ctxs[opaque[g]].filter = g
      BY <2>1, <3>1, TakenFields DEF ClientInv
    <3>3. QED
      BY <1>1, <1>3, <3>1, <3>2
  <2>2. ASSUME NEW y \in Ctxs, ctxs'[y] # NULL
        PROVE  opaque'[ctxs'[y].filter] = y
    <3>1. y # x /\ ctxs'[y] = ctxs[y] /\ ctxs[y] # NULL
      BY <1>3, <2>2
    <3>2. ctxs[y].filter \in Filters /\ opaque[ctxs[y].filter] = y
      BY <3>1, CtxFields DEF ClientInv, Linked
    <3>3. QED
      BY <1>1, <1>3, <3>1, <3>2
  <2>3. QED
    BY <2>1, <2>2 DEF Linked
<1>7. EntryOwn' /\ NothingGiven'
  BY <1>2, <1>4 DEF ClientInv, EntryOwn, NothingGiven
<1>8. OneCtx'
  BY <1>3, <1>4, CtxFields DEF ClientInv, OneCtx
<1>9. DataOwn'
  <2> SUFFICES ASSUME NEW c \in Clients, life[c] \in {"open", "listening"}, conns'[entry[c]].data # NULL
               PROVE  LET y == conns'[entry[c]].data IN ctxs'[y] # NULL /\ ctxs'[y].owner = c
    BY <1>4 DEF DataOwn, Ctx, media_server_get_data
  <2>1. entry[c] \in Cookies
    BY DEF ClientInv, EntryOwn
  <2>2. conns'[entry[c]].data = Ctx(c) /\ Ctx(c) # NULL
    BY <1>2, <2>1 DEF Ctx, media_server_get_data
  <2>3. Ctx(c) \in Ctxs /\ ctxs[Ctx(c)] # NULL /\ ctxs[Ctx(c)].owner = c
    BY <2>2, CtxOwned
  <2>4. Ctx(c) # x
    BY <1>1, <2>3
  <2>5. QED
    BY <1>3, <2>2, <2>3, <2>4
<1>10. QED
  BY <1>5, <1>6, <1>7, <1>8, <1>9 DEF ClientInv

\* What a filter reports changes the streams that are active.
NowActive(f, e) ==
    CASE e = "STARTED" -> active \cup {f}
      [] e = "STARTED with an error" -> active
      [] OTHER -> active \ {f}

LEMMA StepDeliver ==
    ASSUME CoreInv, active \in SUBSET Filters, NEW f \in Filters, Deliver(f)
    PROVE  CoreInv' /\ active' \in SUBSET Filters
<1> DEFINE rest == [status EXCEPT ![f] = Tail(@)]
<1>1. status[f] # <<>> /\ status' = rest /\ UNCHANGED client_vars
  BY DEF Deliver
<1>2. status' = [status EXCEPT ![f] = Tail(status[f])]
  BY <1>1
<1>3. \/ Head(status[f]) = "CLOSED" /\ Closed(f, opaque[f], rest)
      \/ Head(status[f]) # "CLOSED" /\ Reported(f, Head(status[f]), rest)
  BY DEF Deliver
<1> HIDE DEF rest
<1>4. status[f] \in Seq(Events) /\ 1 \in DOMAIN status[f] /\ status[f][1] = Head(status[f])
  BY <1>1 DEF CoreInv, PipeInv, PipeTypes
<1>5. opaque[f] # NULL
  BY <1>1 DEF CoreInv, PipeInv, BusyTaken
<1>6. CASE Head(status[f]) = "CLOSED" /\ Closed(f, opaque[f], rest)
  <2>1. Ends(f)
    BY <1>4, <1>6 DEF CoreInv, PipeInv, CloseLast, ReportedLast
  <2>2. ClientInv'
    BY <1>1, <1>5, <1>6, <2>1, ClientClosed DEF CoreInv, Closed
  <2>3. active' = active \ {f} /\ UNCHANGED <<todo, done>> /\ SilentAdded
    <3>1. media_stub_set_stream_status(active \ {f}, rest) /\ active \ {f} \in SUBSET Filters
      BY <1>6 DEF Closed
    <3>2. QED
      BY <3>1, PolicyOnly DEF CoreInv, PipeInv
  <2>4. opaque' = [opaque EXCEPT ![f] = NULL] /\ ctxs' = [ctxs EXCEPT ![opaque[f]] = NULL]
    BY <1>6 DEF Closed
  <2>5. \A g \in Filters : opaque'[g] # opaque[g] => g = f /\ opaque'[f] = NULL
    BY <2>4 DEF CoreInv, ClientInv, ClientTypes
  <2>6. ASSUME NEW g \in Filters, opaque'[g] # NULL
        PROVE  ctxs'[opaque[g]] = ctxs[opaque[g]]
    <3>1. g # f /\ opaque[g] # NULL
      BY <2>4, <2>6 DEF CoreInv, ClientInv, ClientTypes
    <3>2. opaque[g] # opaque[f]
      BY <1>5, <3>1, TakenFields DEF CoreInv, ClientInv
    <3>3. opaque[g] \in Ctxs
      BY <3>1, TakenFields DEF CoreInv, ClientInv
    <3>4. QED
      BY <2>4, <3>2, <3>3 DEF CoreInv, ClientInv, ClientTypes
  <2>7. PipeInv' /\ OrderInv'
    BY <1>1, <1>2, <1>6, <2>3, <2>5, <2>6, Taken DEF CoreInv
  <2>8. QED
    BY <2>2, <2>3, <2>7 DEF CoreInv
<1>7. CASE Head(status[f]) # "CLOSED" /\ Reported(f, Head(status[f]), rest)
  <2>1. UNCHANGED <<conns, client_vars, ctxs, opaque>>
    BY <1>1, <1>7 DEF Reported
  <2>2. active' \in SUBSET Filters /\ UNCHANGED <<todo, done>> /\ SilentAdded
    <3>1. PICK now \in SUBSET Filters : media_stub_set_stream_status(now, rest)
      <4>1. NowActive(f, Head(status[f])) \in SUBSET Filters
        BY DEF NowActive
      <4>2. media_stub_set_stream_status(NowActive(f, Head(status[f])), rest)
        BY <1>7 DEF Reported, NowActive
      <4>3. QED
        BY <4>1, <4>2
    <3>2. QED
      BY <3>1, PolicyOnly DEF CoreInv, PipeInv
  <2>3. PipeInv' /\ OrderInv'
    BY <1>1, <1>2, <2>1, <2>2, Taken DEF CoreInv
  <2>4. QED
    BY <2>1, <2>2, <2>3, NoClient DEF CoreInv
<1>8. QED
  BY <1>3, <1>6, <1>7

LEMMA CoreStep ==
    ASSUME CoreInv, active \in SUBSET Filters, [Next]_vars
    PROVE  CoreInv'
<1>1. ASSUME NEW c \in Clients, Accept(c)
      PROVE  CoreInv'
  BY <1>1, StepAccept
<1>2. ASSUME NEW c \in Clients, media_common_open(c)
      PROVE  CoreInv'
  BY <1>2, StepOpen
<1>3. ASSUME NEW c \in Clients, OpenFails(c) \/ Disconnect(c) \/ Dies(c)
      PROVE  CoreInv'
  BY <1>3, StepEnds
<1>4. ASSUME NEW c \in Clients, NEW ok \in BOOLEAN, CreateNotify(c, ok)
      PROVE  CoreInv'
  BY <1>4, StepCreateNotify
<1>5. ASSUME NEW c \in Clients, SetEvent(c)
      PROVE  CoreInv'
  BY <1>5, StepSetEvent
<1>6. ASSUME NEW c \in Clients, NEW cmd \in ClientCommands \ Queries, Command(c, cmd)
      PROVE  CoreInv'
  BY <1>6, StepCommand
<1>7. ASSUME NEW c \in Clients, NEW pending \in BOOLEAN, Close(c, pending)
      PROVE  CoreInv'
  BY <1>7, StepClose
<1>8. ASSUME NEW f \in Filters, Worker(f)
      PROVE  CoreInv'
  BY <1>8, StepWorker
<1>9. ASSUME NEW f \in Filters, Deliver(f)
      PROVE  CoreInv'
  BY <1>9, StepDeliver
<1>10. ASSUME NEW accepts \in BOOLEAN, media_graph_dequeue_command(accepts)
       PROVE  CoreInv'
  BY <1>10, StepDequeue
<1>11. CASE OtherActivity \/ RunOnce \/ RunDone
  <2>1. UNCHANGED <<conns, client_vars, ctxs, opaque, filter_vars, status>>
    BY <1>11 DEF OtherActivity, RunOnce, RunDone
  <2>2. QED
    BY <2>1, StepIdle
<1>12. CASE UNCHANGED vars
  <2>1. UNCHANGED <<conns, client_vars, ctxs, opaque, filter_vars, status>>
    BY <1>12 DEF vars
  <2>2. QED
    BY <2>1, StepIdle
<1>13. ASSUME NEW c \in Clients, NEW cmd \in Queries, Query(c, cmd)
       PROVE  CoreInv'
  BY <1>13, QueryPasses, StepIdle
<1>14. QED
  BY <1>1, <1>2, <1>3, <1>4, <1>5, <1>6, <1>7, <1>8, <1>9, <1>10, <1>11, <1>12, <1>13 DEF Next, Loop

\* Where the daemon's loop stands, and who was gone before it listened.
LEMMA LoopStep ==
    ASSUME CoreInv, LoopTypes, [Next]_vars
    PROVE  LoopTypes'
<1>1. ASSUME NEW c \in Clients,
             \/ Accept(c) \/ media_common_open(c) \/ OpenFails(c) \/ SetEvent(c) \/ Disconnect(c) \/ Dies(c)
             \/ \E ok \in BOOLEAN : CreateNotify(c, ok)
             \/ \E cmd \in ClientCommands \ Queries : Command(c, cmd)
             \/ \E cmd \in Queries : Query(c, cmd)
             \/ \E pending \in BOOLEAN : Close(c, pending)
      PROVE  LoopTypes'
  <2>1. UNCHANGED <<active, phase>>
    BY <1>1 DEF Accept, media_common_open, OpenFails, SetEvent, Disconnect, Dies, CreateNotify, Command, Query,
                Close
  <2>2. Request(c)
    BY <1>1 DEF Accept, media_common_open, OpenFails, SetEvent, Disconnect, Dies, CreateNotify, Command, Query,
                Close
  <2>3. wake' = TRUE
    BY <2>2 DEF Request
  <2>4. deaf' \in SUBSET Clients
    <3>1. deaf' = deaf \/ deaf' = deaf \cup {c}
      BY <1>1 DEF Accept, media_common_open, OpenFails, SetEvent, Disconnect, Dies, CreateNotify, Command, Query,
                  Close, Gone, client_vars
    <3>2. QED
      BY <3>1 DEF LoopTypes
  <2>5. QED
    BY <2>1, <2>3, <2>4 DEF LoopTypes
<1>2. ASSUME NEW f \in Filters, Worker(f)
      PROVE  LoopTypes'
  BY <1>2 DEF Worker, LoopTypes, client_vars
<1>3. ASSUME NEW f \in Filters, Deliver(f)
      PROVE  LoopTypes'
  <2>1. active' \in SUBSET Filters
    BY <1>3, StepDeliver DEF LoopTypes
  <2>2. UNCHANGED <<phase, wake, deaf>>
    BY <1>3 DEF Deliver, client_vars
  <2>3. QED
    BY <2>1, <2>2 DEF LoopTypes
<1>4. CASE OtherActivity
  BY <1>4 DEF OtherActivity, LoopTypes, client_vars
<1>5. CASE RunOnce
  BY <1>5 DEF RunOnce, LoopTypes, client_vars
<1>6. CASE RunDone
  BY <1>6 DEF RunDone, LoopTypes, client_vars
<1>7. ASSUME NEW accepts \in BOOLEAN, media_graph_dequeue_command(accepts)
      PROVE  LoopTypes'
  <2>1. phase' \in {"drain", "poll"} /\ UNCHANGED <<active, wake, deaf>>
    BY <1>7 DEF media_graph_dequeue_command, client_vars
  <2>2. QED
    BY <2>1 DEF LoopTypes
<1>8. CASE UNCHANGED vars
  BY <1>8 DEF vars, LoopTypes, client_vars
<1>9. QED
  BY <1>1, <1>2, <1>3, <1>4, <1>5, <1>6, <1>7, <1>8 DEF Next, Loop

LEMMA GraphInit == Init => GraphInv
<1> SUFFICES ASSUME Init
             PROVE  GraphInv
  OBVIOUS
<1>1. /\ \A c \in Clients : life[c] = "new" /\ given[c] = 0
      /\ \A x \in Ctxs : ctxs[x] = NULL
      /\ \A f \in Filters : opaque[f] = NULL /\ todo[f] = <<>> /\ status[f] = <<>>
      /\ queue = <<>> /\ DOMAIN queue = {} /\ DOMAIN <<>> = {}
  BY DEF Init
<1>2. ClientTypes
  <2>1. conns \in [Cookies -> ConnType(Ctxs)]
    BY ZeroConnFields DEF Init
  <2>2. QED
    BY <2>1 DEF Init, ClientTypes
<1>3. Linked /\ EntryOwn /\ OneCtx /\ NothingGiven /\ DataOwn
  BY <1>1 DEF Linked, EntryOwn, OneCtx, NothingGiven, DataOwn
<1>4. PipeTypes /\ PolicyQueued /\ BusyTaken
  <2>1. PipeTypes
    BY DEF Init, PipeTypes
  <2>2. QED
    BY <1>1, <2>1 DEF PolicyQueued, BusyTaken
<1>5. CloseLast
  BY <1>1 DEF CloseLast, ReportedLast, WorkedLast, QueuedLast
<1>6. OrderInv
  <2>1. \A f \in Filters : done[f] = <<>> /\ Len(done[f]) = 0
    BY DEF Init
  <2>2. QED
    BY <1>1, <2>1 DEF OrderInv, Numbered, QueueInOrder, QueueComplete
<1>7. LoopTypes
  BY DEF Init, LoopTypes
<1>8. QED
  BY <1>2, <1>3, <1>4, <1>5, <1>6, <1>7 DEF GraphInv, ClientInv, PipeInv

LEMMA GraphStep == GraphInv /\ [Next]_vars => GraphInv'
<1> SUFFICES ASSUME GraphInv, [Next]_vars
             PROVE  GraphInv'
  OBVIOUS
<1>1. CoreInv /\ LoopTypes /\ active \in SUBSET Filters
  BY DEF GraphInv, CoreInv, LoopTypes
<1>2. CoreInv' /\ LoopTypes'
  BY <1>1, CoreStep, LoopStep
<1>3. QED
  BY <1>2 DEF GraphInv, CoreInv

LEMMA GraphHolds == Spec => []GraphInv
<1>1. QED
  BY GraphInit, GraphStep, PTL DEF Spec

(* Every variable has its type, and a filter that has something to do or   *)
(* to report has a context that is not free.                               *)
THEOREM GraphTypeCorrect == Spec => []GraphTypeOK
<1>1. GraphInv => GraphTypeOK
  <2> SUFFICES ASSUME GraphInv
               PROVE  GraphTypeOK
    OBVIOUS
  <2>1. /\ conns \in [Cookies -> ConnType(Ctxs)]
        /\ ctxs \in [Ctxs -> Ctx0 \cup {NULL}] /\ opaque \in [Filters -> Ctxs \cup {NULL}]
        /\ life \in [Clients -> {"new", "connected", "open", "listening", "closing", "gone"}]
    BY DEF GraphInv, ClientInv, ClientTypes
  <2>2. queue \in Seq(Commands) /\ active \subseteq Filters /\ phase \in {"poll", "run", "drain"}
    BY DEF GraphInv, PipeInv, PipeTypes, LoopTypes
  <2>3. wake \in BOOLEAN /\ deaf \subseteq Clients
    BY DEF GraphInv, LoopTypes
  <2>4. ASSUME NEW f \in Filters, todo[f] # <<>> \/ status[f] # <<>>
        PROVE  opaque[f] # NULL /\ ctxs[opaque[f]] # NULL
    BY <2>4, TakenFields DEF GraphInv, ClientInv, PipeInv, BusyTaken
  <2>5. QED
    BY <2>1, <2>2, <2>3, <2>4 DEF GraphTypeOK
<1>2. QED
  BY <1>1, GraphHolds, PTL

(* The commands without a result that a client gives to its player reach   *)
(* the filter in their order, each once and none left out, whether they    *)
(* were queued or not.                                                     *)
THEOREM CommandsInOrder == Spec => []InOrder
<1>1. GraphInv => InOrder
  BY DEF GraphInv, OrderInv, Numbered, InOrder
<1>2. QED
  BY <1>1, GraphHolds, PTL

-----------------------------------------------------------------------------
(* A player keeps its connection.  A context names an entry of the table   *)
(* and not a client, and the entry may be used again when its client has   *)
(* gone; it is not, as long as a socket for events is open on it.  So the  *)
(* entry of a context that can still be told of something must have the    *)
(* socket of its own client.  Two things break that: a listener that the   *)
(* server fails to connect to, and a close that waits for a report nobody  *)
(* listens for.                                                            *)

AllListen == Faults \cap {"notify", "pending"} = {}

\* An entry that was never used has no event socket.
Unused == \A k \in Cookies : conns[k].tran_fd = NULL => ~ Open(conns[k].notify_fd)

\* The entry a client gets has none, and later its own.
NotifyOwn ==
    \A c \in Clients :
        /\ life[c] \in {"connected", "open"} => ~ Open(conns[entry[c]].notify_fd)
        /\ life[c] = "listening" => conns[entry[c]].notify_fd = c

\* Nobody else gives up the data of its connection.
KeepsCtx ==
    \A c \in Clients : life[c] \in {"open", "listening"} => Ctx(c) # NULL /\ ctxs[Ctx(c)].cookie = entry[c]

\* The close of a filter is on its way.
CloseReported(f) == \E i \in DOMAIN status[f] : status[f][i] = "CLOSED"
CloseWorked(f) == \E i \in DOMAIN todo[f] : todo[f][i] = "close"
CloseQueued(f) == \E i \in DOMAIN queue : queue[i].filter = f /\ queue[i].cmd = "close"
Closing(f) == CloseReported(f) \/ CloseWorked(f) \/ CloseQueued(f)

\* A context that tells of events, of a client that was not gone before it
\* listened; until it listens there is nobody to tell.
Tells(x) == ctxs[x].event /\ life[ctxs[x].owner] # "open" /\ ctxs[x].owner \notin deaf

\* A client that waits for its close to be reported listens, and whoever a
\* context can still tell, or be finalized for, is its client.
CookieHeard(x) ==
    ctxs[x] # NULL /\ ctxs[x].cookie # NULL =>
        /\ life[ctxs[x].owner] = "closing" => ctxs[x].cookie = entry[ctxs[x].owner]
        /\ life[ctxs[x].owner] = "closing" \/ Tells(x) \/ Closing(ctxs[x].filter) =>
              conns[ctxs[x].cookie].notify_fd = ctxs[x].owner

KeepInv == Unused /\ NotifyOwn /\ KeepsCtx /\ \A x \in Ctxs : CookieHeard(x)

\* No close begins.
NoNewClose == \A f \in Filters : Closing(f)' => Closing(f)

LEMMA ClosingKept ==
    ASSUME UNCHANGED <<todo, status, queue>>
    PROVE  NoNewClose
BY DEF NoNewClose, Closing, CloseReported, CloseWorked, CloseQueued

\* A context that is left alone, and whose client keeps its event socket.
LEMMA CookieSame ==
    ASSUME ClientTypes, KeepInv, NEW x \in Ctxs, ctxs'[x] = ctxs[x],
           ctxs[x] # NULL /\ life'[ctxs[x].owner] = "closing" =>
               life[ctxs[x].owner] = "closing" /\ entry'[ctxs[x].owner] = entry[ctxs[x].owner],
           ctxs[x] # NULL /\ ctxs[x].cookie # NULL /\ Tells(x)' => Tells(x),
           \A f \in Filters : ctxs[x] # NULL /\ ctxs[x].filter = f /\ Closing(f)' => Closing(f),
           \A k \in Cookies : ctxs[x] # NULL /\ ctxs[x].cookie = k /\ conns[k].notify_fd = ctxs[x].owner =>
               conns'[k].notify_fd = ctxs[x].owner
    PROVE  CookieHeard(x)'
<1> SUFFICES ASSUME ctxs[x] # NULL, ctxs[x].cookie # NULL
             PROVE  CookieHeard(x)'
  BY DEF CookieHeard
<1>1. PICK f \in Filters, k \in Cookies, c \in Clients :
         f = ctxs[x].filter /\ k = ctxs[x].cookie /\ c = ctxs[x].owner
  BY CtxFields
<1>2. ctxs'[x].filter = f /\ ctxs'[x].cookie = k /\ ctxs'[x].owner = c
  BY <1>1
<1>3. /\ life[c] = "closing" => k = entry[c]
      /\ life[c] = "closing" \/ Tells(x) \/ Closing(f) => conns[k].notify_fd = c
  BY <1>1 DEF KeepInv, CookieHeard
<1>4. life'[c] = "closing" => k = entry'[c]
  BY <1>1, <1>3
<1>5. life'[c] = "closing" \/ Tells(x)' \/ Closing(f)' => conns'[k].notify_fd = c
  BY <1>1, <1>3
<1>6. Closing(ctxs[x].filter)' => Closing(f)'
  BY <1>2 DEF Closing, CloseReported, CloseWorked, CloseQueued
<1>7. QED
  BY <1>2, <1>4, <1>5, <1>6 DEF CookieHeard

LEMMA KeepSame ==
    ASSUME ClientInv, KeepInv, NoNewClose, UNCHANGED <<conns, life, entry, deaf, ctxs>>
    PROVE  KeepInv'
<1>1. Unused' /\ NotifyOwn' /\ KeepsCtx'
  BY DEF KeepInv, Unused, NotifyOwn, KeepsCtx, Ctx, media_server_get_data
<1>2. \A x \in Ctxs : Tells(x)' = Tells(x)
  BY DEF Tells
<1>3. \A x \in Ctxs : CookieHeard(x)'
  BY <1>2, CookieSame DEF ClientInv, NoNewClose
<1>4. QED
  BY <1>1, <1>3 DEF KeepInv

\* A command that waits at its filter or a report that joins others.
LEMMA AppendElems ==
    ASSUME NEW S, NEW s \in Seq(S), NEW e \in S
    PROVE  \A i \in DOMAIN Append(s, e) : Append(s, e)[i] = e \/ (i \in DOMAIN s /\ Append(s, e)[i] = s[i])
OBVIOUS

LEMMA TailElems ==
    ASSUME NEW S, NEW s \in Seq(S), s # <<>>
    PROVE  /\ s[1] = Head(s) /\ 1 \in DOMAIN s /\ Head(s) \in S
           /\ \A i \in DOMAIN Tail(s) : i + 1 \in DOMAIN s /\ Tail(s)[i] = s[i + 1]
OBVIOUS

LEMMA CloseProcessed ==
    ASSUME PipeTypes, NEW m \in Commands, NEW accepts \in BOOLEAN, avfilter_process_command(m, accepts),
           NEW f \in Filters, CloseWorked(f)'
    PROVE  CloseWorked(f) \/ (m.cmd = "close" /\ f = m.filter)
<1>1. CASE todo'[f] = todo[f]
  BY <1>1 DEF CloseWorked
<1>2. CASE f = m.filter /\ m.cmd \in Slow /\ todo'[f] = Append(todo[f], m.cmd)
  <2>1. todo[f] \in Seq(Slow)
    BY DEF PipeTypes
  <2>2. \A i \in DOMAIN todo'[f] : todo'[f][i] = m.cmd \/ (i \in DOMAIN todo[f] /\ todo'[f][i] = todo[f][i])
    BY <1>2, <2>1, AppendElems
  <2>3. QED
    BY <1>2, <2>2 DEF CloseWorked
<1>3. QED
  BY <1>1, <1>2, FilterGiven

\* What giving a command to a filter or to the queue begins.
LEMMA CloseGiven ==
    ASSUME PipeTypes, NEW m \in Commands, media_graph_queue_command(m, status), UNCHANGED status
    PROVE  \A f \in Filters : Closing(f)' => Closing(f) \/ (m.cmd = "close" /\ f = m.filter)
<1> SUFFICES ASSUME NEW f \in Filters, Closing(f)'
             PROVE  Closing(f) \/ (m.cmd = "close" /\ f = m.filter)
  OBVIOUS
<1>1. CloseReported(f)' => CloseReported(f)
  BY DEF CloseReported
<1>2. CASE queue' = Append(queue, m) /\ UNCHANGED todo
  <2>1. \A i \in DOMAIN queue' : queue'[i] = m \/ (i \in DOMAIN queue /\ queue'[i] = queue[i])
    <3>1. queue \in Seq(Commands)
      BY DEF PipeTypes
    <3>2. \A i \in DOMAIN Append(queue, m) :
             Append(queue, m)[i] = m \/ (i \in DOMAIN queue /\ Append(queue, m)[i] = queue[i])
      BY <3>1, AppendElems
    <3>3. QED
      BY <1>2, <3>2, Zenon
  <2>2. ASSUME NEW i \in DOMAIN queue', queue'[i].filter = f, queue'[i].cmd = "close"
        PROVE  CloseQueued(f) \/ (m.cmd = "close" /\ f = m.filter)
    BY <2>1, <2>2 DEF CloseQueued
  <2>3. CloseWorked(f)' => CloseWorked(f)
    BY <1>2 DEF CloseWorked
  <2>4. CloseQueued(f)' => CloseQueued(f) \/ (m.cmd = "close" /\ f = m.filter)
    BY <2>2 DEF CloseQueued
  <2>5. QED
    BY <1>1, <2>3, <2>4 DEF Closing
<1>3. ASSUME NEW accepts \in BOOLEAN, avfilter_process_command(m, accepts), UNCHANGED queue
      PROVE  Closing(f) \/ (m.cmd = "close" /\ f = m.filter)
  <2>1. CloseQueued(f)' => CloseQueued(f)
    BY <1>3 DEF CloseQueued
  <2>2. QED
    BY <1>1, <1>3, <2>1, CloseProcessed DEF Closing
<1>4. QED
  BY <1>2, <1>3 DEF media_graph_queue_command

LEMMA CloseByWorker ==
    ASSUME PipeTypes, NEW f \in Filters, Worker(f)
    PROVE  NoNewClose
<1>1. PICK e \in Report(Head(todo[f])) : status' = [status EXCEPT ![f] = Append(status[f], e)]
  BY DEF Worker
<1>2. todo[f] # <<>> /\ todo' = [todo EXCEPT ![f] = Tail(todo[f])] /\ queue' = queue
  BY DEF Worker
<1>3. /\ todo[f][1] = Head(todo[f]) /\ 1 \in DOMAIN todo[f] /\ Head(todo[f]) \in Slow
      /\ \A i \in DOMAIN Tail(todo[f]) : i + 1 \in DOMAIN todo[f] /\ Tail(todo[f])[i] = todo[f][i + 1]
  BY <1>2, TailElems DEF PipeTypes
<1>4. e \in Events /\ (e = "CLOSED" => todo[f][1] = "close")
  BY <1>1, <1>3 DEF Report, Slow, Events
<1>5. \A i \in DOMAIN Append(status[f], e) :
         Append(status[f], e)[i] = e \/ (i \in DOMAIN status[f] /\ Append(status[f], e)[i] = status[f][i])
  BY <1>4, AppendElems DEF PipeTypes
<1>6. /\ status'[f] = Append(status[f], e) /\ todo'[f] = Tail(todo[f])
      /\ \A g \in Filters \ {f} : status'[g] = status[g] /\ todo'[g] = todo[g]
  BY <1>1, <1>2 DEF PipeTypes
<1>7. \A g \in Filters : CloseReported(g)' => CloseReported(g) \/ CloseWorked(g)
  <2>1. CloseReported(f)' => CloseReported(f) \/ CloseWorked(f)
    BY <1>3, <1>4, <1>5, <1>6 DEF CloseReported, CloseWorked
  <2>2. \A g \in Filters \ {f} : CloseReported(g)' => CloseReported(g)
    BY <1>6 DEF CloseReported
  <2>3. QED
    BY <2>1, <2>2
<1>8. \A g \in Filters : CloseWorked(g)' => CloseWorked(g)
  <2>1. CloseWorked(f)' => CloseWorked(f)
    BY <1>3, <1>6 DEF CloseWorked
  <2>2. \A g \in Filters \ {f} : CloseWorked(g)' => CloseWorked(g)
    BY <1>6 DEF CloseWorked
  <2>3. QED
    BY <2>1, <2>2
<1>9. \A g \in Filters : CloseQueued(g)' => CloseQueued(g)
  BY <1>2 DEF CloseQueued
<1>10. QED
  BY <1>7, <1>8, <1>9 DEF NoNewClose, Closing

LEMMA CloseDequeued ==
    ASSUME PipeTypes, NEW accepts \in BOOLEAN, media_graph_dequeue_command(accepts)
    PROVE  NoNewClose
<1>1. queue # <<>> /\ queue' = Tail(queue) /\ UNCHANGED status /\ avfilter_process_command(Head(queue), accepts)
  BY DEF media_graph_dequeue_command
<1>2. /\ queue[1] = Head(queue) /\ 1 \in DOMAIN queue /\ Head(queue) \in Commands
      /\ \A i \in DOMAIN queue' : i + 1 \in DOMAIN queue /\ queue'[i] = queue[i + 1]
  BY <1>1, TailElems DEF PipeTypes
<1>3. ASSUME NEW f \in Filters, Closing(f)'
      PROVE  Closing(f)
  <2>1. CloseReported(f)' => CloseReported(f)
    BY <1>1 DEF CloseReported
  <2>2. CloseQueued(f)' => CloseQueued(f)
    BY <1>2 DEF CloseQueued
  <2>3. Head(queue).cmd = "close" /\ f = Head(queue).filter => CloseQueued(f)
    BY <1>2 DEF CloseQueued
  <2>4. CloseWorked(f)' => CloseWorked(f) \/ CloseQueued(f)
    BY <1>1, <1>2, <2>3, CloseProcessed
  <2>5. QED
    BY <1>3, <2>1, <2>2, <2>4 DEF Closing
<1>4. QED
  BY <1>3 DEF NoNewClose

\* A report that was taken is one less; what the policy adds closes nothing.
LEMMA CloseTaken ==
    ASSUME PipeTypes, NEW f \in Filters, status[f] # <<>>,
           status' = [status EXCEPT ![f] = Tail(status[f])], UNCHANGED todo, SilentAdded
    PROVE  NoNewClose
<1>1. \A i \in DOMAIN Tail(status[f]) : i + 1 \in DOMAIN status[f] /\ Tail(status[f])[i] = status[f][i + 1]
  BY TailElems DEF PipeTypes
<1>2. status'[f] = Tail(status[f]) /\ \A g \in Filters \ {f} : status'[g] = status[g]
  BY DEF PipeTypes
<1>3. \A i \in DOMAIN queue' : queue'[i].cmd = "close" => i \in DOMAIN queue /\ queue'[i] = queue[i]
  BY DEF SilentAdded, Silent
<1>4. \A g \in Filters : CloseReported(g)' => CloseReported(g)
  BY <1>1, <1>2 DEF CloseReported
<1>5. \A g \in Filters : (CloseWorked(g)' => CloseWorked(g)) /\ (CloseQueued(g)' => CloseQueued(g))
  BY <1>3 DEF CloseWorked, CloseQueued
<1>6. QED
  BY <1>4, <1>5 DEF NoNewClose, Closing

\* The entry a new client gets has no socket of anybody on it.
LEMMA KeepAccept ==
    ASSUME CoreInv, KeepInv, NEW c \in Clients, Accept(c)
    PROVE  KeepInv'
<1>1. PICK k \in AcceptEntry(conns) :
         conns' = [conns EXCEPT ![k] = media_server_conn_init(conns[k], c)] /\ entry' = [entry EXCEPT ![c] = k]
  BY DEF Accept
<1> DEFINE new == media_server_conn_init(conns[k], c)
<1>2. /\ k \in Cookies /\ ~ Open(conns[k].tran_fd) /\ conns[k] \in ConnType(Ctxs)
      /\ conns[k].tran_fd = NULL \/ ~ Open(conns[k].notify_fd)
  BY AcceptEntryFree DEF CoreInv, ClientInv, ClientTypes
<1>3. new.tran_fd = c /\ new.notify_fd = conns[k].notify_fd
  BY <1>2, ConnInitFields
<1> HIDE DEF new
<1>4. conns' = [conns EXCEPT ![k] = new]
  BY <1>1 DEF new
<1>5. life[c] = "new" /\ life' = [life EXCEPT ![c] = "connected"] /\ UNCHANGED <<deaf, ctxs, todo, status, queue>>
  BY DEF Accept, filter_vars
<1>6. /\ conns'[k].tran_fd = c /\ entry'[c] = k /\ life'[c] = "connected"
      /\ \A j \in Cookies \ {k} : conns'[j] = conns[j]
      /\ \A j \in Cookies : conns'[j].notify_fd = conns[j].notify_fd
      /\ \A d \in Clients \ {c} : life'[d] = life[d] /\ entry'[d] = entry[d]
  BY <1>1, <1>2, <1>3, <1>4, <1>5 DEF CoreInv, ClientInv, ClientTypes
<1>7. \A d \in Clients : life[d] \notin {"new", "gone"} => entry[d] # k /\ entry[d] \in Cookies
  BY <1>2 DEF CoreInv, ClientInv, EntryOwn, Open
<1>8. Unused'
  BY <1>6, FdAssumption DEF KeepInv, Unused
<1>9. NotifyOwn'
  BY <1>2, <1>6, <1>7 DEF KeepInv, Unused, NotifyOwn
<1>10. KeepsCtx'
  BY <1>5, <1>6, <1>7 DEF KeepInv, KeepsCtx, Ctx, media_server_get_data
<1>11. \A x \in Ctxs : CookieHeard(x)'
  <2>1. NoNewClose
    BY <1>5, ClosingKept
  <2>2. \A x \in Ctxs : ctxs[x] # NULL => ctxs[x].owner \in Clients
    BY CtxFields DEF CoreInv, ClientInv
  <2>3. \A x \in Ctxs : ctxs[x] # NULL /\ Tells(x)' => Tells(x)
    BY <1>5, <1>6, <2>2 DEF Tells
  <2>4. QED
    BY <1>5, <1>6, <2>1, <2>2, <2>3, CookieSame DEF CoreInv, ClientInv, NoNewClose
<1>12. QED
  BY <1>8, <1>9, <1>10, <1>11 DEF KeepInv

LEMMA KeepOpen ==
    ASSUME CoreInv, KeepInv, NEW c \in Clients, media_common_open(c)
    PROVE  KeepInv'
<1>1. PICK f \in Filters, x \in Ctxs :
         /\ opaque[f] = NULL /\ ctxs[x] = NULL
         /\ life[c] = "connected" /\ entry[c] \in Cookies /\ conns[entry[c]] \in ConnType(Ctxs)
         /\ ctxs' = [ctxs EXCEPT ![x] = [filter |-> f, cookie |-> entry[c], event |-> FALSE, owner |-> c]]
         /\ conns' = [conns EXCEPT ![entry[c]] = media_server_set_data(conns[entry[c]], x)]
         /\ life' = [life EXCEPT ![c] = "open"]
         /\ UNCHANGED <<entry, deaf, todo, status, queue>>
  BY Opening DEF CoreInv
<1> DEFINE new == media_server_set_data(conns[entry[c]], x)
<1>2. /\ new.tran_fd = conns[entry[c]].tran_fd /\ new.notify_fd = conns[entry[c]].notify_fd
      /\ new.data = x /\ x # NULL
  BY <1>1, SetDataFields, GraphNullAssumption
<1> HIDE DEF new
<1>3. conns' = [conns EXCEPT ![entry[c]] = new]
  BY <1>1 DEF new
<1>4. /\ \A k \in Cookies : conns'[k].tran_fd = conns[k].tran_fd /\ conns'[k].notify_fd = conns[k].notify_fd
      /\ \A k \in Cookies \ {entry[c]} : conns'[k] = conns[k]
      /\ conns'[entry[c]].data = x
      /\ life'[c] = "open" /\ \A d \in Clients \ {c} : life'[d] = life[d]
      /\ \A y \in Ctxs \ {x} : ctxs'[y] = ctxs[y]
      /\ ctxs'[x].cookie = entry[c] /\ ctxs'[x].owner = c /\ ctxs'[x].event = FALSE /\ ctxs'[x].filter = f
  BY <1>1, <1>2, <1>3 DEF CoreInv, ClientInv, ClientTypes
<1>5. Unused' /\ NotifyOwn'
  BY <1>1, <1>4 DEF CoreInv, ClientInv, EntryOwn, KeepInv, Unused, NotifyOwn
<1>6. KeepsCtx'
  <2> SUFFICES ASSUME NEW d \in Clients, life'[d] \in {"open", "listening"}
               PROVE  LET y == conns'[entry[d]].data IN y # NULL /\ ctxs'[y].cookie = entry[d]
    BY <1>1 DEF KeepsCtx, Ctx, media_server_get_data
  <2>1. CASE d = c
    BY <1>2, <1>4, <2>1
  <2>2. CASE d # c
    <3>1. life[d] \in {"open", "listening"} /\ entry[d] \in Cookies /\ entry[d] # entry[c]
      BY <1>1, <1>4, <2>2 DEF CoreInv, ClientInv, EntryOwn
    <3>2. Ctx(d) # NULL /\ ctxs[Ctx(d)].cookie = entry[d] /\ conns'[entry[d]].data = Ctx(d)
      BY <1>4, <3>1 DEF KeepInv, KeepsCtx, Ctx, media_server_get_data
    <3>3. Ctx(d) \in Ctxs /\ ctxs[Ctx(d)] # NULL
      BY <3>1, <3>2, CtxOwned DEF CoreInv
    <3>4. QED
      BY <1>1, <1>4, <3>2, <3>3
  <2>3. QED
    BY <2>1, <2>2
<1>7. NoNewClose
  BY <1>1, ClosingKept
\* The filter has nothing of a former client.
<1>8. ~ Closing(f)'
  <2>1. todo[f] = <<>> /\ status[f] = <<>> /\ \A i \in DOMAIN queue : ~ Waits(i, f)
    BY <1>1 DEF CoreInv, PipeInv, BusyTaken
  <2>2. ~ CloseReported(f) /\ ~ CloseWorked(f)
    BY <2>1 DEF CloseReported, CloseWorked
  <2>3. ~ CloseQueued(f)
    BY <2>1 DEF CloseQueued, Waits, CoreInv, PipeInv, CloseLast, QueuedLast
  <2>4. QED
    BY <1>7, <2>2, <2>3 DEF NoNewClose, Closing
<1>9. \A y \in Ctxs : CookieHeard(y)'
  <2>1. CookieHeard(x)'
    <3>1. ~ Closing(ctxs[x].filter)'
      BY <1>4, <1>8 DEF Closing, CloseReported, CloseWorked, CloseQueued
    <3>2. QED
      BY <1>4, <3>1 DEF CookieHeard, Tells
  <2>2. ASSUME NEW y \in Ctxs \ {x}
        PROVE  CookieHeard(y)'
    <3>1. ctxs[y] # NULL => ctxs[y].owner \in Clients
      BY CtxFields DEF CoreInv, ClientInv
    <3>2. ctxs[y] # NULL /\ Tells(y)' => Tells(y)
      BY <1>1, <1>4, <3>1 DEF Tells
    <3>3. QED
      BY <1>1, <1>4, <1>7, <3>1, <3>2, CookieSame DEF CoreInv, ClientInv, NoNewClose
  <2>3. QED
    BY <2>1, <2>2
<1>10. QED
  BY <1>5, <1>6, <1>9 DEF KeepInv

LEMMA KeepEnds ==
    ASSUME CoreInv, KeepInv, NEW c \in Clients, OpenFails(c) \/ Disconnect(c) \/ Dies(c)
    PROVE  KeepInv'
<1>1. /\ life[c] \notin {"new", "gone"}
      /\ conns' = [conns EXCEPT ![entry[c]] = media_server_conn_close(@)]
      /\ life' = [life EXCEPT ![c] = "gone"] /\ entry' = [entry EXCEPT ![c] = NULL]
      /\ deaf' = deaf \cup (IF Deaf(c) THEN {c} ELSE {})
      /\ UNCHANGED <<ctxs, todo, status, queue>>
  BY DEF OpenFails, Disconnect, Dies, Gone, Request, filter_vars
<1> DEFINE new == media_server_conn_close(conns[entry[c]])
<1>2. entry[c] \in Cookies /\ conns[entry[c]] \in ConnType(Ctxs)
  BY <1>1 DEF CoreInv, ClientInv, ClientTypes, EntryOwn
<1>3. new.tran_fd = CLOSED /\ new.notify_fd = conns[entry[c]].notify_fd /\ new.data = conns[entry[c]].data
  BY <1>2, ConnCloseFields
<1>4. conns' = [conns EXCEPT ![entry[c]] = new]
  BY <1>1
<1> HIDE DEF new
<1>5. /\ \A k \in Cookies : conns'[k].notify_fd = conns[k].notify_fd /\ conns'[k].data = conns[k].data
      /\ \A k \in Cookies : conns'[k].tran_fd = conns[k].tran_fd \/ conns'[k].tran_fd = CLOSED
      /\ life'[c] = "gone" /\ \A d \in Clients \ {c} : life'[d] = life[d] /\ entry'[d] = entry[d]
  BY <1>1, <1>2, <1>3, <1>4 DEF CoreInv, ClientInv, ClientTypes
<1>6. Unused'
  BY <1>5, FdAssumption DEF KeepInv, Unused
<1>7. NotifyOwn' /\ KeepsCtx'
  <2>1. \A d \in Clients : life'[d] \notin {"new", "gone"} =>
            life'[d] = life[d] /\ entry'[d] = entry[d] /\ entry[d] \in Cookies
    BY <1>5 DEF CoreInv, ClientInv, EntryOwn
  <2>2. QED
    BY <1>1, <1>5, <2>1 DEF KeepInv, NotifyOwn, KeepsCtx, Ctx, media_server_get_data
<1>8. \A x \in Ctxs : CookieHeard(x)'
  <2>1. NoNewClose
    BY <1>1, ClosingKept
  <2>2. \A x \in Ctxs : ctxs[x] # NULL => ctxs[x].owner \in Clients
    BY CtxFields DEF CoreInv, ClientInv
  \* A client that goes before it listens is not told: it has no socket for it.
  <2>3. ASSUME NEW x \in Ctxs, ctxs[x] # NULL, ctxs[x].cookie # NULL, Tells(x)'
        PROVE  Tells(x)
    <3>1. ctxs[x].event /\ ctxs[x].owner \notin deaf /\ ctxs[x].owner \notin deaf'
      BY <1>1, <2>3 DEF Tells
    <3>2. CASE ctxs[x].owner = c
      <4>1. ~ Deaf(c)
        BY <1>1, <3>1, <3>2
      <4>2. conns[entry[c]].notify_fd = c
        BY <2>3, <3>1, <3>2, <4>1 DEF Deaf
      <4>3. life[c] # "open"
        BY <4>2 DEF KeepInv, NotifyOwn, Open
      <4>4. QED
        BY <3>1, <3>2, <4>3 DEF Tells
    <3>3. CASE ctxs[x].owner # c
      BY <1>1, <1>5, <2>2, <2>3, <3>1, <3>3 DEF Tells
    <3>4. QED
      BY <3>2, <3>3
  <2>4. QED
    BY <1>1, <1>5, <2>1, <2>2, <2>3, CookieSame DEF CoreInv, ClientInv, NoNewClose
<1>9. QED
  BY <1>6, <1>7, <1>8 DEF KeepInv

LEMMA KeepCreateNotify ==
    ASSUME AllListen, CoreInv, KeepInv, NEW c \in Clients, NEW ok \in BOOLEAN, CreateNotify(c, ok)
    PROVE  KeepInv'
<1>1. /\ life[c] = "open" /\ life' = [life EXCEPT ![c] = "listening"]
      /\ UNCHANGED <<entry, deaf, ctxs, todo, status, queue>>
  BY DEF CreateNotify, filter_vars
<1>2. ok
  BY DEF CreateNotify, AllListen
<1> DEFINE new == media_server_create_notify(conns[entry[c]], c, ok)
<1>3. entry[c] \in Cookies /\ conns[entry[c]] \in ConnType(Ctxs) /\ conns[entry[c]].tran_fd = c
  BY <1>1 DEF CoreInv, ClientInv, ClientTypes, EntryOwn
<1>4. new.tran_fd = c /\ new.data = conns[entry[c]].data /\ new.notify_fd = c
  BY <1>2, <1>3, CreateNotifyFields, ZenonT(60)
<1>5. conns' = [conns EXCEPT ![entry[c]] = new]
  BY DEF CreateNotify
<1> HIDE DEF new
<1>6. /\ conns'[entry[c]].notify_fd = c
      /\ \A k \in Cookies : conns'[k].tran_fd = conns[k].tran_fd /\ conns'[k].data = conns[k].data
      /\ \A k \in Cookies \ {entry[c]} : conns'[k] = conns[k]
      /\ life'[c] = "listening" /\ \A d \in Clients \ {c} : life'[d] = life[d]
      /\ \A d \in Clients \ {c} : life[d] \notin {"new", "gone"} => entry[d] \in Cookies /\ entry[d] # entry[c]
  BY <1>1, <1>3, <1>4, <1>5 DEF CoreInv, ClientInv, ClientTypes, EntryOwn
<1>7. ~ Open(conns[entry[c]].notify_fd)
  BY <1>1 DEF KeepInv, NotifyOwn
<1>8. Unused'
  BY <1>3, <1>6, FdAssumption DEF KeepInv, Unused
<1>9. NotifyOwn'
  BY <1>1, <1>6 DEF KeepInv, NotifyOwn
<1>10. KeepsCtx'
  BY <1>1, <1>3, <1>6 DEF KeepInv, KeepsCtx, Ctx, media_server_get_data
<1>11. ASSUME NEW x \in Ctxs
       PROVE  CookieHeard(x)'
  <2>1. ctxs[x] # NULL => ctxs[x].owner \in Clients
    BY CtxFields DEF CoreInv, ClientInv
  <2>2. NoNewClose
    BY <1>1, ClosingKept
  <2>3. ASSUME NEW k \in Cookies, ctxs[x] # NULL, conns[k].notify_fd = ctxs[x].owner
        PROVE  conns'[k].notify_fd = ctxs[x].owner
    BY <1>6, <1>7, <2>1, <2>3 DEF Open
  <2>4. ctxs[x] # NULL /\ life'[ctxs[x].owner] = "closing" => life[ctxs[x].owner] = "closing"
    BY <1>6, <2>1
  <2>5. CASE ctxs[x] # NULL /\ ctxs[x].owner = c
    <3>1. Ctx(c) # NULL /\ ctxs[Ctx(c)].cookie = entry[c]
      BY <1>1 DEF KeepInv, KeepsCtx
    <3>2. Ctx(c) \in Ctxs /\ ctxs[Ctx(c)] # NULL /\ ctxs[Ctx(c)].owner = c
      BY <1>1, <3>1, CtxOwned DEF CoreInv
    <3>3. x = Ctx(c)
      BY <2>5, <3>2 DEF CoreInv, ClientInv, OneCtx
    <3>4. QED
      BY <1>1, <1>6, <2>5, <3>1, <3>3 DEF CookieHeard
  <2>6. CASE ctxs[x] # NULL /\ ctxs[x].owner # c
    <3>1. Tells(x)' => Tells(x)
      BY <1>1, <1>6, <2>1, <2>6 DEF Tells
    <3>2. QED
      BY <1>1, <2>2, <2>3, <2>4, <3>1, CookieSame DEF CoreInv, ClientInv, NoNewClose
  <2>7. CASE ctxs[x] = NULL
    BY <1>1, <2>7 DEF CookieHeard
  <2>8. QED
    BY <2>5, <2>6, <2>7
<1>12. QED
  BY <1>8, <1>9, <1>10, <1>11 DEF KeepInv

LEMMA KeepSetEvent ==
    ASSUME CoreInv, KeepInv, NEW c \in Clients, SetEvent(c)
    PROVE  KeepInv'
<1>1. /\ life[c] \in {"open", "listening"} /\ Ctx(c) # NULL
      /\ UNCHANGED <<conns, life, entry, deaf, todo, status, queue>>
  BY DEF SetEvent, client_vars, filter_vars
<1>2. PICK x \in Ctxs : x = Ctx(c) /\ ctxs[x] # NULL /\ ctxs[x].owner = c /\ ctxs[x] \in Ctx0
  BY <1>1, CtxOwned DEF CoreInv, ClientInv, ClientTypes
<1>3. ctxs[x].cookie = entry[c] /\ (life[c] = "listening" => conns[entry[c]].notify_fd = c)
  BY <1>1, <1>2 DEF KeepInv, KeepsCtx, NotifyOwn
<1>4. ctxs' = [ctxs EXCEPT ![x] = [ctxs[x] EXCEPT !.event = TRUE]]
  BY <1>2 DEF SetEvent
<1>5. /\ ctxs'[x].cookie = ctxs[x].cookie /\ ctxs'[x].owner = c /\ ctxs'[x].filter = ctxs[x].filter
      /\ \A y \in Ctxs \ {x} : ctxs'[y] = ctxs[y]
  BY <1>2, <1>4 DEF Ctx0, CoreInv, ClientInv, ClientTypes
<1>6. Unused' /\ NotifyOwn'
  BY <1>1 DEF KeepInv, Unused, NotifyOwn
<1>7. KeepsCtx'
  <2> SUFFICES ASSUME NEW d \in Clients, life[d] \in {"open", "listening"}
               PROVE  Ctx(d) # NULL /\ ctxs'[Ctx(d)].cookie = entry[d]
    BY <1>1 DEF KeepsCtx, Ctx, media_server_get_data
  <2>1. Ctx(d) # NULL /\ ctxs[Ctx(d)].cookie = entry[d]
    BY DEF KeepInv, KeepsCtx
  <2>2. Ctx(d) \in Ctxs
    BY <2>1, CtxOwned DEF CoreInv
  <2>3. QED
    BY <1>5, <2>1, <2>2
<1>8. CookieHeard(x)'
  <2>1. CASE life[c] = "listening"
    BY <1>1, <1>3, <1>5, <2>1 DEF CookieHeard
  \* Nobody is told yet, and nothing else has changed.
  <2>2. CASE life[c] = "open"
    <3>1. ~ Tells(x)'
      BY <1>1, <1>5, <2>2 DEF Tells
    <3>2. Closing(ctxs[x].filter)' => Closing(ctxs[x].filter)
      BY <1>1, <1>5 DEF Closing, CloseReported, CloseWorked, CloseQueued
    <3>3. Closing(ctxs[x].filter) /\ ctxs[x].cookie # NULL => conns[ctxs[x].cookie].notify_fd = c
      BY <1>2 DEF KeepInv, CookieHeard
    <3>4. QED
      BY <1>1, <1>5, <2>2, <3>1, <3>2, <3>3 DEF CookieHeard
  <2>3. QED
    BY <1>1, <2>1, <2>2
<1>9. ASSUME NEW y \in Ctxs \ {x}
      PROVE  CookieHeard(y)'
  <2>1. NoNewClose
    BY <1>1, ClosingKept
  <2>2. Tells(y)' = Tells(y)
    BY <1>1, <1>5 DEF Tells
  <2>3. QED
    BY <1>1, <1>5, <2>1, <2>2, CookieSame DEF CoreInv, ClientInv, NoNewClose
<1>10. QED
  BY <1>6, <1>7, <1>8, <1>9 DEF KeepInv

\* A client that closes is told of the end when it listens, or gives up its
\* socket for events at once.
LEMMA KeepClose ==
    ASSUME AllListen, CoreInv, KeepInv, NEW c \in Clients, NEW pending \in BOOLEAN, Close(c, pending)
    PROVE  KeepInv'
<1>1. /\ life[c] \in {"open", "listening"} /\ Ctx(c) # NULL /\ life' = [life EXCEPT ![c] = "closing"]
      /\ UNCHANGED <<entry, deaf, status>> /\ (pending => life[c] = "listening")
  BY DEF Close, AllListen
<1>2. PICK f \in Filters, x \in Ctxs :
         /\ x = Ctx(c) /\ f = ctxs[x].filter /\ opaque[f] = x /\ ctxs[x].owner = c /\ ctxs[x] # NULL
         /\ ctxs[x] \in Ctx0 /\ entry[c] \in Cookies /\ conns[entry[c]].tran_fd = c
  BY <1>1, CtxOwned DEF CoreInv, ClientInv, ClientTypes
<1>3. ctxs[x].cookie = entry[c] /\ (pending => conns[entry[c]].notify_fd = c)
      /\ (conns[entry[c]].notify_fd = c \/ ~ Open(conns[entry[c]].notify_fd))
  BY <1>1, <1>2 DEF KeepInv, KeepsCtx, NotifyOwn
<1>4. /\ life'[c] = "closing"
      /\ \A d \in Clients \ {c} : life'[d] = life[d]
      /\ \A d \in Clients \ {c} : life[d] \notin {"new", "gone"} => entry[d] \in Cookies /\ entry[d] # entry[c]
  BY <1>1, <1>2 DEF CoreInv, ClientInv, ClientTypes, EntryOwn
<1>5. \A y \in Ctxs \ {x} : ctxs[y] # NULL =>
         ctxs[y].owner \in Clients \ {c} /\ ctxs[y].filter \in Filters \ {f}
  BY <1>2, CtxFields DEF CoreInv, ClientInv, OneCtx, Linked
\* Only its own close begins.
<1>6. \A g \in Filters \ {f} : Closing(g)' => Closing(g)
  <2> DEFINE m == [filter |-> f, cmd |-> "close", n |-> given[c] + 1]
  <2>1. m \in Commands /\ m.filter = f
    BY DEF Commands, CoreInv, ClientInv, ClientTypes
  <2>2. media_graph_queue_command(m, status)
    BY <1>2 DEF Close
  <2> HIDE DEF m
  <2>3. QED
    BY <1>1, <2>1, <2>2, CloseGiven DEF CoreInv, PipeInv
<1>7. CASE pending
  <2>1. UNCHANGED <<conns, ctxs>>
    BY <1>7 DEF Close
  <2>2. Unused' /\ NotifyOwn' /\ KeepsCtx'
    BY <1>1, <1>4, <2>1 DEF KeepInv, Unused, NotifyOwn, KeepsCtx, Ctx, media_server_get_data
  <2>3. CookieHeard(x)'
    BY <1>1, <1>2, <1>3, <1>7, <2>1 DEF CookieHeard
  <2>4. ASSUME NEW y \in Ctxs \ {x}
        PROVE  CookieHeard(y)'
    <3>1. ctxs[y] # NULL /\ Tells(y)' => Tells(y)
      BY <1>1, <1>4, <1>5, <2>1 DEF Tells
    <3>2. QED
      BY <1>1, <1>4, <1>5, <1>6, <2>1, <3>1, CookieSame DEF CoreInv, ClientInv
  <2>5. QED
    BY <2>2, <2>3, <2>4 DEF KeepInv
<1>8. CASE ~ pending
  <2>1. conns' = [conns EXCEPT ![entry[c]] = media_server_finalize(conns[entry[c]])]
    <3>1. conns' = [conns EXCEPT ![ctxs[x].cookie] = media_server_finalize(@)]
      BY <1>2, <1>8 DEF Close
    <3>2. QED
      BY <1>3, <3>1
  <2>2. ctxs' = [ctxs EXCEPT ![x] = [ctxs[x] EXCEPT !.cookie = NULL]]
    BY <1>2, <1>8 DEF Close
  <2>3. ctxs'[x].cookie = NULL /\ \A y \in Ctxs \ {x} : ctxs'[y] = ctxs[y]
    BY <1>2, <2>2 DEF Ctx0, CoreInv, ClientInv, ClientTypes
  <2>4. /\ conns'[entry[c]].notify_fd = NULL /\ conns'[entry[c]].tran_fd = c
        /\ \A k \in Cookies \ {entry[c]} : conns'[k] = conns[k]
    BY <1>2, <2>1, OneFinalized DEF CoreInv, ClientInv
  <2>5. Unused'
    BY <1>2, <2>4, FdAssumption DEF KeepInv, Unused
  <2>6. NotifyOwn'
    BY <1>1, <1>4, <2>4 DEF KeepInv, NotifyOwn
  <2>7. KeepsCtx'
    <3> SUFFICES ASSUME NEW d \in Clients, life'[d] \in {"open", "listening"}
                 PROVE  LET y == conns'[entry[d]].data IN y # NULL /\ ctxs'[y].cookie = entry[d]
      BY <1>1 DEF KeepsCtx, Ctx, media_server_get_data
    <3>1. d # c /\ life[d] \in {"open", "listening"} /\ conns'[entry[d]] = conns[entry[d]]
      BY <1>4, <2>4
    <3>2. Ctx(d) # NULL /\ ctxs[Ctx(d)].cookie = entry[d] /\ conns'[entry[d]].data = Ctx(d)
      BY <3>1 DEF KeepInv, KeepsCtx, Ctx, media_server_get_data
    <3>3. Ctx(d) \in Ctxs /\ ctxs[Ctx(d)].owner = d
      BY <3>1, <3>2, CtxOwned DEF CoreInv
    <3>4. QED
      BY <1>2, <2>3, <3>1, <3>2, <3>3
  <2>8. CookieHeard(x)'
    BY <2>3 DEF CookieHeard
  <2>9. ASSUME NEW y \in Ctxs \ {x}
        PROVE  CookieHeard(y)'
    <3>1. ASSUME NEW k \in Cookies, ctxs[y] # NULL, conns[k].notify_fd = ctxs[y].owner
          PROVE  conns'[k].notify_fd = ctxs[y].owner
      BY <1>3, <1>5, <2>4, <3>1 DEF Open
    <3>2. ctxs[y] # NULL /\ Tells(y)' => Tells(y)
      BY <1>1, <1>4, <1>5, <2>3 DEF Tells
    <3>3. QED
      BY <1>1, <1>4, <1>5, <1>6, <2>3, <3>1, <3>2, CookieSame DEF CoreInv, ClientInv
  <2>10. QED
    BY <2>5, <2>6, <2>7, <2>8, <2>9 DEF KeepInv
<1>9. QED
  BY <1>7, <1>8

\* The close of a filter finalizes the connection of its own client, which is
\* past its commands.
LEMMA KeepDeliver ==
    ASSUME CoreInv, active \in SUBSET Filters, KeepInv, NEW f \in Filters, Deliver(f)
    PROVE  KeepInv'
<1> DEFINE rest == [status EXCEPT ![f] = Tail(@)]
<1>1. status[f] # <<>> /\ status' = rest /\ UNCHANGED <<life, entry, deaf>>
  BY DEF Deliver, client_vars
<1>2. status' = [status EXCEPT ![f] = Tail(status[f])]
  BY <1>1
<1>3. \/ Head(status[f]) = "CLOSED" /\ Closed(f, opaque[f], rest)
      \/ Head(status[f]) # "CLOSED" /\ Reported(f, Head(status[f]), rest)
  BY DEF Deliver
<1> HIDE DEF rest
<1>4. PICK now \in SUBSET Filters : media_stub_set_stream_status(now, rest)
  <2>1. NowActive(f, Head(status[f])) \in SUBSET Filters /\ active \ {f} \in SUBSET Filters
    BY DEF NowActive
  <2>2. CASE Head(status[f]) = "CLOSED"
    BY <1>3, <2>1, <2>2 DEF Closed
  <2>3. CASE Head(status[f]) # "CLOSED"
    <3>1. media_stub_set_stream_status(NowActive(f, Head(status[f])), rest)
      BY <1>3, <2>3 DEF Reported, NowActive
    <3>2. QED
      BY <2>1, <3>1
  <2>4. QED
    BY <2>2, <2>3
<1>5. NoNewClose
  <2>1. UNCHANGED todo /\ SilentAdded
    BY <1>4, PolicyOnly DEF CoreInv, PipeInv
  <2>2. QED
    BY <1>1, <1>2, <2>1, CloseTaken DEF CoreInv, PipeInv
<1>6. CASE Head(status[f]) # "CLOSED" /\ Reported(f, Head(status[f]), rest)
  <2>1. UNCHANGED <<conns, life, entry, deaf, ctxs>>
    BY <1>1, <1>6 DEF Reported
  <2>2. QED
    BY <1>5, <2>1, KeepSame DEF CoreInv
<1>7. CASE Head(status[f]) = "CLOSED" /\ Closed(f, opaque[f], rest)
  <2>1. 1 \in DOMAIN status[f] /\ status[f][1] = "CLOSED"
    BY <1>1, <1>7, TailElems DEF CoreInv, PipeInv, PipeTypes
  <2>2. opaque[f] # NULL /\ Ends(f) /\ Closing(f)
    BY <1>1, <2>1 DEF CoreInv, PipeInv, BusyTaken, CloseLast, ReportedLast, Closing, CloseReported
  <2>3. PICK x \in Ctxs, c \in Clients :
           /\ x = opaque[f] /\ ctxs[x] # NULL /\ ctxs[x].filter = f /\ c = ctxs[x].owner
           /\ life[c] \in {"closing", "gone"} /\ ctxs[x].cookie \in Cookies \cup {NULL}
    BY <2>2, TakenFields, CtxFields DEF CoreInv, ClientInv, Ends
  <2>4. ctxs'[x] = NULL /\ \A y \in Ctxs \ {x} : ctxs'[y] = ctxs[y]
    BY <1>7, <2>3 DEF Closed, CoreInv, ClientInv, ClientTypes
  <2>5. \A y \in Ctxs \ {x} : ctxs[y] # NULL => ctxs[y].owner \in Clients \ {c}
    BY <2>3, CtxFields DEF CoreInv, ClientInv, OneCtx
  \* One entry may have changed, which is its own.
  <2>6. \A k \in Cookies : \/ conns'[k] = conns[k]
                           \/ /\ conns[k].notify_fd = c /\ conns'[k].notify_fd = NULL
                              /\ conns'[k].tran_fd = conns[k].tran_fd
    <3>1. CASE ctxs[x].cookie = NULL
      BY <1>7, <2>3, <3>1 DEF Closed
    <3>2. CASE ctxs[x].cookie # NULL
      <4>1. PICK j \in Cookies : j = ctxs[x].cookie
        BY <2>3, <3>2
      <4>2. conns' = [conns EXCEPT ![j] = media_server_finalize(conns[j])]
        BY <1>7, <2>3, <3>2, <4>1 DEF Closed
      <4>3. conns[j].notify_fd = c
        BY <2>2, <2>3, <3>2, <4>1 DEF KeepInv, CookieHeard
      <4>4. QED
        BY <4>2, <4>3, OneFinalized DEF CoreInv, ClientInv
    <3>3. QED
      BY <3>1, <3>2
  <2>7. \A d \in Clients : life[d] \in {"connected", "open", "listening"} =>
           d # c /\ entry[d] \in Cookies /\ conns'[entry[d]] = conns[entry[d]]
    BY <2>3, <2>6 DEF CoreInv, ClientInv, EntryOwn, KeepInv, NotifyOwn, Open
  <2>8. Unused'
    BY <2>6, FdAssumption DEF KeepInv, Unused, Open
  <2>9. NotifyOwn'
    BY <1>1, <2>7 DEF KeepInv, NotifyOwn
  <2>10. KeepsCtx'
    <3> SUFFICES ASSUME NEW d \in Clients, life[d] \in {"open", "listening"}
                 PROVE  LET y == conns'[entry[d]].data IN y # NULL /\ ctxs'[y].cookie = entry[d]
      BY <1>1 DEF KeepsCtx, Ctx, media_server_get_data
    <3>1. Ctx(d) # NULL /\ ctxs[Ctx(d)].cookie = entry[d] /\ conns'[entry[d]].data = Ctx(d)
      BY <2>7 DEF KeepInv, KeepsCtx, Ctx, media_server_get_data
    <3>2. Ctx(d) \in Ctxs /\ ctxs[Ctx(d)].owner = d
      BY <3>1, CtxOwned DEF CoreInv
    <3>3. d # c
      BY <2>7
    <3>4. QED
      BY <2>3, <2>4, <3>1, <3>2, <3>3
  <2>11. CookieHeard(x)'
    BY <2>4 DEF CookieHeard
  <2>12. ASSUME NEW y \in Ctxs \ {x}
         PROVE  CookieHeard(y)'
    <3>1. Tells(y)' = Tells(y)
      BY <1>1, <2>4 DEF Tells
    <3>2. QED
      BY <1>1, <1>5, <2>4, <2>5, <2>6, <3>1, CookieSame DEF CoreInv, ClientInv, NoNewClose
  <2>13. QED
    BY <2>8, <2>9, <2>10, <2>11, <2>12 DEF KeepInv
<1>8. QED
  BY <1>3, <1>6, <1>7

LEMMA KeepStep ==
    ASSUME AllListen, CoreInv, active \in SUBSET Filters, KeepInv, [Next]_vars
    PROVE  KeepInv'
<1>1. ASSUME NEW c \in Clients, Accept(c)
      PROVE  KeepInv'
  BY <1>1, KeepAccept
<1>2. ASSUME NEW c \in Clients, media_common_open(c)
      PROVE  KeepInv'
  BY <1>2, KeepOpen
<1>3. ASSUME NEW c \in Clients, OpenFails(c) \/ Disconnect(c) \/ Dies(c)
      PROVE  KeepInv'
  BY <1>3, KeepEnds
<1>4. ASSUME NEW c \in Clients, NEW ok \in BOOLEAN, CreateNotify(c, ok)
      PROVE  KeepInv'
  BY <1>4, KeepCreateNotify
<1>5. ASSUME NEW c \in Clients, SetEvent(c)
      PROVE  KeepInv'
  BY <1>5, KeepSetEvent
<1>6. ASSUME NEW c \in Clients, NEW cmd \in ClientCommands \ Queries, Command(c, cmd)
      PROVE  KeepInv'
  <2>1. life[c] \in {"open", "listening"} /\ Ctx(c) # NULL /\ UNCHANGED <<conns, life, entry, deaf, ctxs, status>>
    BY <1>6 DEF Command
  <2> DEFINE m == [filter |-> ctxs[Ctx(c)].filter, cmd |-> cmd, n |-> given[c] + 1]
  <2>2. m \in Commands /\ m.cmd # "close"
    <3>1. ctxs[Ctx(c)].filter \in Filters
      BY <2>1, CtxOwned DEF CoreInv
    <3>2. given[c] + 1 \in Nat
      BY DEF CoreInv, ClientInv, ClientTypes
    <3>3. QED
      BY <3>1, <3>2, CommandsAssumption DEF Commands, Queries
  <2>3. media_graph_queue_command(m, status)
    BY <1>6 DEF Command
  <2> HIDE DEF m
  <2>4. NoNewClose
    BY <2>1, <2>2, <2>3, CloseGiven DEF CoreInv, PipeInv, NoNewClose
  <2>5. QED
    BY <2>1, <2>4, KeepSame DEF CoreInv
<1>7. ASSUME NEW c \in Clients, NEW pending \in BOOLEAN, Close(c, pending)
      PROVE  KeepInv'
  BY <1>7, KeepClose
<1>8. ASSUME NEW f \in Filters, Worker(f)
      PROVE  KeepInv'
  <2>1. UNCHANGED <<conns, life, entry, deaf, ctxs>> /\ NoNewClose
    BY <1>8, CloseByWorker DEF Worker, client_vars, CoreInv, PipeInv
  <2>2. QED
    BY <2>1, KeepSame DEF CoreInv
<1>9. ASSUME NEW f \in Filters, Deliver(f)
      PROVE  KeepInv'
  BY <1>9, KeepDeliver
<1>10. ASSUME NEW accepts \in BOOLEAN, media_graph_dequeue_command(accepts)
       PROVE  KeepInv'
  <2>1. UNCHANGED <<conns, life, entry, deaf, ctxs>> /\ NoNewClose
    BY <1>10, CloseDequeued DEF media_graph_dequeue_command, client_vars, CoreInv, PipeInv
  <2>2. QED
    BY <2>1, KeepSame DEF CoreInv
<1>11. CASE OtherActivity \/ RunOnce \/ RunDone \/ UNCHANGED vars
  <2>1. UNCHANGED <<conns, life, entry, deaf, ctxs, todo, status, queue>>
    BY <1>11 DEF OtherActivity, RunOnce, RunDone, vars, client_vars, filter_vars
  <2>2. QED
    BY <2>1, ClosingKept, KeepSame DEF CoreInv
<1>12. ASSUME NEW c \in Clients, NEW cmd \in Queries, Query(c, cmd)
       PROVE  KeepInv'
  <2>1. UNCHANGED <<conns, life, entry, deaf, ctxs, todo, status, queue>>
    BY <1>12, QueryPasses DEF client_vars, filter_vars
  <2>2. QED
    BY <2>1, ClosingKept, KeepSame DEF CoreInv
<1>13. QED
  BY <1>1, <1>2, <1>3, <1>4, <1>5, <1>6, <1>7, <1>8, <1>9, <1>10, <1>11, <1>12 DEF Next, Loop

LEMMA KeepHolds == AllListen => (Spec => []KeepInv)
<1> SUFFICES ASSUME AllListen
             PROVE  Spec => []KeepInv
  OBVIOUS
<1>1. Init => KeepInv
  BY FdAssumption DEF Init, KeepInv, Unused, NotifyOwn, KeepsCtx, CookieHeard, ZeroConn, Open
<1>2. GraphInv /\ KeepInv /\ [Next]_vars => KeepInv'
  BY KeepStep DEF GraphInv, CoreInv, LoopTypes
<1>3. QED
  BY <1>1, <1>2, GraphHolds, PTL DEF Spec

(* A player or recorder that was opened keeps its context and, with an     *)
(* event callback, its event socket until it is closed, as long as the     *)
(* server reaches the listeners and whoever has its close reported listens *)
(* for it: both hazards end in an entry that is used again under a context *)
(* that still names it.                                                    *)
THEOREM PlayersKeep == AllListen => (Spec => []ClientKeeps)
<1> SUFFICES ASSUME AllListen
             PROVE  Spec => []ClientKeeps
  OBVIOUS
<1>1. GraphInv /\ KeepInv => ClientKeeps
  <2> SUFFICES ASSUME GraphInv, KeepInv, NEW c \in Clients, life[c] \in {"open", "listening"}
               PROVE  /\ Ctx(c) # NULL /\ ctxs[Ctx(c)] # NULL
                      /\ ctxs[Ctx(c)].owner = c /\ ctxs[Ctx(c)].cookie = entry[c]
                      /\ opaque[ctxs[Ctx(c)].filter] = Ctx(c)
                      /\ life[c] = "listening" /\ "notify" \notin Faults => conns[entry[c]].notify_fd = c
    BY DEF ClientKeeps
  <2>1. Ctx(c) # NULL /\ ctxs[Ctx(c)].cookie = entry[c]
    BY DEF KeepInv, KeepsCtx
  <2>2. ctxs[Ctx(c)] # NULL /\ ctxs[Ctx(c)].owner = c /\ opaque[ctxs[Ctx(c)].filter] = Ctx(c)
    BY <2>1, CtxOwned DEF GraphInv
  <2>3. life[c] = "listening" => conns[entry[c]].notify_fd = c
    BY DEF KeepInv, NotifyOwn
  <2>4. QED
    BY <2>1, <2>2, <2>3
<1>2. QED
  BY <1>1, GraphHolds, KeepHolds, PTL

(* media_common_notify_cb tells a client about its own filter only, under  *)
(* the same conditions, but for the events of a client that was gone       *)
(* before it listened.                                                     *)
THEOREM EventsReachOwner == AllListen => (Spec => []EventsToOwner)
<1> SUFFICES ASSUME AllListen
             PROVE  Spec => []EventsToOwner
  OBVIOUS
<1>1. GraphInv /\ KeepInv => EventsToOwner
  <2> SUFFICES ASSUME GraphInv, KeepInv, NEW x \in Ctxs, ctxs[x] # NULL, ctxs[x].owner \notin deaf
               PROVE  Hears(x) \subseteq {ctxs[x].owner}
    BY DEF EventsToOwner
  <2>1. CASE ~ (ctxs[x].event /\ ctxs[x].cookie # NULL)
    BY <2>1 DEF Hears
  <2>2. CASE ctxs[x].event /\ ctxs[x].cookie # NULL /\ life[ctxs[x].owner] # "open"
    <3>1. conns[ctxs[x].cookie].notify_fd = ctxs[x].owner
      BY <2>2 DEF KeepInv, CookieHeard, Tells
    <3>2. QED
      BY <2>2, <3>1, NotifyReaches DEF Hears
  \* It does not listen yet: there is nobody at its end.
  <2>3. CASE ctxs[x].event /\ ctxs[x].cookie # NULL /\ life[ctxs[x].owner] = "open"
    <3>1. PICK c \in Clients : c = ctxs[x].owner
      BY CtxFields DEF GraphInv, ClientInv
    <3>2. Ctx(c) # NULL /\ ctxs[Ctx(c)].cookie = entry[c] /\ ~ Open(conns[entry[c]].notify_fd)
      BY <2>3, <3>1 DEF KeepInv, KeepsCtx, NotifyOwn
    <3>3. x = Ctx(c)
      BY <2>3, <3>1, <3>2, CtxOwned DEF GraphInv, ClientInv, OneCtx
    <3>4. media_server_notify(conns[ctxs[x].cookie]) = {}
      BY <3>2, <3>3 DEF media_server_notify
    <3>5. QED
      BY <2>3, <3>4 DEF Hears
  <2>4. QED
    BY <2>1, <2>2, <2>3
<1>2. QED
  BY <1>1, GraphHolds, KeepHolds, PTL
=============================================================================
