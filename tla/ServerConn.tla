----------------------------- MODULE ServerConn -----------------------------
(***************************************************************************)
(* server/media_server.c: the connection table of the media daemon, as     *)
(* operators on its entries.                                               *)
(*                                                                         *)
(* A client talks to the daemon over two stream sockets: tran_fd, which it *)
(* opens, carries requests and replies, and notify_fd, which the server    *)
(* opens back to the client on MEDIA_PARCEL_CREATE_NOTIFY, carries events. *)
(* Both sit in one entry of a fixed table (conns), and handlers keep a     *)
(* pointer to that entry, the cookie, for as long as they want to notify   *)
(* the client.  An open descriptor is represented by the client at its     *)
(* other end; a descriptor that is not positive is                         *)
(*   NULL    zero, or the negative errno of a failed connect               *)
(*   CLOSED  the -EPERM media_server_conn_close leaves in tran_fd.         *)
(***************************************************************************)
EXTENDS MediaDefs

CONSTANTS MEDIA_SERVER_MAXCONN,  \* entries of the table
          Clients,               \* client connections
          CLOSED

ASSUME MaxConnAssumption == MEDIA_SERVER_MAXCONN \in Nat \ {0}
ASSUME FdAssumption == NULL # CLOSED /\ NULL \notin Clients /\ CLOSED \notin Clients

\* The entries of conns[]; a cookie is the index of its entry.
Cookies == 0 .. MEDIA_SERVER_MAXCONN - 1

\* fd > 0
Open(fd) == fd \in Clients

\* struct media_server_conn without the parse buffer (parcel, offset): a
\* request is handled when it is complete.  media_server_create zeroes it.
ZeroConn == [tran_fd |-> NULL, notify_fd |-> NULL, data |-> NULL]

\* A mutant: a closing entry counts as available.
AvailableWhileClosing(conn) == conn.tran_fd \in {NULL, CLOSED}

\* The test of media_server_conn_init: "available" of the three conditions.
Available(conn) ==
    \/ conn.tran_fd = NULL
    \/ conn.tran_fd = CLOSED /\ ~ Open(conn.notify_fd)

\* A mutant: the private data of the former client is not reset.
InitKeepsData(conn, fd) == [conn EXCEPT !.tran_fd = fd]

\* The assignments of media_server_conn_init; notify_fd is left as it is.
media_server_conn_init(conn, fd) ==
    [conn EXCEPT !.tran_fd = fd, !.data = NULL]

\* The entry media_server_accept picks, if any: the first available one.
AcceptEntry(conns) ==
    {k \in Cookies : Available(conns[k]) /\ \A j \in 0 .. k - 1 : ~ Available(conns[j])}

\* A mutant: the notification socket is given up with the connection.
CloseBoth(conn) == [conn EXCEPT !.tran_fd = CLOSED, !.notify_fd = NULL]

\* Closes tran_fd only: handlers may still hold the cookie of the entry.
media_server_conn_close(conn) == [conn EXCEPT !.tran_fd = CLOSED]

\* connect() to the client's listener succeeds or not; the result, a
\* descriptor or a negative errno, overwrites notify_fd either way.
media_server_create_notify(conn, client, ok) ==
    [conn EXCEPT !.notify_fd = IF ok THEN client ELSE NULL]

\* The clients a parcel sent to this cookie reaches: none or one.
media_server_notify(conn) ==
    IF Open(conn.notify_fd) THEN {conn.notify_fd} ELSE {}

\* A mutant: the handler's data is dropped, the socket is not closed.
FinalizeDataOnly(conn) == [conn EXCEPT !.data = NULL]

media_server_finalize(conn) ==
    IF Open(conn.notify_fd)
    THEN [conn EXCEPT !.notify_fd = NULL, !.data = NULL]
    ELSE conn

media_server_set_data(conn, data) == [conn EXCEPT !.data = data]

media_server_get_data(conn) == conn.data

ConnType(handles) ==
    [tran_fd : Clients \cup {NULL, CLOSED}, notify_fd : Clients \cup {NULL},
     data : handles \cup {NULL}]
=============================================================================
