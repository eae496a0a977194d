------------------------------ MODULE MediaIO ------------------------------
(***************************************************************************)
(* client/media_graph.c: the handle of a player or recorder, its data      *)
(* socket in buffer mode, and media_recorder_take_picture.                 *)
(*                                                                         *)
(* In buffer mode the client listens, the movie filter of the server       *)
(* connects, and threads of the application write or read data while one   *)
(* thread controls the handle.  They share the descriptors in MediaIOPriv  *)
(* and the counter refs; there is no lock, so every access is a step of    *)
(* its own.  The kernel gives out the lowest free descriptor, and 0 is one *)
(* of the application: priv->socket = 0 means "none" here and a            *)
(* descriptor there.                                                       *)
(*                                                                         *)
(* A picture is a recorder that writes to a file: a thread starts it and   *)
(* waits, and the listener of the connection closes it.                    *)
(*                                                                         *)
(* Requests are atomic here; ParcelRpc has their steps.  "raced" is a      *)
(* history variable: two threads were between a test of these fields and   *)
(* the use of what it found, which nothing in the code keeps apart.        *)
(***************************************************************************)
EXTENDS MediaDefs, FiniteSets, Sequences

CONSTANTS Threads,      \* threads of the application that move data
          MaxFd,        \* descriptors are 0 .. MaxFd
          MaxPrepares,  \* how often a handle is prepared in buffer mode
          Faults

ASSUME IOAssumption ==
    /\ MaxFd \in Nat /\ MaxPrepares \in Nat /\ IsFiniteSet(Threads)
    /\ NULL \notin {"other", "listen", "data"}  \* a free descriptor is in no use
    /\ Faults \subseteq {"refuse",   \* a request fails
                         "bind",     \* bind or listen fails
                         "accept",   \* accept4 fails
                         "partial",  \* a part of the data is sent, then an error
                         "daemon"}   \* the daemon ends while a picture is taken

VARIABLES
    handle,   \* "none", "open", "freed"
    refs,     \* priv->refs, priv->socket and priv->socket_fd
    socket,
    socket_fd,
    files,    \* the descriptors of the process
    ctl,      \* the controlling thread: where it is, why, and its local fd
    call,     \* where the data call of a thread is
    peer,     \* the end of the filter
    running,  \* the filter plays or records
    prepared, \* prepares so far, and those that failed after listen()
    failed,
    raced,
    pic,      \* a picture: the thread that takes it
    rec,      \* its recorder on the server
    events,   \* what the recorder reported and the listener has not read
    listener, \* where the listener is
    sem       \* priv->sem

io_vars == <<refs, socket, socket_fd>>
data_vars == <<handle, io_vars, files, ctl, call, peer, running, prepared, failed, raced>>
pic_vars == <<pic, rec, events, listener, sem>>
vars == <<data_vars, pic_vars>>

Fds == 0 .. MaxFd
Idle == [pc |-> "idle", op |-> NULL, fd |-> 0]

\* The process has either of the two in use.
Init ==
    /\ handle = "none" /\ refs = 0 /\ socket = 0 /\ socket_fd = 0
    /\ files = [n \in Fds |-> IF n = 0 THEN "other" ELSE NULL]
    /\ ctl = Idle /\ call = [d \in Threads |-> "idle"]
    /\ peer = NULL /\ running = FALSE /\ prepared = 0 /\ failed = 0 /\ raced = FALSE
    /\ pic \in {[pc |-> pc, cookie |-> FALSE, result |-> 0, overtaken |-> FALSE] : pc \in {"none", "open"}}
    /\ rec = NULL /\ events = <<>> /\ listener = NULL /\ sem = 0

-----------------------------------------------------------------------------
(* Descriptors                                                             *)

NewFd == {n \in Fds : files[n] = NULL /\ \A m \in 0 .. n - 1 : files[m] # NULL}

\* The filter sees the end of the connection.
close(fd) ==
    /\ files' = [files EXCEPT ![fd] = NULL]
    /\ peer' = IF files[fd] = "data" THEN NULL ELSE peer

-----------------------------------------------------------------------------
(* The controlling thread                                                  *)

media_open ==
    /\ pic.pc = "none" /\ handle = "none"
    /\ handle' = "open" /\ refs' = 1
    /\ UNCHANGED <<socket, socket_fd, files, ctl, call, peer, running, prepared, failed, raced, pic_vars>>

Free == handle = "open" /\ ctl.pc = "idle"
UnderWay == {d \in Threads : call[d] # "idle"}
Closing == {d \in Threads : call[d] \in {"close", "zero", "closefd"}}

\* The requests that do nothing but pass a value or an answer.
Ask ==
    /\ Free /\ ctl' = [pc |-> "ask", op |-> "ask", fd |-> 0]
    /\ UNCHANGED <<handle, io_vars, files, call, peer, running, prepared, failed, raced, pic_vars>>

\* media_player_stop and reset, media_player_close_socket: the socket first.
Stop(op) ==
    /\ Free /\ ctl' = [pc |-> "test", op |-> op, fd |-> 0]
    /\ UNCHANGED <<handle, io_vars, files, call, peer, running, prepared, failed, raced, pic_vars>>

\* media_close: the request first.
media_close ==
    /\ Free /\ ctl' = [pc |-> "ask", op |-> "close", fd |-> 0]
    /\ raced' = (raced \/ UnderWay # {})
    /\ UNCHANGED <<handle, io_vars, files, call, peer, running, prepared, failed, pic_vars>>

\* A mutant: a data call under way does not count.
TestSocketOnly ==
    /\ ctl.pc = "test"
    /\ ctl' = [ctl EXCEPT !.pc = IF socket # 0 THEN "take" ELSE "closed"]
    /\ UNCHANGED <<handle, io_vars, files, call, peer, running, prepared, failed, raced, pic_vars>>

\* media_close_socket, step by step.
TestRefs ==
    /\ ctl.pc = "test"
    /\ ctl' = [ctl EXCEPT !.pc = IF refs = 1 /\ socket # 0 THEN "take" ELSE "closed"]
    /\ UNCHANGED <<handle, io_vars, files, call, peer, running, prepared, failed, raced, pic_vars>>

TakeSocket ==
    /\ ctl.pc = "take"
    /\ ctl' = [pc |-> "close", op |-> ctl.op, fd |-> socket]
    /\ socket' = 0
    /\ UNCHANGED <<handle, refs, socket_fd, files, call, peer, running, prepared, failed, raced, pic_vars>>

CloseTaken ==
    /\ ctl.pc = "close" /\ close(ctl.fd)
    /\ ctl' = [ctl EXCEPT !.pc = "closefd"]
    /\ UNCHANGED <<handle, io_vars, call, running, prepared, failed, raced, pic_vars>>

CloseListening ==
    /\ ctl.pc = "closefd"
    /\ IF socket_fd > 0 THEN close(socket_fd) ELSE UNCHANGED <<files, peer>>
    /\ ctl' = [ctl EXCEPT !.pc = "closed"]
    /\ UNCHANGED <<handle, io_vars, call, running, prepared, failed, raced, pic_vars>>

\* ... and what follows it.  media_proxy_disconnect frees the handle with
\* media_default_release_cb, whatever refs says.
SocketClosed ==
    /\ ctl.pc = "closed"
    /\ IF ctl.op = "close"
       THEN ctl' = Idle /\ handle' = "freed"
       ELSE UNCHANGED handle /\ ctl' = IF ctl.op = "close_socket" THEN Idle
                                       ELSE [ctl EXCEPT !.pc = "ask"]
    /\ UNCHANGED <<io_vars, files, call, peer, running, prepared, failed, raced, pic_vars>>

\* The answer to a request; the filter stops with "stop", "reset" and "close".
\* A handle that could not be closed stays open.
Answered(ok) ==
    /\ ctl.pc = "ask" /\ (ok \/ "refuse" \in Faults)
    /\ running' = (running /\ ~ (ok /\ ctl.op \in {"stop", "close"}))
    /\ ctl' = IF ok /\ ctl.op = "close" THEN [ctl EXCEPT !.pc = "test"] ELSE Idle
    /\ UNCHANGED <<handle, io_vars, files, call, peer, prepared, failed, raced, pic_vars>>

\* media_prepare without a url: media_bind_socket ...
media_bind_socket(ok) ==
    /\ Free /\ socket = 0 /\ prepared < MaxPrepares
    /\ prepared' = prepared + 1
    /\ IF ok
       THEN \E n \in NewFd : files' = [files EXCEPT ![n] = "listen"]
                             /\ ctl' = [pc |-> "bound", op |-> "prepare", fd |-> n]
       ELSE "bind" \in Faults /\ UNCHANGED <<files, ctl>>
    /\ UNCHANGED <<handle, io_vars, call, peer, running, failed, raced, pic_vars>>

\* ... the requests "set_options" and "prepare"; when one fails the descriptor
\* that listens is forgotten ...
Prepared(ok) ==
    /\ ctl.pc = "bound"
    /\ IF ok
       THEN /\ socket_fd' = ctl.fd /\ ctl' = [ctl EXCEPT !.pc = "accept"]
            /\ running' = TRUE /\ peer' = "asked"
            /\ raced' = (raced \/ Closing # {})
            /\ UNCHANGED failed
       ELSE /\ "refuse" \in Faults
            /\ ctl' = Idle /\ failed' = failed + 1
            /\ UNCHANGED <<socket_fd, running, peer, raced>>
    /\ UNCHANGED <<handle, refs, socket, files, call, prepared, pic_vars>>

\* ... and accept4, which waits for the filter.
Accepted(ok) ==
    /\ ctl.pc = "accept"
    /\ IF ok
       THEN /\ peer \in {"waits", "closed"} /\ files[ctl.fd] = "listen"
            /\ peer' = IF peer = "waits" THEN "open" ELSE peer
            /\ \E n \in NewFd : socket' = n /\ files' = [files EXCEPT ![n] = "data"]
            /\ UNCHANGED failed
       ELSE /\ "accept" \in Faults \/ files[ctl.fd] # "listen"
            /\ failed' = failed + 1
            /\ UNCHANGED <<socket, files, peer>>
    /\ ctl' = Idle
    /\ UNCHANGED <<handle, refs, socket_fd, call, running, prepared, raced, pic_vars>>

Control ==
    \/ TestRefs \/ TakeSocket \/ CloseTaken \/ CloseListening \/ SocketClosed
    \/ \E ok \in BOOLEAN : Answered(ok) \/ Prepared(ok) \/ Accepted(ok)

-----------------------------------------------------------------------------
(* The filter                                                              *)

Connects ==
    /\ peer = "asked"
    /\ peer' = IF \E n \in Fds : files[n] = "listen" THEN "waits" ELSE NULL
    /\ UNCHANGED <<handle, io_vars, files, ctl, call, running, prepared, failed, raced, pic_vars>>

\* When it stops, and whenever it has had enough.
Closes ==
    /\ peer \in {"waits", "open"} /\ peer' = "closed"
    /\ UNCHANGED <<handle, io_vars, files, ctl, call, running, prepared, failed, raced, pic_vars>>

-----------------------------------------------------------------------------
(* media_process_data in thread d                                          *)

Goes(d, to) == call' = [call EXCEPT ![d] = to]

Begin(d) ==
    /\ handle = "open" /\ call[d] = "idle"
    /\ refs' = refs + 1 /\ Goes(d, "test")
    /\ raced' = \/ raced \/ Closing # {} \/ ctl.op = "close"
                \/ ctl.pc \in {"take", "close", "closefd"}
    /\ UNCHANGED <<handle, socket, socket_fd, files, ctl, peer, running, prepared, failed, pic_vars>>

TestSocket(d) ==
    /\ call[d] = "test" /\ Goes(d, IF socket = 0 THEN "out" ELSE "io")
    /\ UNCHANGED <<handle, io_vars, files, ctl, peer, running, prepared, failed, raced, pic_vars>>

Connected == files[socket] = "data" /\ peer = "open"

\* send or recv of priv->socket, which is read again: all of it, or EINTR.
Transfer(d) ==
    /\ call[d] = "io" /\ Connected /\ Goes(d, "out")
    /\ UNCHANGED <<handle, io_vars, files, ctl, peer, running, prepared, failed, raced, pic_vars>>

\* A mutant: the end of the connection is taken for an interruption.
RetryAtEnd(d) ==
    /\ call[d] = "io" /\ (~ Connected \/ "partial" \in Faults)
    /\ Goes(d, "test")
    /\ UNCHANGED <<handle, io_vars, files, ctl, peer, running, prepared, failed, raced, pic_vars>>

TransferFails(d) ==
    /\ call[d] = "io" /\ (~ Connected \/ "partial" \in Faults)
    /\ Goes(d, "close")
    /\ raced' = (raced \/ UnderWay # {d})
    /\ UNCHANGED <<handle, io_vars, files, ctl, peer, running, prepared, failed, pic_vars>>

CloseSocket(d) ==
    /\ call[d] = "close" /\ close(socket) /\ Goes(d, "zero")
    /\ UNCHANGED <<handle, io_vars, ctl, running, prepared, failed, raced, pic_vars>>

ForgetSocket(d) ==
    /\ call[d] = "zero" /\ socket' = 0 /\ Goes(d, "closefd")
    /\ UNCHANGED <<handle, refs, socket_fd, files, ctl, peer, running, prepared, failed, raced, pic_vars>>

\* A mutant: the descriptor that listens stays open.
KeepSocketFd(d) ==
    /\ call[d] = "closefd" /\ Goes(d, "out")
    /\ UNCHANGED <<handle, io_vars, files, ctl, peer, running, prepared, failed, raced, pic_vars>>

CloseSocketFd(d) ==
    /\ call[d] = "closefd" /\ Goes(d, "out")
    /\ IF socket_fd > 0 THEN close(socket_fd) ELSE UNCHANGED <<files, peer>>
    /\ UNCHANGED <<handle, io_vars, ctl, running, prepared, failed, raced, pic_vars>>

media_release_cb(d) ==
    /\ call[d] = "out" /\ refs' = refs - 1 /\ Goes(d, "idle")
    /\ handle' = IF refs = 1 THEN "freed" ELSE handle
    /\ UNCHANGED <<socket, socket_fd, files, ctl, peer, running, prepared, failed, raced, pic_vars>>

media_process_data(d) ==
    \/ Begin(d) \/ TestSocket(d) \/ Transfer(d) \/ TransferFails(d) \/ CloseSocket(d)
    \/ ForgetSocket(d) \/ CloseSocketFd(d) \/ media_release_cb(d)

-----------------------------------------------------------------------------
(* media_recorder_take_picture                                             *)

\* media_recorder_start_picture: open, set_event, prepare, start.
Steps == [open |-> "set_event", set_event |-> "prepare", prepare |-> "start", start |-> "cookie"]

\* The server closes the recorder and ends the events; the handle is freed
\* when the listener, if there is one, has seen that.
media_recorder_close == rec' = "closed"

StartPicture(ok) ==
    /\ pic.pc \in DOMAIN Steps /\ (ok \/ "refuse" \in Faults \/ rec = "dead")
    /\ ok => rec # "dead"
    /\ IF ok
       THEN /\ pic' = [pic EXCEPT !.pc = Steps[@]]
            /\ rec' = pic.pc
            /\ listener' = IF pic.pc = "set_event" THEN "read" ELSE listener
       ELSE /\ pic' = [pic EXCEPT !.pc = "returned", !.result = 1]
            /\ IF rec \in {NULL, "dead"} THEN UNCHANGED rec ELSE media_recorder_close
            /\ UNCHANGED listener
    /\ UNCHANGED <<data_vars, events, sem>>

\* What start_picture returned becomes priv->cookie.
SetCookie ==
    /\ pic.pc = "cookie" /\ pic' = [pic EXCEPT !.pc = "wait", !.cookie = TRUE]
    /\ UNCHANGED <<data_vars, rec, events, listener, sem>>

\* sem_wait; then priv is freed.
Return ==
    /\ pic.pc = "wait" /\ sem > 0
    /\ sem' = sem - 1 /\ pic' = [pic EXCEPT !.pc = "returned"]
    /\ UNCHANGED <<data_vars, rec, events, listener>>

\* The recorder reports once that it failed or has all pictures.
Reports(e) ==
    /\ rec \in (IF e = "failed" THEN {"prepare", "start"} ELSE {"start"})
    /\ rec' = "reported" /\ events' = Append(events, e)
    /\ UNCHANGED <<data_vars, pic, listener, sem>>

DaemonEnds ==
    /\ "daemon" \in Faults /\ pic.pc # "none" /\ rec \notin {NULL, "dead"}
    /\ rec' = "dead"
    /\ UNCHANGED <<data_vars, pic, events, listener, sem>>

\* A mutant: the recorder is left to the one who took the picture.
PostOnly ==
    /\ listener = "read" /\ events # <<>> /\ pic.pc # "returned"
    /\ events' = Tail(events) /\ listener' = "post"
    /\ pic' = [pic EXCEPT !.result = IF Head(events) = "failed" THEN 1 ELSE 0]
    /\ UNCHANGED <<data_vars, rec, sem>>

\* media_recorder_take_picture_cb: the result, and media_recorder_finish_picture
\* for what priv->cookie is by now, which ends the listener.
media_recorder_take_picture_cb ==
    /\ listener = "read" /\ events # <<>>
    /\ events' = Tail(events) /\ listener' = "post"
    /\ LET failure == Head(events) = "failed"
       IN  /\ pic' = [pic EXCEPT !.result = IF failure THEN 1 ELSE 0,
                                 !.overtaken = ~ failure /\ ~ pic.cookie]
           /\ IF ~ failure /\ pic.cookie /\ rec # "dead" THEN media_recorder_close ELSE UNCHANGED rec
    /\ UNCHANGED <<data_vars, sem>>

Post ==
    /\ listener = "post" /\ listener' = "read" /\ sem' = sem + 1
    /\ UNCHANGED <<data_vars, pic, rec, events>>

ListenerEnds ==
    /\ listener = "read" /\ events = <<>> /\ rec \in {"closed", "dead"}
    /\ listener' = "ended"
    /\ UNCHANGED <<data_vars, pic, rec, events, sem>>

Listener == media_recorder_take_picture_cb \/ Post \/ ListenerEnds

-----------------------------------------------------------------------------

Next ==
    \/ media_open \/ Ask \/ (\E op \in {"stop", "close_socket"} : Stop(op)) \/ media_close
    \/ \E ok \in BOOLEAN : media_bind_socket(ok)
    \/ Control
    \/ Connects \/ Closes
    \/ \E d \in Threads : media_process_data(d)
    \/ \E ok \in BOOLEAN : StartPicture(ok)
    \/ SetCookie \/ Return
    \/ \E e \in {"failed", "completed"} : Reports(e)
    \/ DaemonEnds
    \/ Listener

\* The threads go on with what they have begun.  The filter connects, closes
\* its end when it is stopped, and a recorder reports in the end.  A call waits
\* as long as the filter neither takes nor gives data.
Spec ==
    /\ Init /\ [][Next]_vars
    /\ WF_vars(Control) /\ WF_vars(Connects) /\ WF_vars(~ running /\ Closes)
    /\ \A d \in Threads :
          /\ WF_vars(TestSocket(d)) /\ WF_vars(~ Connected /\ TransferFails(d))
          /\ WF_vars(CloseSocket(d) \/ ForgetSocket(d) \/ CloseSocketFd(d) \/ media_release_cb(d))
    /\ WF_vars(\E ok \in BOOLEAN : StartPicture(ok)) /\ WF_vars(SetCookie) /\ WF_vars(Return)
    /\ WF_vars(Reports("failed") \/ Reports("completed")) /\ WF_vars(Listener)

-----------------------------------------------------------------------------
(* Properties                                                              *)

IOTypeOK ==
    /\ handle \in {"none", "open", "freed"} /\ refs \in 0 .. Cardinality(Threads) + 1
    /\ socket \in Fds /\ socket_fd \in Fds
    /\ files \in [Fds -> {NULL, "other", "listen", "data"}]
    /\ ctl.fd \in Fds /\ peer \in {NULL, "asked", "waits", "open", "closed"}
    /\ \A d \in Threads : call[d] \in {"idle", "test", "io", "close", "zero", "closefd", "out"}

(* Whoever is about to use or close a descriptor finds the one it means,   *)
(* although data calls, stop and prepare interleave and the kernel gives   *)
(* descriptors out again: a data call that has counted itself in refs      *)
(* before media_close_socket looks keeps its socket.  A data call that     *)
(* begins between the look and the close, one that fails next to another   *)
(* or to a prepare, and one under way when media_close frees the handle    *)
(* are the races.                                                          *)
DescriptorsOwned ==
    raced \/
    /\ \A d \in Threads :
          /\ call[d] \in {"io", "close"} => handle = "open" /\ files[socket] = "data"
          /\ call[d] = "closefd" => files[socket_fd] = "listen"
    /\ ctl.pc = "close" => files[ctl.fd] = "data"
    /\ ctl.pc \in {"take", "close", "closefd", "accept"} => files[socket_fd] = "listen"

Held == {n \in Fds : n \in {socket, socket_fd} /\ handle = "open"}
            \cup {ctl.fd : p \in {ctl.pc} \cap {"bound", "close"}}

(* No data or listening socket is lost, whoever closes the connection      *)
(* first, but for one of each prepare that failed after it had begun to    *)
(* listen: nothing is left when the handle is gone.                        *)
LostCounted ==
    raced \/ Cardinality({n \in Fds : files[n] \in {"listen", "data"}} \ Held) <= failed

(* A data call that waits for the filter returns when the handle is        *)
(* stopped: media_close_socket leaves its socket alone, the filter closes  *)
(* the other end and the call closes the socket itself.                    *)
CallsReturn == \A d \in Threads : (call[d] # "idle" /\ ~ running) ~> (call[d] = "idle" \/ running)

(* media_recorder_take_picture returns unless the daemon ends, and when it *)
(* returns success its recorder is closed, in whichever order the last     *)
(* event and the answers come; but not when the last event overtakes the   *)
(* assignment of priv->cookie.                                             *)
PictureEnds ==
    pic.pc = "wait" ~>
        \/ rec = "dead"
        \/ pic.pc = "returned" /\ (pic.result = 0 => pic.overtaken \/ rec = "closed")
=============================================================================
