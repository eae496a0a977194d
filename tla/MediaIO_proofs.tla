--------------------------- MODULE MediaIO_proofs ---------------------------
(***************************************************************************)
(* The descriptors of a player or recorder (MediaIO): types, the counter   *)
(* of the handle, who owns which descriptor, and what is lost.             *)
(***************************************************************************)
EXTENDS MediaIO, FiniteSetTheorems, TLAPS

-----------------------------------------------------------------------------
(* Types and the counter                                                   *)

CtlType ==
    [pc : {"idle", "ask", "test", "take", "close", "closefd", "closed", "bound", "accept"},
     op : {NULL, "ask", "stop", "close_socket", "close", "prepare"}, fd : Fds]

CallType == {"idle", "test", "io", "close", "zero", "closefd", "out"}

IOTypes ==
    /\ handle \in {"none", "open", "freed"} /\ refs \in Int
    /\ socket \in Fds /\ socket_fd \in Fds
    /\ files \in [Fds -> {NULL, "other", "listen", "data"}]
    /\ ctl \in CtlType /\ peer \in {NULL, "asked", "waits", "open", "closed"}
    /\ call \in [Threads -> CallType] /\ running \in BOOLEAN /\ raced \in BOOLEAN
    /\ failed \in Nat

\* Every data call under way has a reference, and the handle one of its own.
Counted ==
    /\ refs = Cardinality(UnderWay) + (IF handle = "none" THEN 0 ELSE 1)
    /\ handle = "none" => UnderWay = {} /\ ctl.pc = "idle" /\ socket = 0

-----------------------------------------------------------------------------
(* Who owns which descriptor                                               *)

\* A data call that closes is alone; so is a thread that closes the socket.
Alone ==
    /\ \A d \in Closing : UnderWay = {d}
    /\ ctl.pc \in {"take", "close", "closefd"} => UnderWay = {}
    /\ ctl.pc # "idle" /\ ctl.op = "close" => UnderWay = {}
    /\ handle = "freed" => UnderWay = {} /\ ctl.pc = "idle" /\ socket = 0

\* Descriptor 0 is never closed; the socket of the handle is connected and its
\* other descriptor listens, until somebody has begun to close them.
Sockets ==
    /\ files[0] = "other"
    /\ \A d \in Threads : call[d] \in {"io", "close", "zero"} => socket # 0
    /\ socket # 0 => /\ files[socket] = (IF \E d \in Threads : call[d] = "zero" THEN NULL ELSE "data")
                     /\ files[socket_fd] = "listen"
    /\ \A d \in Threads : call[d] = "closefd" => socket = 0 /\ files[socket_fd] = "listen"

\* What the controlling thread has in its hand.
Controls ==
    /\ ctl.pc = "take" => socket # 0
    /\ ctl.pc = "close" => files[ctl.fd] = "data"
    /\ ctl.pc \in {"close", "closefd"} => socket = 0 /\ files[socket_fd] = "listen"
    /\ ctl.pc = "bound" => socket = 0 /\ files[ctl.fd] = "listen"
    /\ ctl.pc = "bound" /\ Closing # {} => ctl.fd # socket_fd
    /\ ctl.pc = "accept" =>
          socket = 0 /\ Closing = {} /\ ctl.fd = socket_fd /\ files[socket_fd] = "listen"
    /\ ctl.pc = "closed" /\ ctl.op = "close" => socket = 0

\* The descriptors somebody will still close.
Owned ==
    (IF socket # 0 THEN {socket} ELSE {})
        \cup (IF socket # 0 \/ Closing # {} \/ ctl.pc \in {"close", "closefd", "accept"}
              THEN {socket_fd} ELSE {})
        \cup (IF ctl.pc \in {"bound", "close"} THEN {ctl.fd} ELSE {})

Lost == {n \in Fds : files[n] \in {"listen", "data"}} \ Owned

Orderly == raced \/ (Alone /\ Sockets /\ Controls /\ Cardinality(Lost) <= failed)

IOInv == IOTypes /\ Counted /\ Orderly

-----------------------------------------------------------------------------
(* Counting                                                                *)

\* The data calls under way can be counted.
LEMMA UnderWayFinite ==
    /\ IsFiniteSet(UnderWay) /\ Cardinality(UnderWay) \in Nat
    /\ Cardinality(UnderWay) <= Cardinality(Threads) /\ Cardinality(Threads) \in Nat
<1>1. IsFiniteSet(Threads) /\ UnderWay \subseteq Threads
  BY IOAssumption DEF UnderWay
<1>2. QED
  BY <1>1, FS_Subset, FS_CardinalityType

\* Where the counter counts nobody, nobody is under way.
LEMMA NoneUnderWay == Cardinality(UnderWay) = 0 => UnderWay = {}
BY UnderWayFinite, FS_EmptySet

\* So can the descriptors of the process.
LEMMA FdsFinite == IsFiniteSet(Fds) /\ \A A \in SUBSET Fds : IsFiniteSet(A)
<1>1. IsFiniteSet(0 .. MaxFd)
  BY IOAssumption, FS_Interval
<1>2. QED
  BY <1>1, FS_Subset DEF Fds

\* Who loses no more than before stays within the bound ...
LEMMA SmallerLost ==
    ASSUME NEW A \in SUBSET Fds, NEW B \in SUBSET A, NEW f \in Nat, Cardinality(A) <= f
    PROVE  Cardinality(B) <= f
<1>1. IsFiniteSet(A)
  BY FdsFinite
<1>2. Cardinality(B) <= Cardinality(A) /\ Cardinality(A) \in Nat /\ Cardinality(B) \in Nat
  BY <1>1, FS_Subset, FS_CardinalityType
<1>3. QED
  BY <1>2

\* ... and who loses one more goes beyond it by one.
LEMMA OneMoreLost ==
    ASSUME NEW A \in SUBSET Fds, NEW x, NEW B \in SUBSET (A \cup {x}), NEW f \in Nat,
           Cardinality(A) <= f
    PROVE  Cardinality(B) <= f + 1
<1>1. IsFiniteSet(A)
  BY FdsFinite
<1>2. /\ IsFiniteSet(A \cup {x}) /\ Cardinality(A) \in Nat
      /\ Cardinality(A \cup {x}) = IF x \in A THEN Cardinality(A) ELSE Cardinality(A) + 1
  BY <1>1, FS_AddElement, FS_CardinalityType
<1>3. /\ Cardinality(B) <= Cardinality(A \cup {x}) /\ Cardinality(A \cup {x}) \in Nat
      /\ Cardinality(B) \in Nat
  BY <1>2, FS_Subset, FS_CardinalityType
<1>4. QED
  BY <1>2, <1>3

\* Only descriptors are lost.
LEMMA LostFds == Lost \in SUBSET Fds
BY DEF Lost

\* The number of prepares that failed.
LEMMA FailedNat == IOTypes => failed \in Nat
BY DEF IOTypes

-----------------------------------------------------------------------------
(* The controlling thread and the filter                                   *)

\* Steps of the thread that controls the handle, and of the filter, leave the
\* data calls and the counter alone.
LEMMA CountKept ==
    ASSUME Counted, UNCHANGED <<refs, call>>,
           UNCHANGED <<handle, socket, ctl>> \/ (handle = "open" /\ handle' # "none")
    PROVE  Counted' /\ UnderWay' = UnderWay /\ Closing' = Closing
<1>1. UnderWay' = UnderWay /\ Closing' = Closing
  BY DEF UnderWay, Closing
<1>2. Counted'
  BY <1>1 DEF Counted
<1>3. QED
  BY <1>1, <1>2

\* A handle is opened.
LEMMA OpenKeeps ==
    ASSUME IOInv, media_open
    PROVE  IOInv'
<1>1. IOTypes /\ Counted
  BY DEF IOInv
<1>2. /\ handle = "none" /\ handle' = "open" /\ refs' = 1
      /\ UNCHANGED <<socket, socket_fd, files, call, failed, ctl, peer, running, raced>>
  BY <1>1 DEF media_open, io_vars
<1>3. IOTypes'
  BY <1>1, <1>2, IOAssumption DEF IOTypes, CtlType, Fds, Idle
<1>4. Counted' /\ UnderWay' = UnderWay /\ Closing' = Closing
  <2>1. UnderWay' = UnderWay /\ Closing' = Closing
    BY <1>2 DEF UnderWay, Closing
  <2>2. UnderWay = {}
    BY <1>1, <1>2 DEF Counted
  <2>3. QED
    BY <1>2, <2>1, <2>2, FS_EmptySet DEF Counted
<1>5. ASSUME ~ raced' PROVE Alone' /\ Sockets' /\ Controls' /\ Cardinality(Lost') <= failed'
  <2>1. ~ raced /\ Alone /\ Sockets /\ Controls /\ Cardinality(Lost) <= failed
    BY <1>2, <1>5 DEF IOInv, Orderly
  <2>2. Alone'
    BY <1>1, <1>2, <1>4, <1>5, <2>1 DEF Alone, Counted
  <2>3. Sockets'
    BY <1>2, <2>1 DEF Sockets
  <2>4. Controls'
    BY <1>1, <1>2, <1>4, <2>1 DEF Controls, Alone, IOTypes
  <2>5. Lost' = Lost
    BY <1>2, <1>4 DEF Lost, Owned
  <2>6. QED
    BY <1>2, <2>1, <2>2, <2>3, <2>4, <2>5
<1>6. QED
  BY <1>3, <1>4, <1>5 DEF IOInv, Orderly

\* A request that only asks.
LEMMA AskKeeps ==
    ASSUME IOInv, Ask
    PROVE  IOInv'
<1>1. IOTypes /\ Counted
  BY DEF IOInv
<1>2. /\ handle = "open" /\ ctl.pc = "idle" /\ ctl' = [pc |-> "ask", op |-> "ask", fd |-> 0]
      /\ UNCHANGED <<socket, socket_fd, files, call, failed, handle, refs, peer, running, raced>>
  BY <1>1 DEF Ask, io_vars, Free
<1>3. IOTypes'
  BY <1>1, <1>2, IOAssumption DEF IOTypes, CtlType, Fds, Idle
<1>4. Counted' /\ UnderWay' = UnderWay /\ Closing' = Closing
  BY <1>1, <1>2, CountKept
<1>5. ASSUME ~ raced' PROVE Alone' /\ Sockets' /\ Controls' /\ Cardinality(Lost') <= failed'
  <2>1. ~ raced /\ Alone /\ Sockets /\ Controls /\ Cardinality(Lost) <= failed
    BY <1>2, <1>5 DEF IOInv, Orderly
  <2>2. Alone'
    BY <1>1, <1>2, <1>4, <1>5, <2>1 DEF Alone, Counted
  <2>3. Sockets'
    BY <1>2, <2>1 DEF Sockets
  <2>4. Controls'
    BY <1>1, <1>2, <1>4, <2>1 DEF Controls, Alone, IOTypes
  <2>5. Lost' = Lost
    BY <1>2, <1>4 DEF Lost, Owned
  <2>6. QED
    BY <1>2, <2>1, <2>2, <2>3, <2>4, <2>5
<1>6. QED
  BY <1>3, <1>4, <1>5 DEF IOInv, Orderly

\* A stop or a reset begins with the socket.
LEMMA StopKeeps ==
    ASSUME IOInv, NEW op \in {"stop", "close_socket"}, Stop(op)
    PROVE  IOInv'
<1>1. IOTypes /\ Counted
  BY DEF IOInv
<1>2. /\ handle = "open" /\ ctl.pc = "idle" /\ ctl' = [pc |-> "test", op |-> op, fd |-> 0]
      /\ UNCHANGED <<socket, socket_fd, files, call, failed, handle, refs, peer, running, raced>>
  BY <1>1 DEF Stop, io_vars, Free
<1>3. IOTypes'
  BY <1>1, <1>2, IOAssumption DEF IOTypes, CtlType, Fds, Idle
<1>4. Counted' /\ UnderWay' = UnderWay /\ Closing' = Closing
  BY <1>1, <1>2, CountKept
<1>5. ASSUME ~ raced' PROVE Alone' /\ Sockets' /\ Controls' /\ Cardinality(Lost') <= failed'
  <2>1. ~ raced /\ Alone /\ Sockets /\ Controls /\ Cardinality(Lost) <= failed
    BY <1>2, <1>5 DEF IOInv, Orderly
  <2>2. Alone'
    BY <1>1, <1>2, <1>4, <1>5, <2>1 DEF Alone, Counted
  <2>3. Sockets'
    BY <1>2, <2>1 DEF Sockets
  <2>4. Controls'
    BY <1>1, <1>2, <1>4, <2>1 DEF Controls, Alone, IOTypes
  <2>5. Lost' = Lost
    BY <1>2, <1>4 DEF Lost, Owned
  <2>6. QED
    BY <1>2, <2>1, <2>2, <2>3, <2>4, <2>5
<1>6. QED
  BY <1>3, <1>4, <1>5 DEF IOInv, Orderly

\* A close begins with the request; with data calls under way it is a race.
LEMMA CloseBeginsKeeps ==
    ASSUME IOInv, media_close
    PROVE  IOInv'
<1>1. IOTypes /\ Counted
  BY DEF IOInv
<1>2. /\ handle = "open" /\ ctl.pc = "idle" /\ ctl' = [pc |-> "ask", op |-> "close", fd |-> 0]
      /\ raced' \in BOOLEAN /\ (~ raced' => ~ raced /\ UnderWay = {})
      /\ UNCHANGED <<socket, socket_fd, files, call, failed, handle, refs, peer, running>>
  BY <1>1 DEF media_close, IOTypes, io_vars, Free
<1>3. IOTypes'
  BY <1>1, <1>2, IOAssumption DEF IOTypes, CtlType, Fds, Idle
<1>4. Counted' /\ UnderWay' = UnderWay /\ Closing' = Closing
  BY <1>1, <1>2, CountKept
<1>5. ASSUME ~ raced' PROVE Alone' /\ Sockets' /\ Controls' /\ Cardinality(Lost') <= failed'
  <2>1. ~ raced /\ Alone /\ Sockets /\ Controls /\ Cardinality(Lost) <= failed
    BY <1>2, <1>5 DEF IOInv, Orderly
  <2>2. Alone'
    BY <1>1, <1>2, <1>4, <1>5, <2>1 DEF Alone, Counted
  <2>3. Sockets'
    BY <1>2, <2>1 DEF Sockets
  <2>4. Controls'
    BY <1>1, <1>2, <1>4, <2>1 DEF Controls, Alone, IOTypes
  <2>5. Lost' = Lost
    BY <1>2, <1>4 DEF Lost, Owned
  <2>6. QED
    BY <1>2, <2>1, <2>2, <2>3, <2>4, <2>5
<1>6. QED
  BY <1>3, <1>4, <1>5 DEF IOInv, Orderly

\* media_close_socket looks at the counter: with the reference of the handle
\* alone nobody is under way.
LEMMA TestRefsKeeps == IOInv /\ TestRefs => IOInv'
<1> SUFFICES ASSUME IOInv, TestRefs PROVE IOInv'
  OBVIOUS
<1>1. IOTypes /\ Counted
  BY DEF IOInv
<1>2. /\ ctl.pc = "test" /\ ctl' = [ctl EXCEPT !.pc = IF refs = 1 /\ socket # 0 THEN "take" ELSE "closed"]
      /\ UNCHANGED <<handle, refs, socket, socket_fd, files, call, peer, running, failed, raced>>
  BY DEF TestRefs, io_vars
<1>3. IOTypes'
  BY <1>1, <1>2 DEF IOTypes, CtlType
<1>4. handle # "none" /\ (refs = 1 <=> UnderWay = {})
  BY <1>1, <1>2, UnderWayFinite, NoneUnderWay, FS_EmptySet DEF Counted
<1>5. UnderWay' = UnderWay /\ Closing' = Closing
  BY <1>2 DEF UnderWay, Closing
<1>6. Counted'
  BY <1>1, <1>2, <1>4, <1>5 DEF Counted
<1>7. ctl'.pc = (IF refs = 1 /\ socket # 0 THEN "take" ELSE "closed") /\ ctl'.op = ctl.op
  BY <1>1, <1>2 DEF IOTypes, CtlType
<1>8. ASSUME ~ raced' PROVE Alone' /\ Sockets' /\ Controls' /\ Cardinality(Lost') <= failed'
  <2>1. ~ raced /\ Alone /\ Sockets /\ Controls /\ Cardinality(Lost) <= failed
    BY <1>2, <1>8 DEF IOInv, Orderly
  <2>2. Alone'
    BY <1>2, <1>4, <1>5, <1>7, <2>1 DEF Alone
  <2>3. Sockets'
    BY <1>2, <2>1 DEF Sockets
  <2>4. Controls'
    BY <1>4, <1>2, <1>7, <2>1 DEF Controls, Alone
  <2>5. Lost' = Lost
    BY <1>2, <1>5, <1>7 DEF Lost, Owned
  <2>6. QED
    BY <1>2, <2>1, <2>2, <2>3, <2>4, <2>5
<1>9. QED
  BY <1>3, <1>6, <1>8 DEF IOInv, Orderly

\* It takes the socket out of the handle ...
LEMMA TakeSocketKeeps == IOInv /\ TakeSocket => IOInv'
<1> SUFFICES ASSUME IOInv, TakeSocket PROVE IOInv'
  OBVIOUS
<1>1. IOTypes /\ Counted
  BY DEF IOInv
<1>2. /\ ctl.pc = "take" /\ ctl' = [pc |-> "close", op |-> ctl.op, fd |-> socket] /\ socket' = 0
      /\ UNCHANGED <<handle, refs, socket_fd, files, call, peer, running, failed, raced>>
  BY DEF TakeSocket
<1>3. IOTypes'
  BY <1>1, <1>2, IOAssumption DEF IOTypes, CtlType, Fds
<1>4. UnderWay' = UnderWay /\ Closing' = Closing
  BY <1>2 DEF UnderWay, Closing
<1>5. Counted'
  BY <1>1, <1>2, <1>4 DEF Counted
<1>6. ASSUME ~ raced' PROVE Alone' /\ Sockets' /\ Controls' /\ Cardinality(Lost') <= failed'
  <2>1. ~ raced /\ Alone /\ Sockets /\ Controls /\ Cardinality(Lost) <= failed
    BY <1>2, <1>6 DEF IOInv, Orderly
  <2>2. UnderWay = {} /\ Closing = {} /\ socket # 0
    BY <1>2, <2>1 DEF Alone, Controls, UnderWay, Closing
  <2>3. \A d \in Threads : call[d] = "idle"
    BY <2>2 DEF UnderWay
  <2>4. files[socket] = "data" /\ files[socket_fd] = "listen"
    BY <2>1, <2>2, <2>3 DEF Sockets
  <2>5. Alone'
    BY <1>1, <1>2, <1>4, <2>1, <2>2 DEF Alone, Counted
  <2>6. Sockets'
    BY <1>2, <2>1, <2>3 DEF Sockets
  <2>7. Controls'
    BY <1>2, <1>4, <2>4 DEF Controls
  <2>8. Lost' = Lost
    BY <1>2, <1>4, <2>2 DEF Lost, Owned
  <2>9. QED
    BY <1>2, <2>1, <2>5, <2>6, <2>7, <2>8
<1>7. QED
  BY <1>3, <1>5, <1>6 DEF IOInv, Orderly

\* ... closes it ...
LEMMA CloseTakenKeeps == IOInv /\ CloseTaken => IOInv'
<1> SUFFICES ASSUME IOInv, CloseTaken PROVE IOInv'
  OBVIOUS
<1>1. IOTypes /\ Counted
  BY DEF IOInv
<1>2. /\ ctl.pc = "close" /\ files' = [files EXCEPT ![ctl.fd] = NULL]
      /\ peer' = (IF files[ctl.fd] = "data" THEN NULL ELSE peer)
      /\ ctl' = [ctl EXCEPT !.pc = "closefd"]
      /\ UNCHANGED <<handle, refs, socket, socket_fd, call, running, failed, raced>>
  BY DEF CloseTaken, close, io_vars
<1>3. IOTypes'
  BY <1>1, <1>2 DEF IOTypes, CtlType
<1>4. UnderWay' = UnderWay /\ Closing' = Closing
  BY <1>2 DEF UnderWay, Closing
<1>5. Counted'
  BY <1>1, <1>2, <1>4 DEF Counted
<1>6. \A n \in Fds : files'[n] = IF n = ctl.fd THEN NULL ELSE files[n]
  BY <1>1, <1>2 DEF IOTypes
<1>7. ctl'.pc = "closefd"
  BY <1>1, <1>2 DEF IOTypes, CtlType
<1>8. ASSUME ~ raced' PROVE Alone' /\ Sockets' /\ Controls' /\ Cardinality(Lost') <= failed'
  <2>1. ~ raced /\ Alone /\ Sockets /\ Controls /\ Cardinality(Lost) <= failed
    BY <1>2, <1>8 DEF IOInv, Orderly
  <2>2. socket = 0 /\ files[socket_fd] = "listen" /\ files[ctl.fd] = "data" /\ UnderWay = {}
    BY <1>2, <2>1 DEF Alone, Controls
  <2>3. \A d \in Threads : call[d] = "idle"
    BY <2>2 DEF UnderWay
  <2>4. 0 \in Fds /\ socket_fd \in Fds /\ files'[0] = "other" /\ files'[socket_fd] = "listen"
    BY <1>1, <1>6, <2>1, <2>2, IOAssumption DEF IOTypes, Fds, Sockets
  <2>5. Alone'
    BY <1>1, <1>2, <1>4, <2>1, <2>2 DEF Alone, Counted
  <2>6. Sockets'
    BY <1>2, <2>2, <2>3, <2>4 DEF Sockets
  <2>7. Controls'
    BY <1>2, <1>7, <2>2, <2>4 DEF Controls
  <2>8. Lost' \in SUBSET Lost
    BY <1>1, <1>2, <1>4, <1>6, <1>7, <2>2, IOAssumption DEF Lost, Owned
  <2>9. QED
    BY <1>1, <1>2, <2>1, <2>5, <2>6, <2>7, <2>8, LostFds, SmallerLost, FailedNat
<1>9. QED
  BY <1>3, <1>5, <1>8 DEF IOInv, Orderly

\* ... and closes the descriptor that listens.
LEMMA CloseListeningKeeps == IOInv /\ CloseListening => IOInv'
<1> SUFFICES ASSUME IOInv, CloseListening PROVE IOInv'
  OBVIOUS
<1>1. IOTypes /\ Counted
  BY DEF IOInv
<1>2. /\ ctl.pc = "closefd" /\ ctl' = [ctl EXCEPT !.pc = "closed"]
      /\ \/ /\ socket_fd > 0 /\ files' = [files EXCEPT ![socket_fd] = NULL]
            /\ peer' = (IF files[socket_fd] = "data" THEN NULL ELSE peer)
         \/ ~ (socket_fd > 0) /\ UNCHANGED <<files, peer>>
      /\ UNCHANGED <<handle, refs, socket, socket_fd, call, running, failed, raced>>
  BY DEF CloseListening, close, io_vars
<1>3. IOTypes'
  BY <1>1, <1>2 DEF IOTypes, CtlType
<1>4. UnderWay' = UnderWay /\ Closing' = Closing
  BY <1>2 DEF UnderWay, Closing
<1>5. Counted'
  BY <1>1, <1>2, <1>4 DEF Counted
<1>7. ctl'.pc = "closed" /\ ctl'.op = ctl.op
  BY <1>1, <1>2 DEF IOTypes, CtlType
<1>8. ASSUME ~ raced' PROVE Alone' /\ Sockets' /\ Controls' /\ Cardinality(Lost') <= failed'
  <2>1. ~ raced /\ Alone /\ Sockets /\ Controls /\ Cardinality(Lost) <= failed
    BY <1>2, <1>8 DEF IOInv, Orderly
  <2>2. socket = 0 /\ files[socket_fd] = "listen" /\ UnderWay = {} /\ files[0] = "other"
    BY <1>2, <2>1 DEF Alone, Controls, Sockets
  <2>3. \A d \in Threads : call[d] = "idle"
    BY <2>2 DEF UnderWay
  <2>4. socket_fd > 0
    BY <1>1, <2>2 DEF IOTypes, Fds
  <2>5. \A n \in Fds : files'[n] = IF n = socket_fd THEN NULL ELSE files[n]
    BY <1>1, <1>2, <2>4 DEF IOTypes
  <2>6. Alone'
    BY <1>1, <1>2, <1>4, <1>7, <2>1, <2>2 DEF Alone, Counted
  <2>7. Sockets'
    <3>1. 0 \in Fds /\ files'[0] = "other"
      BY <1>1, <2>2, <2>4, <2>5, IOAssumption DEF IOTypes, Fds
    <3>2. QED
      BY <1>2, <2>2, <2>3, <3>1 DEF Sockets
  <2>8. Controls'
    BY <1>2, <1>7, <2>2 DEF Controls
  <2>9. Lost' \in SUBSET Lost
    BY <1>2, <1>4, <1>7, <2>2, <2>5, IOAssumption DEF Lost, Owned
  <2>10. QED
    BY <1>1, <1>2, <2>1, <2>6, <2>7, <2>8, <2>9, LostFds, SmallerLost, FailedNat
<1>9. QED
  BY <1>3, <1>5, <1>8 DEF IOInv, Orderly

\* What follows media_close_socket: a handle that is freed has no socket.
LEMMA SocketClosedKeeps == IOInv /\ SocketClosed => IOInv'
<1> SUFFICES ASSUME IOInv, SocketClosed PROVE IOInv'
  OBVIOUS
<1>1. IOTypes /\ Counted
  BY DEF IOInv
<1>2. /\ ctl.pc = "closed"
      /\ \/ ctl.op = "close" /\ ctl' = Idle /\ handle' = "freed"
         \/ ctl.op # "close" /\ handle' = handle /\ (ctl' = Idle \/ ctl' = [ctl EXCEPT !.pc = "ask"])
      /\ UNCHANGED <<refs, socket, socket_fd, files, call, peer, running, failed, raced>>
  BY DEF SocketClosed, io_vars
<1>3. IOTypes'
  BY <1>1, <1>2, IOAssumption DEF IOTypes, CtlType, Idle, Fds
<1>4. UnderWay' = UnderWay /\ Closing' = Closing
  BY <1>2 DEF UnderWay, Closing
<1>5. Counted'
  BY <1>1, <1>2, <1>4 DEF Counted
<1>7. /\ ctl'.pc \in {"idle", "ask"} /\ (ctl.op = "close" => ctl'.pc = "idle")
      /\ (ctl'.pc # "idle" => ctl'.op # "close")
  BY <1>1, <1>2 DEF IOTypes, CtlType, Idle
<1>8. ASSUME ~ raced' PROVE Alone' /\ Sockets' /\ Controls' /\ Cardinality(Lost') <= failed'
  <2>1. ~ raced /\ Alone /\ Sockets /\ Controls /\ Cardinality(Lost) <= failed
    BY <1>2, <1>8 DEF IOInv, Orderly
  <2>2. Alone'
    BY <1>1, <1>2, <1>4, <1>7, <2>1 DEF Alone, Controls
  <2>3. Sockets'
    BY <1>2, <2>1 DEF Sockets
  <2>4. Controls'
    BY <1>2, <1>7, <2>1 DEF Controls
  <2>5. Lost' = Lost
    BY <1>2, <1>4, <1>7 DEF Lost, Owned
  <2>6. QED
    BY <1>2, <2>1, <2>2, <2>3, <2>4, <2>5
<1>9. QED
  BY <1>3, <1>5, <1>8 DEF IOInv, Orderly

\* The answer to a request.
LEMMA AnsweredKeeps ==
    ASSUME IOInv, NEW ok \in BOOLEAN, Answered(ok)
    PROVE  IOInv'
<1>1. IOTypes /\ Counted
  BY DEF IOInv
<1>2. /\ ctl.pc = "ask" /\ (ctl' = Idle \/ (ctl.op = "close" /\ ctl' = [ctl EXCEPT !.pc = "test"]))
      /\ UNCHANGED <<handle, refs, socket, socket_fd, files, call, peer, failed, raced>>
  BY DEF Answered, io_vars
<1>6. running' \in BOOLEAN
  <2>1. running' = (running /\ ~ (ok /\ ctl.op \in {"stop", "close"}))
    BY DEF Answered
  <2>2. QED
    BY <2>1, ZenonT(30)
<1>3. IOTypes'
  BY <1>1, <1>2, <1>6, IOAssumption DEF IOTypes, CtlType, Idle, Fds
<1>4. UnderWay' = UnderWay /\ Closing' = Closing
  BY <1>2 DEF UnderWay, Closing
<1>5. Counted'
  BY <1>1, <1>2, <1>4 DEF Counted
<1>7. ctl'.pc \in {"idle", "test"} /\ (ctl'.pc # "idle" /\ ctl'.op = "close" => ctl.op = "close")
  BY <1>1, <1>2 DEF IOTypes, CtlType, Idle
<1>8. ASSUME ~ raced' PROVE Alone' /\ Sockets' /\ Controls' /\ Cardinality(Lost') <= failed'
  <2>1. ~ raced /\ Alone /\ Sockets /\ Controls /\ Cardinality(Lost) <= failed
    BY <1>2, <1>8 DEF IOInv, Orderly
  <2>2. Alone'
    BY <1>1, <1>2, <1>4, <1>7, <2>1 DEF Alone
  <2>3. Sockets'
    BY <1>2, <2>1 DEF Sockets
  <2>4. Controls'
    BY <1>2, <1>7, <2>1 DEF Controls
  <2>5. Lost' = Lost
    BY <1>2, <1>4, <1>7 DEF Lost, Owned
  <2>6. QED
    BY <1>2, <2>1, <2>2, <2>3, <2>4, <2>5
<1>9. QED
  BY <1>3, <1>5, <1>8 DEF IOInv, Orderly

\* A descriptor listens.  The one a data call is about to close is not free.
LEMMA BindKeeps ==
    ASSUME IOInv, NEW ok \in BOOLEAN, media_bind_socket(ok)
    PROVE  IOInv'
<1>1. IOTypes /\ Counted
  BY DEF IOInv
<1>2. /\ handle = "open" /\ ctl.pc = "idle" /\ socket = 0
      /\ UNCHANGED <<handle, refs, socket, socket_fd, call, peer, running, failed, raced>>
  BY DEF media_bind_socket, Free, io_vars
<1>4. UnderWay' = UnderWay /\ Closing' = Closing
  BY <1>2 DEF UnderWay, Closing
<1>5. Counted'
  BY <1>1, <1>2, <1>4 DEF Counted
<1>6. CASE UNCHANGED <<files, ctl>>
  <2>1. IOTypes'
    BY <1>1, <1>2, <1>6 DEF IOTypes
  <2>2. Orderly'
    BY <1>2, <1>4, <1>6 DEF IOInv, Orderly, Alone, Sockets, Controls, Lost, Owned
  <2>3. QED
    BY <1>5, <2>1, <2>2 DEF IOInv
<1>7. ASSUME NEW n \in NewFd, files' = [files EXCEPT ![n] = "listen"],
             ctl' = [pc |-> "bound", op |-> "prepare", fd |-> n]
      PROVE  IOInv'
  <2>1. n \in Fds /\ files[n] = NULL
    BY <1>7 DEF NewFd
  <2>2. IOTypes'
    BY <1>1, <1>2, <1>7, <2>1 DEF IOTypes, CtlType
  <2>3. \A m \in Fds : files'[m] = IF m = n THEN "listen" ELSE files[m]
    BY <1>1, <1>7 DEF IOTypes
  <2>4. ASSUME ~ raced' PROVE Alone' /\ Sockets' /\ Controls' /\ Cardinality(Lost') <= failed'
    <3>1. ~ raced /\ Alone /\ Sockets /\ Controls /\ Cardinality(Lost) <= failed
      BY <1>2, <2>4 DEF IOInv, Orderly
    <3>2. 0 \in Fds /\ socket_fd \in Fds /\ n # 0
      BY <1>1, <2>1, <3>1, IOAssumption DEF IOTypes, Fds, Sockets
    <3>3. ASSUME NEW d \in Closing PROVE call[d] = "closefd" /\ files[socket_fd] = "listen" /\ n # socket_fd
      BY <1>2, <2>1, <3>1, <3>3, IOAssumption DEF Closing, Sockets
    <3>4. Alone'
      BY <1>2, <1>4, <1>7, <3>1 DEF Alone
    <3>5. Sockets'
      <4>1. files'[0] = "other"
        BY <2>3, <3>1, <3>2 DEF Sockets
      <4>2. \A d \in Threads : call[d] = "closefd" => files'[socket_fd] = "listen"
        BY <2>3, <3>1, <3>2 DEF Sockets
      <4>3. QED
        BY <1>2, <3>1, <4>1, <4>2 DEF Sockets
    <3>6. Controls'
      BY <1>2, <1>4, <1>7, <2>1, <2>3, <3>3 DEF Controls
    <3>7. Lost' \in SUBSET Lost
      BY <1>2, <1>4, <1>7, <2>3, <3>3 DEF Lost, Owned
    <3>8. QED
      BY <1>1, <1>2, <3>1, <3>4, <3>5, <3>6, <3>7, LostFds, SmallerLost, FailedNat
  <2>5. QED
    BY <1>5, <2>2, <2>4 DEF IOInv, Orderly
<1>8. QED
  BY <1>6, <1>7 DEF media_bind_socket

\* The answers to "set_options" and "prepare": the descriptor that listens
\* becomes the one of the handle, or is forgotten.
LEMMA PreparedKeeps ==
    ASSUME IOInv, NEW ok \in BOOLEAN, Prepared(ok)
    PROVE  IOInv'
<1>1. IOTypes /\ Counted
  BY DEF IOInv
<1>2. /\ ctl.pc = "bound"
      /\ UNCHANGED <<handle, refs, socket, files, call>>
  BY DEF Prepared
<1>3. UnderWay' = UnderWay /\ Closing' = Closing
  BY <1>2 DEF UnderWay, Closing
<1>4. Counted'
  BY <1>1, <1>2, <1>3 DEF Counted
<1>5. CASE ok
  <2>1. /\ socket_fd' = ctl.fd /\ ctl' = [ctl EXCEPT !.pc = "accept"] /\ running' = TRUE /\ peer' = "asked"
        /\ raced' = (raced \/ Closing # {}) /\ failed' = failed
    BY <1>5 DEF Prepared
  <2>2. ctl'.pc = "accept" /\ ctl'.op = ctl.op /\ ctl'.fd = ctl.fd /\ ctl.fd \in Fds
    BY <1>1, <2>1 DEF IOTypes, CtlType
  <2>3. IOTypes'
    BY <1>1, <1>2, <2>1, <2>2 DEF IOTypes, CtlType
  <2>4. ASSUME ~ raced' PROVE Alone' /\ Sockets' /\ Controls' /\ Cardinality(Lost') <= failed'
    <3>1. ~ raced /\ Closing = {} /\ Alone /\ Sockets /\ Controls /\ Cardinality(Lost) <= failed
      BY <2>1, <2>4 DEF IOInv, Orderly
    <3>2. socket = 0 /\ files[ctl.fd] = "listen" /\ \A d \in Threads : call[d] \notin {"close", "zero", "closefd"}
      BY <1>2, <3>1 DEF Controls, Closing
    <3>3. Alone'
      BY <1>2, <1>3, <2>2, <3>1 DEF Alone
    <3>4. Sockets'
      BY <1>2, <2>1, <3>1, <3>2 DEF Sockets
    <3>5. Controls'
      BY <1>2, <1>3, <2>1, <2>2, <3>1, <3>2 DEF Controls
    <3>6. Lost' = Lost
      BY <1>2, <1>3, <2>1, <2>2, <3>1, <3>2 DEF Lost, Owned
    <3>7. QED
      BY <2>1, <3>1, <3>3, <3>4, <3>5, <3>6
  <2>5. QED
    BY <1>4, <2>3, <2>4 DEF IOInv, Orderly
<1>6. CASE ~ ok
  <2>1. ctl' = Idle /\ failed' = failed + 1 /\ UNCHANGED <<socket_fd, running, peer, raced>>
    BY <1>6 DEF Prepared
  <2>2. ctl'.pc = "idle"
    BY <2>1 DEF Idle
  <2>3. IOTypes'
    BY <1>1, <1>2, <2>1, IOAssumption DEF IOTypes, CtlType, Idle, Fds
  <2>4. ASSUME ~ raced' PROVE Alone' /\ Sockets' /\ Controls' /\ Cardinality(Lost') <= failed'
    <3>1. ~ raced /\ Alone /\ Sockets /\ Controls /\ Cardinality(Lost) <= failed
      BY <2>1, <2>4 DEF IOInv, Orderly
    <3>2. Alone' /\ Sockets' /\ Controls'
      BY <1>2, <1>3, <2>1, <2>2, <3>1 DEF Alone, Sockets, Controls
    <3>3. Lost' \in SUBSET (Lost \cup {ctl.fd})
      BY <1>2, <1>3, <2>1, <2>2 DEF Lost, Owned
    <3>4. Cardinality(Lost') <= failed + 1
      BY <1>1, <3>1, <3>3, LostFds, OneMoreLost, FailedNat
    <3>5. QED
      BY <2>1, <3>2, <3>4
  <2>5. QED
    BY <1>4, <2>3, <2>4 DEF IOInv, Orderly
<1>7. QED
  BY <1>5, <1>6

\* The filter has connected, and the socket belongs to the handle; or it is
\* lost with the descriptor that listens.
LEMMA AcceptedKeeps ==
    ASSUME IOInv, NEW ok \in BOOLEAN, Accepted(ok)
    PROVE  IOInv'
<1>1. IOTypes /\ Counted
  BY DEF IOInv
<1>2. /\ ctl.pc = "accept" /\ ctl' = Idle
      /\ UNCHANGED <<handle, refs, socket_fd, call, running, raced>>
  BY DEF Accepted
<1>3. UnderWay' = UnderWay /\ Closing' = Closing
  BY <1>2 DEF UnderWay, Closing
<1>5. ctl'.pc = "idle" /\ ctl' \in CtlType
  BY <1>2, IOAssumption DEF Idle, CtlType, Fds
<1>6. ASSUME NEW n \in NewFd, socket' = n, files' = [files EXCEPT ![n] = "data"], failed' = failed,
             peer' \in {"open", "closed"}
      PROVE  IOInv'
  <2>1. n \in Fds /\ files[n] = NULL
    BY <1>6 DEF NewFd
  <2>2. IOTypes'
    BY <1>1, <1>2, <1>5, <1>6, <2>1 DEF IOTypes
  <2>3. \A m \in Fds : files'[m] = IF m = n THEN "data" ELSE files[m]
    BY <1>1, <1>6 DEF IOTypes
  <2>4. ASSUME ~ raced' PROVE Alone' /\ Sockets' /\ Controls' /\ Cardinality(Lost') <= failed'
    <3>1. ~ raced /\ Alone /\ Sockets /\ Controls /\ Cardinality(Lost) <= failed
      BY <1>2, <2>4 DEF IOInv, Orderly
    <3>2. socket = 0 /\ Closing = {} /\ files[socket_fd] = "listen"
      BY <1>2, <3>1 DEF Controls
    <3>3. \A d \in Threads : call[d] \notin {"close", "zero", "closefd"}
      BY <3>2 DEF Closing
    <3>4. 0 \in Fds /\ socket_fd \in Fds /\ n # 0 /\ n # socket_fd
      BY <1>1, <2>1, <3>1, <3>2, IOAssumption DEF IOTypes, Fds, Sockets
    <3>5. handle # "freed"
      BY <1>2, <3>1 DEF Alone
    <3>6. handle # "none"
      BY <1>1, <1>2 DEF Counted
    <3>7. Alone'
      BY <1>2, <1>3, <1>5, <3>1, <3>5 DEF Alone
    <3>8. Sockets'
      <4>1. files'[0] = "other" /\ files'[n] = "data" /\ files'[socket_fd] = "listen"
        BY <2>1, <2>3, <3>1, <3>2, <3>4 DEF Sockets
      <4>2. QED
        BY <1>2, <1>6, <3>3, <3>4, <4>1 DEF Sockets
    <3>9. Controls'
      BY <1>5 DEF Controls
    <3>10. Lost' \in SUBSET Lost
      BY <1>2, <1>3, <1>5, <1>6, <2>3, <3>2, <3>4 DEF Lost, Owned
    <3>11. QED
      BY <1>1, <1>6, <3>1, <3>7, <3>8, <3>9, <3>10, LostFds, SmallerLost, FailedNat
  <2>5. Counted'
    <3>1. handle # "none"
      BY <1>1, <1>2 DEF Counted
    <3>2. QED
      BY <1>1, <1>2, <1>3, <3>1 DEF Counted
  <2>6. QED
    BY <2>2, <2>4, <2>5 DEF IOInv, Orderly
<1>7. ASSUME failed' = failed + 1, UNCHANGED <<socket, files, peer>>
      PROVE  IOInv'
  <2>1. IOTypes'
    BY <1>1, <1>2, <1>5, <1>7 DEF IOTypes
  <2>2. Counted'
    BY <1>1, <1>2, <1>3, <1>7 DEF Counted
  <2>3. ASSUME ~ raced' PROVE Alone' /\ Sockets' /\ Controls' /\ Cardinality(Lost') <= failed'
    <3>1. ~ raced /\ Alone /\ Sockets /\ Controls /\ Cardinality(Lost) <= failed
      BY <1>2, <2>3 DEF IOInv, Orderly
    <3>2. Alone' /\ Sockets' /\ Controls'
      BY <1>2, <1>3, <1>5, <1>7, <3>1 DEF Alone, Sockets, Controls
    <3>3. Lost' \in SUBSET (Lost \cup {socket_fd})
      BY <1>2, <1>3, <1>5, <1>7 DEF Lost, Owned
    <3>4. Cardinality(Lost') <= failed + 1
      BY <1>1, <3>1, <3>3, LostFds, OneMoreLost, FailedNat
    <3>5. QED
      BY <1>7, <3>2, <3>4
  <2>4. QED
    BY <2>1, <2>2, <2>3 DEF IOInv, Orderly
<1>8. QED
  <2>1. CASE ok
    <3>1. PICK n \in NewFd : socket' = n /\ files' = [files EXCEPT ![n] = "data"]
      BY <2>1 DEF Accepted
    <3>2. peer' \in {"open", "closed"} /\ failed' = failed
      BY <2>1 DEF Accepted
    <3>3. QED
      BY <1>6, <3>1, <3>2
  <2>2. CASE ~ ok
    BY <1>7, <2>2 DEF Accepted
  <2>3. QED
    BY <2>1, <2>2

\* The filter.
LEMMA PeerKeeps == IOInv /\ (Connects \/ Closes) => IOInv'
<1> SUFFICES ASSUME IOInv, Connects \/ Closes PROVE IOInv'
  OBVIOUS
<1>1. /\ peer' \in {NULL, "waits", "closed"}
      /\ UNCHANGED <<handle, refs, socket, socket_fd, files, ctl, call, running, failed, raced>>
  BY DEF Connects, Closes, io_vars
<1>2. UnderWay' = UnderWay /\ Closing' = Closing /\ Counted'
  <2>1. UnderWay' = UnderWay /\ Closing' = Closing
    BY <1>1 DEF UnderWay, Closing
  <2>2. QED
    BY <1>1, <2>1 DEF IOInv, Counted
<1>3. IOTypes'
  BY <1>1 DEF IOInv, IOTypes
<1>4. Orderly'
  BY <1>1, <1>2 DEF IOInv, Orderly, Alone, Sockets, Controls, Lost, Owned
<1>5. QED
  BY <1>2, <1>3, <1>4 DEF IOInv

-----------------------------------------------------------------------------
(* The data calls                                                          *)

\* A step of one data call.
LEMMA OneCall ==
    ASSUME IOTypes, NEW d \in Threads, NEW to \in CallType, Goes(d, to)
    PROVE  /\ call' \in [Threads -> CallType]
           /\ \A e \in Threads : call'[e] = IF e = d THEN to ELSE call[e]
BY DEF IOTypes, Goes

\* A data call goes on: who is under way and the counter stay.
LEMMA GoesOn ==
    ASSUME IOTypes, Counted, NEW d \in Threads, NEW to \in CallType, Goes(d, to),
           call[d] # "idle", to # "idle", UNCHANGED <<handle, refs, ctl>>, socket' \in {socket, 0}
    PROVE  /\ UnderWay' = UnderWay /\ d \in UnderWay /\ handle # "none" /\ Counted'
           /\ Closing' = IF to \in {"close", "zero", "closefd"} THEN Closing \cup {d} ELSE Closing \ {d}
<1>1. UnderWay' = UnderWay /\ d \in UnderWay
  BY OneCall DEF UnderWay
<1>2. Closing' = IF to \in {"close", "zero", "closefd"} THEN Closing \cup {d} ELSE Closing \ {d}
  BY OneCall DEF Closing
<1>3. handle # "none" /\ Counted'
  BY <1>1 DEF Counted
<1>4. QED
  BY <1>1, <1>2, <1>3

\* A data call finds its socket, or none.
LEMMA TestSocketKeeps ==
    ASSUME IOInv, NEW d \in Threads, TestSocket(d)
    PROVE  IOInv'
<1>1. IOTypes /\ Counted
  BY DEF IOInv
<1>2. /\ call[d] = "test"
      /\ UNCHANGED <<handle, refs, socket_fd, ctl, running, failed, socket, files, peer, raced>>
  BY DEF TestSocket, io_vars
<1>3. PICK to \in {"out", "io"} : Goes(d, to) /\ (to = "io" => socket # 0)
  BY <1>2 DEF TestSocket
<1>4. to \in CallType /\ to # "idle"
  BY DEF CallType
<1>5. \A e \in Threads : call'[e] = IF e = d THEN to ELSE call[e]
  BY <1>1, <1>3, <1>4, OneCall
<1>6. /\ UnderWay' = UnderWay /\ d \in UnderWay /\ Counted'
      /\ Closing' = IF to \in {"close", "zero", "closefd"} THEN Closing \cup {d} ELSE Closing \ {d}
  BY <1>1, <1>2, <1>3, <1>4, GoesOn
<1>7. IOTypes'
  BY <1>1, <1>2, <1>3, <1>4, OneCall, IOAssumption DEF IOTypes, Fds
<1>8. ASSUME ~ raced' PROVE Alone' /\ Sockets' /\ Controls' /\ Cardinality(Lost') <= failed'
  <2>1. ~ raced /\ Alone /\ Sockets /\ Controls /\ Cardinality(Lost) <= failed
    BY <1>2, <1>8 DEF IOInv, Orderly
  <2>2. Closing = {} /\ Closing' = {}
    BY <1>2, <1>3, <1>6, <2>1 DEF Alone, Closing, UnderWay
  <2>3. Alone'
    BY <1>2, <1>6, <2>1, <2>2 DEF Alone
  <2>4. Sockets'
    BY <1>2, <1>3, <1>5, <2>1 DEF Sockets
  <2>5. Controls'
    BY <1>2, <2>1, <2>2 DEF Controls
  <2>6. Lost' = Lost
    BY <1>2, <2>2 DEF Lost, Owned
  <2>7. QED
    BY <1>2, <2>1, <2>3, <2>4, <2>5, <2>6
<1>9. QED
  BY <1>6, <1>7, <1>8 DEF IOInv, Orderly

\* It moves its data.
LEMMA TransferKeeps ==
    ASSUME IOInv, NEW d \in Threads, Transfer(d)
    PROVE  IOInv'
<1>1. IOTypes /\ Counted
  BY DEF IOInv
<1>2. /\ call[d] = "io"
      /\ UNCHANGED <<handle, refs, socket_fd, ctl, running, failed, socket, files, peer, raced>>
  BY DEF Transfer, io_vars
<1>3. PICK to \in {"out"} : Goes(d, to)
  BY <1>2 DEF Transfer
<1>4. to \in CallType /\ to # "idle"
  BY DEF CallType
<1>5. \A e \in Threads : call'[e] = IF e = d THEN to ELSE call[e]
  BY <1>1, <1>3, <1>4, OneCall
<1>6. /\ UnderWay' = UnderWay /\ d \in UnderWay /\ Counted'
      /\ Closing' = IF to \in {"close", "zero", "closefd"} THEN Closing \cup {d} ELSE Closing \ {d}
  BY <1>1, <1>2, <1>3, <1>4, GoesOn
<1>7. IOTypes'
  BY <1>1, <1>2, <1>3, <1>4, OneCall, IOAssumption DEF IOTypes, Fds
<1>8. ASSUME ~ raced' PROVE Alone' /\ Sockets' /\ Controls' /\ Cardinality(Lost') <= failed'
  <2>1. ~ raced /\ Alone /\ Sockets /\ Controls /\ Cardinality(Lost) <= failed
    BY <1>2, <1>8 DEF IOInv, Orderly
  <2>2. Closing = {} /\ Closing' = {}
    BY <1>2, <1>3, <1>6, <2>1 DEF Alone, Closing, UnderWay
  <2>3. Alone'
    BY <1>2, <1>6, <2>1, <2>2 DEF Alone
  <2>4. Sockets'
    BY <1>2, <1>3, <1>5, <2>1 DEF Sockets
  <2>5. Controls'
    BY <1>2, <2>1, <2>2 DEF Controls
  <2>6. Lost' = Lost
    BY <1>2, <2>2 DEF Lost, Owned
  <2>7. QED
    BY <1>2, <2>1, <2>3, <2>4, <2>5, <2>6
<1>9. QED
  BY <1>6, <1>7, <1>8 DEF IOInv, Orderly

\* It meets the end of the connection; the race is that it is not the only one.
LEMMA TransferFailsKeeps ==
    ASSUME IOInv, NEW d \in Threads, TransferFails(d)
    PROVE  IOInv'
<1>1. IOTypes /\ Counted
  BY DEF IOInv
<1>2. /\ call[d] = "io"
      /\ raced' = (raced \/ UnderWay # {d})
      /\ UNCHANGED <<handle, refs, socket_fd, ctl, running, failed, socket, files, peer>>
  BY DEF TransferFails, io_vars
<1>3. PICK to \in {"close"} : Goes(d, to)
  BY <1>2 DEF TransferFails
<1>4. to \in CallType /\ to # "idle"
  BY DEF CallType
<1>5. \A e \in Threads : call'[e] = IF e = d THEN to ELSE call[e]
  BY <1>1, <1>3, <1>4, OneCall
<1>6. /\ UnderWay' = UnderWay /\ d \in UnderWay /\ Counted'
      /\ Closing' = IF to \in {"close", "zero", "closefd"} THEN Closing \cup {d} ELSE Closing \ {d}
  BY <1>1, <1>2, <1>3, <1>4, GoesOn
<1>7. IOTypes'
  BY <1>1, <1>2, <1>3, <1>4, OneCall, IOAssumption DEF IOTypes, Fds
<1>8. ASSUME ~ raced' PROVE Alone' /\ Sockets' /\ Controls' /\ Cardinality(Lost') <= failed'
  <2>1. ~ raced /\ Alone /\ Sockets /\ Controls /\ Cardinality(Lost) <= failed
    BY <1>2, <1>8 DEF IOInv, Orderly
  <2>2. UnderWay = {d} /\ Closing = {} /\ Closing' = {d} /\ socket # 0
    BY <1>2, <1>3, <1>6, <1>8, <2>1, ZenonT(60) DEF Alone, Closing, UnderWay, Sockets
  <2>3. ctl.pc \notin {"take", "close", "closefd", "bound", "accept"}
    BY <2>1, <2>2 DEF Alone, Controls
  <2>4. Alone'
    BY <1>2, <1>6, <2>1, <2>2, <2>3 DEF Alone
  <2>5. Sockets'
    BY <1>2, <1>3, <1>5, <2>1, <2>2 DEF Sockets
  <2>6. Controls'
    BY <1>2, <2>1, <2>3 DEF Controls
  <2>7. Lost' = Lost
    BY <1>2, <2>2 DEF Lost, Owned
  <2>8. QED
    BY <1>2, <2>1, <2>4, <2>5, <2>6, <2>7
<1>9. QED
  BY <1>6, <1>7, <1>8 DEF IOInv, Orderly

\* It closes the socket, and nobody else uses it ...
LEMMA CloseSocketKeeps ==
    ASSUME IOInv, NEW d \in Threads, CloseSocket(d)
    PROVE  IOInv'
<1>1. IOTypes /\ Counted
  BY DEF IOInv
<1>2. /\ call[d] = "close"
      /\ files' = [files EXCEPT ![socket] = NULL] /\ peer' \in {NULL, peer}
      /\ UNCHANGED <<handle, refs, socket_fd, ctl, running, failed, socket, raced>>
  BY DEF CloseSocket, close, io_vars
<1>3. PICK to \in {"zero"} : Goes(d, to)
  BY <1>2 DEF CloseSocket
<1>4. to \in CallType /\ to # "idle"
  BY DEF CallType
<1>5. \A e \in Threads : call'[e] = IF e = d THEN to ELSE call[e]
  BY <1>1, <1>3, <1>4, OneCall
<1>6. /\ UnderWay' = UnderWay /\ d \in UnderWay /\ Counted'
      /\ Closing' = IF to \in {"close", "zero", "closefd"} THEN Closing \cup {d} ELSE Closing \ {d}
  BY <1>1, <1>2, <1>3, <1>4, GoesOn
<1>7. IOTypes'
  BY <1>1, <1>2, <1>3, <1>4, OneCall, IOAssumption DEF IOTypes, Fds
<1>8. ASSUME ~ raced' PROVE Alone' /\ Sockets' /\ Controls' /\ Cardinality(Lost') <= failed'
  <2>1. ~ raced /\ Alone /\ Sockets /\ Controls /\ Cardinality(Lost) <= failed
    BY <1>2, <1>8 DEF IOInv, Orderly
  <2>2. d \in Closing /\ UnderWay = {d} /\ Closing = {d}
    BY <1>2, <2>1 DEF Alone, Closing, UnderWay
  <2>3. \A e \in Threads : e # d => call[e] = "idle" /\ call'[e] = "idle"
    BY <1>5, <2>2 DEF UnderWay
  <2>4. /\ socket # 0 /\ files[socket] = "data" /\ files[socket_fd] = "listen" /\ files[0] = "other"
        /\ 0 \in Fds /\ socket_fd \in Fds /\ socket \in Fds
    <3>1. \A e \in Threads : call[e] # "zero"
      BY <1>2, <2>3
    <3>2. QED
      BY <1>1, <1>2, <2>1, <3>1, IOAssumption DEF Sockets, IOTypes, Fds
  <2>5. \A n \in Fds : files'[n] = IF n = socket THEN NULL ELSE files[n]
    BY <1>1, <1>2 DEF IOTypes
  <2>6. ctl.pc \notin {"take", "close", "closefd", "bound", "accept"}
    BY <2>1, <2>2, <2>4 DEF Alone, Controls
  <2>7. Alone'
    BY <1>2, <1>3, <1>6, <2>1, <2>2, <2>6 DEF Alone
  <2>8. Sockets'
    <3>1. files'[socket] = NULL /\ files'[socket_fd] = "listen" /\ files'[0] = "other"
      BY <2>4, <2>5
    <3>2. call'[d] = "zero"
      BY <1>3, <1>5
    <3>3. QED
      BY <1>2, <2>3, <2>4, <3>1, <3>2 DEF Sockets
  <2>9. Controls'
    BY <1>2, <2>1, <2>6 DEF Controls
  <2>10. Lost' \in SUBSET Lost
    BY <1>2, <2>4, <2>5, IOAssumption DEF Lost, Owned
  <2>11. QED
    BY <1>1, <1>2, <2>1, <2>7, <2>8, <2>9, <2>10, LostFds, SmallerLost, FailedNat
<1>9. QED
  BY <1>6, <1>7, <1>8 DEF IOInv, Orderly

\* ... forgets it ...
LEMMA ForgetSocketKeeps ==
    ASSUME IOInv, NEW d \in Threads, ForgetSocket(d)
    PROVE  IOInv'
<1>1. IOTypes /\ Counted
  BY DEF IOInv
<1>2. /\ call[d] = "zero"
      /\ socket' = 0
      /\ UNCHANGED <<handle, refs, socket_fd, ctl, running, failed, files, peer, raced>>
  BY DEF ForgetSocket, io_vars
<1>3. PICK to \in {"closefd"} : Goes(d, to)
  BY <1>2 DEF ForgetSocket
<1>4. to \in CallType /\ to # "idle"
  BY DEF CallType
<1>5. \A e \in Threads : call'[e] = IF e = d THEN to ELSE call[e]
  BY <1>1, <1>3, <1>4, OneCall
<1>6. /\ UnderWay' = UnderWay /\ d \in UnderWay /\ Counted'
      /\ Closing' = IF to \in {"close", "zero", "closefd"} THEN Closing \cup {d} ELSE Closing \ {d}
  BY <1>1, <1>2, <1>3, <1>4, GoesOn
<1>7. IOTypes'
  BY <1>1, <1>2, <1>3, <1>4, OneCall, IOAssumption DEF IOTypes, Fds
<1>8. ASSUME ~ raced' PROVE Alone' /\ Sockets' /\ Controls' /\ Cardinality(Lost') <= failed'
  <2>1. ~ raced /\ Alone /\ Sockets /\ Controls /\ Cardinality(Lost) <= failed
    BY <1>2, <1>8 DEF IOInv, Orderly
  <2>2. d \in Closing /\ UnderWay = {d} /\ Closing = {d}
    BY <1>2, <2>1 DEF Alone, Closing, UnderWay
  <2>3. \A e \in Threads : e # d => call[e] = "idle" /\ call'[e] = "idle"
    BY <1>5, <2>2 DEF UnderWay
  <2>4. socket # 0 /\ files[socket] = NULL /\ files[socket_fd] = "listen" /\ files[0] = "other"
    BY <1>2, <2>1 DEF Sockets
  <2>5. ctl.pc \notin {"take", "close", "closefd", "bound", "accept"}
    BY <2>1, <2>2, <2>4 DEF Alone, Controls
  <2>6. Alone'
    BY <1>2, <1>3, <1>6, <2>1, <2>2, <2>5 DEF Alone
  <2>7. Sockets'
    <3>1. call'[d] = "closefd"
      BY <1>3, <1>5
    <3>2. QED
      BY <1>2, <2>3, <2>4, <3>1 DEF Sockets
  <2>8. Controls'
    BY <1>2, <2>1, <2>5 DEF Controls
  <2>9. Lost' \in SUBSET Lost
    BY <1>2, <1>3, <1>6, <2>4, <2>5, IOAssumption DEF Lost, Owned
  <2>10. QED
    BY <1>1, <1>2, <2>1, <2>6, <2>7, <2>8, <2>9, LostFds, SmallerLost, FailedNat
<1>9. QED
  BY <1>6, <1>7, <1>8 DEF IOInv, Orderly

\* ... and closes the descriptor that listens, which is not the one a new prepare
\* has begun to listen with.
LEMMA CloseSocketFdKeeps ==
    ASSUME IOInv, NEW d \in Threads, CloseSocketFd(d)
    PROVE  IOInv'
<1>1. IOTypes /\ Counted
  BY DEF IOInv
<1>2. /\ call[d] = "closefd"
      /\ \/ socket_fd > 0 /\ files' = [files EXCEPT ![socket_fd] = NULL] /\ peer' \in {NULL, peer}
         \/ ~ (socket_fd > 0) /\ UNCHANGED <<files, peer>>
      /\ UNCHANGED <<handle, refs, socket_fd, ctl, running, failed, socket, raced>>
  BY DEF CloseSocketFd, close, io_vars
<1>3. PICK to \in {"out"} : Goes(d, to)
  BY <1>2 DEF CloseSocketFd
<1>4. to \in CallType /\ to # "idle"
  BY DEF CallType
<1>5. \A e \in Threads : call'[e] = IF e = d THEN to ELSE call[e]
  BY <1>1, <1>3, <1>4, OneCall
<1>6. /\ UnderWay' = UnderWay /\ d \in UnderWay /\ Counted'
      /\ Closing' = IF to \in {"close", "zero", "closefd"} THEN Closing \cup {d} ELSE Closing \ {d}
  BY <1>1, <1>2, <1>3, <1>4, GoesOn
<1>7. IOTypes'
  BY <1>1, <1>2, <1>3, <1>4, OneCall, IOAssumption DEF IOTypes, Fds
<1>8. ASSUME ~ raced' PROVE Alone' /\ Sockets' /\ Controls' /\ Cardinality(Lost') <= failed'
  <2>1. ~ raced /\ Alone /\ Sockets /\ Controls /\ Cardinality(Lost) <= failed
    BY <1>2, <1>8 DEF IOInv, Orderly
  <2>2. d \in Closing /\ UnderWay = {d} /\ Closing = {d}
    BY <1>2, <2>1 DEF Alone, Closing, UnderWay
  <2>3. \A e \in Threads : e # d => call[e] = "idle" /\ call'[e] = "idle"
    BY <1>5, <2>2 DEF UnderWay
  <2>4. /\ socket = 0 /\ files[socket_fd] = "listen" /\ files[0] = "other"
        /\ 0 \in Fds /\ socket_fd \in Fds
    BY <1>1, <1>2, <2>1, IOAssumption DEF Sockets, IOTypes, Fds
  <2>5. socket_fd > 0
    BY <2>4 DEF Fds
  <2>6. \A n \in Fds : files'[n] = IF n = socket_fd THEN NULL ELSE files[n]
    BY <1>1, <1>2, <2>5 DEF IOTypes
  <2>7. ctl.pc \notin {"take", "close", "closefd", "accept"} /\ Closing' = {}
    BY <1>3, <1>6, <2>1, <2>2 DEF Alone, Controls
  <2>8. Alone'
    BY <1>2, <1>6, <2>1, <2>2, <2>7 DEF Alone
  <2>9. Sockets'
    <3>1. files'[0] = "other"
      BY <2>4, <2>5, <2>6
    <3>2. call'[d] = "out"
      BY <1>3, <1>5
    <3>3. QED
      BY <1>2, <2>3, <2>4, <3>1, <3>2 DEF Sockets
  <2>10. Controls'
    <3>1. ctl.pc = "bound" => files'[ctl.fd] = "listen"
      <4>1. ctl.fd \in Fds
        BY <1>1 DEF IOTypes, CtlType
      <4>2. QED
        BY <2>1, <2>2, <2>6, <4>1 DEF Controls
    <3>2. QED
      BY <1>2, <2>1, <2>4, <2>7, <3>1 DEF Controls
  <2>11. Lost' \in SUBSET Lost
    BY <1>2, <2>4, <2>6, <2>7, IOAssumption DEF Lost, Owned
  <2>12. QED
    BY <1>1, <1>2, <2>1, <2>8, <2>9, <2>10, <2>11, LostFds, SmallerLost, FailedNat
<1>9. QED
  BY <1>6, <1>7, <1>8 DEF IOInv, Orderly

\* A data call counts itself; it races with whoever is about to close.
LEMMA BeginKeeps ==
    ASSUME IOInv, NEW d \in Threads, Begin(d)
    PROVE  IOInv'
<1>1. IOTypes /\ Counted
  BY DEF IOInv
<1>2. /\ handle = "open" /\ call[d] = "idle" /\ refs' = refs + 1 /\ Goes(d, "test")
      /\ UNCHANGED <<handle, socket, socket_fd, files, ctl, peer, running, failed>>
  BY DEF Begin
<1>3. /\ raced' \in BOOLEAN
      /\ ~ raced' => /\ ~ raced /\ Closing = {} /\ ctl.op # "close"
                     /\ ctl.pc \notin {"take", "close", "closefd"}
  BY <1>1 DEF Begin, IOTypes
<1>4. \A e \in Threads : call'[e] = IF e = d THEN "test" ELSE call[e]
  BY <1>1, <1>2, OneCall DEF CallType
<1>5. IOTypes'
  BY <1>1, <1>2, <1>3, OneCall DEF IOTypes, CallType
<1>6. UnderWay' = UnderWay \cup {d} /\ d \notin UnderWay /\ Closing' = Closing
  BY <1>2, <1>4 DEF UnderWay, Closing
<1>7. Cardinality(UnderWay \cup {d}) = Cardinality(UnderWay) + 1
  BY <1>6, UnderWayFinite, FS_AddElement
<1>8. Counted'
  BY <1>1, <1>2, <1>6, <1>7, UnderWayFinite DEF Counted
<1>9. ASSUME ~ raced' PROVE Alone' /\ Sockets' /\ Controls' /\ Cardinality(Lost') <= failed'
  <2>1. ~ raced /\ Alone /\ Sockets /\ Controls /\ Cardinality(Lost) <= failed
    BY <1>3, <1>9 DEF IOInv, Orderly
  <2>2. Alone'
    BY <1>2, <1>3, <1>6, <1>9, <2>1 DEF Alone
  <2>3. Sockets'
    BY <1>2, <1>4, <2>1 DEF Sockets
  <2>4. Controls'
    BY <1>2, <1>6, <2>1 DEF Controls
  <2>5. Lost' = Lost
    BY <1>2, <1>6 DEF Lost, Owned
  <2>6. QED
    BY <1>2, <2>1, <2>2, <2>3, <2>4, <2>5
<1>10. QED
  BY <1>5, <1>8, <1>9 DEF IOInv, Orderly

\* A data call returns its reference, which is never the last: the handle has one.
LEMMA ReleaseKeeps ==
    ASSUME IOInv, NEW d \in Threads, media_release_cb(d)
    PROVE  IOInv'
<1>1. IOTypes /\ Counted
  BY DEF IOInv
<1>2. /\ call[d] = "out" /\ refs' = refs - 1 /\ Goes(d, "idle")
      /\ handle' = (IF refs = 1 THEN "freed" ELSE handle)
      /\ UNCHANGED <<socket, socket_fd, files, ctl, peer, running, failed, raced>>
  BY DEF media_release_cb
<1>3. \A e \in Threads : call'[e] = IF e = d THEN "idle" ELSE call[e]
  BY <1>1, <1>2, OneCall DEF CallType
<1>4. UnderWay' = UnderWay \ {d} /\ d \in UnderWay /\ Closing' = Closing
  BY <1>2, <1>3 DEF UnderWay, Closing
<1>5. Cardinality(UnderWay \ {d}) = Cardinality(UnderWay) - 1 /\ Cardinality(UnderWay) >= 1
  <2>1. Cardinality(UnderWay \ {d}) = Cardinality(UnderWay) - 1
    BY <1>4, UnderWayFinite, FS_RemoveElement
  <2>2. Cardinality(UnderWay) # 0
    BY <1>4, NoneUnderWay
  <2>3. QED
    BY <2>1, <2>2, UnderWayFinite
<1>6. handle # "none" /\ handle' = handle
  BY <1>1, <1>2, <1>4, <1>5, UnderWayFinite DEF Counted
<1>7. IOTypes'
  BY <1>1, <1>2, <1>6, OneCall DEF IOTypes, CallType
<1>8. Counted'
  BY <1>1, <1>2, <1>4, <1>5, <1>6, UnderWayFinite DEF Counted
<1>9. ASSUME ~ raced' PROVE Alone' /\ Sockets' /\ Controls' /\ Cardinality(Lost') <= failed'
  <2>1. ~ raced /\ Alone /\ Sockets /\ Controls /\ Cardinality(Lost) <= failed
    BY <1>2, <1>9 DEF IOInv, Orderly
  <2>2. Closing = {}
    BY <1>2, <1>4, <2>1 DEF Alone, Closing
  <2>3. Alone'
    BY <1>2, <1>4, <1>6, <2>1, <2>2 DEF Alone
  <2>4. Sockets'
    BY <1>2, <1>3, <2>1 DEF Sockets
  <2>5. Controls'
    BY <1>2, <1>4, <2>1 DEF Controls
  <2>6. Lost' = Lost
    BY <1>2, <1>4 DEF Lost, Owned
  <2>7. QED
    BY <1>2, <2>1, <2>3, <2>4, <2>5, <2>6
<1>10. QED
  BY <1>7, <1>8, <1>9 DEF IOInv, Orderly

-----------------------------------------------------------------------------
(* The invariant                                                           *)

\* An unused handle is in order.
LEMMA InitHolds == Init => IOInv
<1>1. SUFFICES ASSUME Init PROVE IOInv
  OBVIOUS
<1>2. IOTypes
  BY <1>1, IOAssumption DEF Init, IOTypes, CtlType, CallType, Idle, Fds
<1>3. UnderWay = {} /\ Closing = {}
  BY <1>1 DEF Init, UnderWay, Closing
<1>4. Counted
  BY <1>1, <1>3, FS_EmptySet DEF Init, Counted, Idle
<1>5. Alone /\ Sockets /\ Controls
  BY <1>1, <1>3, IOAssumption DEF Init, Alone, Sockets, Controls, Idle, Fds
<1>6. Cardinality(Lost) <= failed
  <2>1. Lost = {}
    BY <1>1, IOAssumption DEF Init, Lost, Fds
  <2>2. QED
    BY <1>1, <2>1, FS_EmptySet DEF Init
<1>7. QED
  BY <1>2, <1>4, <1>5, <1>6 DEF IOInv, Orderly

\* Steps of a picture touch nothing of a handle in buffer mode.
LEMMA PictureKeeps == IOInv /\ UNCHANGED data_vars => IOInv'
BY DEF IOInv, IOTypes, Counted, Orderly, Alone, Sockets, Controls, Lost, Owned, UnderWay, Closing,
       data_vars, io_vars

\* What the controlling thread does.
LEMMA ControlKeeps == IOInv /\ Control => IOInv'
BY TestRefsKeeps, TakeSocketKeeps, CloseTakenKeeps, CloseListeningKeeps, SocketClosedKeeps,
   AnsweredKeeps, PreparedKeeps, AcceptedKeeps DEF Control

\* What a data call does.
LEMMA DataKeeps ==
    ASSUME IOInv, NEW d \in Threads, media_process_data(d)
    PROVE  IOInv'
BY BeginKeeps, TestSocketKeeps, TransferKeeps, TransferFailsKeeps, CloseSocketKeeps,
   ForgetSocketKeeps, CloseSocketFdKeeps, ReleaseKeeps DEF media_process_data

\* The invariant is inductive.
LEMMA InvariantKept == IOInv /\ [Next]_vars => IOInv'
<1> SUFFICES ASSUME IOInv, [Next]_vars PROVE IOInv'
  OBVIOUS
<1>1. CASE media_open \/ Ask \/ (\E op \in {"stop", "close_socket"} : Stop(op)) \/ media_close
  BY <1>1, OpenKeeps, AskKeeps, StopKeeps, CloseBeginsKeeps
<1>2. CASE \E ok \in BOOLEAN : media_bind_socket(ok)
  BY <1>2, BindKeeps
<1>3. CASE Control
  BY <1>3, ControlKeeps
<1>4. CASE Connects \/ Closes
  BY <1>4, PeerKeeps
<1>5. CASE \E d \in Threads : media_process_data(d)
  BY <1>5, DataKeeps
<1>6. CASE \/ \E ok \in BOOLEAN : StartPicture(ok)
           \/ SetCookie \/ Return \/ (\E e \in {"failed", "completed"} : Reports(e)) \/ DaemonEnds \/ Listener
  <2>1. UNCHANGED data_vars
    BY <1>6 DEF StartPicture, SetCookie, Return, Reports, DaemonEnds, Listener,
                media_recorder_take_picture_cb, Post, ListenerEnds
  <2>2. QED
    BY <2>1, PictureKeeps
<1>7. CASE UNCHANGED vars
  <2>1. UNCHANGED data_vars
    BY <1>7 DEF vars
  <2>2. QED
    BY <2>1, PictureKeeps
<1>8. QED
  BY <1>1, <1>2, <1>3, <1>4, <1>5, <1>6, <1>7 DEF Next

\* Everything an execution reaches is in order.
LEMMA Invariant == Spec => []IOInv
BY InitHolds, InvariantKept, PTL DEF Spec

-----------------------------------------------------------------------------
(* What follows from it                                                    *)

\* The fields keep their types: refs counts the data calls under way and the
\* handle, never less than nothing (media_proxy_once, media_release_cb).
THEOREM IOTypesKept == Spec => []IOTypeOK
<1>1. IOInv => IOTypeOK
  <2> SUFFICES ASSUME IOInv PROVE IOTypeOK
    OBVIOUS
  <2>1. refs \in 0 .. Cardinality(Threads) + 1
    BY UnderWayFinite DEF IOInv, Counted
  <2>2. QED
    BY <2>1 DEF IOInv, IOTypes, IOTypeOK, CtlType, CallType
<1>2. QED
  BY <1>1, Invariant, PTL

\* Who is about to use or close a descriptor finds the one it means: the data
\* calls, media_close_socket and media_prepare, in every interleaving without
\* one of the races.
THEOREM OwnedWhenUsed == Spec => []DescriptorsOwned
<1>1. IOInv => DescriptorsOwned
  <2> SUFFICES ASSUME IOInv, ~ raced PROVE DescriptorsOwned
    BY DEF DescriptorsOwned
  <2>1. Counted /\ Alone /\ Sockets /\ Controls
    BY DEF IOInv, Orderly
  <2>2. ASSUME NEW d \in Threads, call[d] \in {"io", "close"}
        PROVE  handle = "open" /\ files[socket] = "data"
    <3>1. d \in UnderWay
      BY <2>2 DEF UnderWay
    <3>2. handle = "open"
      BY <2>1, <3>1 DEF IOInv, IOTypes, Counted, Alone
    <3>3. \A e \in Threads : call[e] # "zero"
      BY <2>1, <2>2, <3>1 DEF Alone, Closing
    <3>4. QED
      BY <2>1, <2>2, <3>2, <3>3 DEF Sockets
  <2>3. \A d \in Threads : call[d] = "closefd" => files[socket_fd] = "listen"
    BY <2>1 DEF Sockets
  <2>4. /\ ctl.pc = "close" => files[ctl.fd] = "data"
        /\ ctl.pc \in {"take", "close", "closefd", "accept"} => files[socket_fd] = "listen"
    BY <2>1 DEF Controls, Sockets
  <2>5. QED
    BY <2>2, <2>3, <2>4 DEF DescriptorsOwned
<1>2. QED
  BY <1>1, Invariant, PTL

\* Of the descriptors that listen or carry data at most one is lost for each
\* prepare that failed, whoever closes the connection first: media_prepare,
\* media_close_socket and the end of a data call close the others.
THEOREM LostIsCounted == Spec => []LostCounted
<1>1. IOInv => LostCounted
  <2> SUFFICES ASSUME IOInv, ~ raced PROVE LostCounted
    BY DEF LostCounted
  <2>1. IOTypes /\ Counted /\ Alone /\ Cardinality(Lost) <= failed
    BY DEF IOInv, Orderly
  <2>2. Closing # {} => UnderWay # {}
    BY DEF Closing, UnderWay
  <2>3. socket # 0 \/ Closing # {} \/ ctl.pc # "idle" => handle = "open"
    BY <2>1, <2>2 DEF IOTypes, Counted, Alone
  <2>4. Owned \subseteq Held
    BY <2>1, <2>3 DEF Owned, Held, IOTypes, CtlType
  <2>5. {n \in Fds : files[n] \in {"listen", "data"}} \ Held \in SUBSET Lost
    BY <2>4 DEF Lost
  <2>6. QED
    BY <2>1, <2>5, LostFds, SmallerLost, FailedNat DEF LostCounted
<1>2. QED
  BY <1>1, Invariant, PTL
=============================================================================
