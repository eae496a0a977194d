------------------------- MODULE PolicyProxy_proofs -------------------------
(***************************************************************************)
(* Criteria keep their values and subscriptions their subscribers, for     *)
(* every number of clients, connection entries and criteria; and the       *)
(* reference count of a synchronous handle, for every length of the        *)
(* notification socket and whatever may fail.                              *)
(***************************************************************************)
EXTENDS MediaPolicy, MediaProxy, SequenceTheorems, TLAPS

-----------------------------------------------------------------------------
(* 1. The policy server (MediaPolicy)                                      *)

(***************************************************************************)
(* What the operations of media_server.c do to an entry of the connection  *)
(* table, field by field; the proofs below cite these facts in place of    *)
(* the definitions.                                                        *)
(***************************************************************************)

\* A table that was just created.
LEMMA ZeroConnFields ==
    ASSUME NEW H
    PROVE  ZeroConn \in ConnType(H) /\ ZeroConn.tran_fd = NULL /\ ~ Open(ZeroConn.notify_fd)
BY FdAssumption DEF ZeroConn, ConnType, Open

\* Accepting a client leaves the event socket as it was.
LEMMA ConnInitFields ==
    ASSUME NEW H, NEW conn \in ConnType(H), NEW c \in Clients
    PROVE  LET new == media_server_conn_init(conn, c)
           IN  /\ new \in ConnType(H) /\ new.tran_fd = c
               /\ new.notify_fd = conn.notify_fd /\ new.data = NULL
BY DEF media_server_conn_init, ConnType

LEMMA ConnCloseFields ==
    ASSUME NEW H, NEW conn \in ConnType(H)
    PROVE  LET new == media_server_conn_close(conn)
           IN  /\ new \in ConnType(H) /\ new.tran_fd = CLOSED
               /\ new.notify_fd = conn.notify_fd /\ new.data = conn.data
BY DEF media_server_conn_close, ConnType

LEMMA CreateNotifyFields ==
    ASSUME NEW H, NEW conn \in ConnType(H), NEW c \in Clients, NEW ok \in BOOLEAN
    PROVE  LET new == media_server_create_notify(conn, c, ok)
           IN  /\ new \in ConnType(H) /\ new.tran_fd = conn.tran_fd /\ new.data = conn.data
               /\ ok => new.notify_fd = c
               /\ ~ ok => new.notify_fd = NULL
BY DEF media_server_create_notify, ConnType

\* The two sockets are given up apart from each other: the client's stays.
LEMMA FinalizeFields ==
    ASSUME NEW H, NEW conn \in ConnType(H)
    PROVE  LET new == media_server_finalize(conn)
           IN  /\ new \in ConnType(H) /\ new.tran_fd = conn.tran_fd
               /\ new.notify_fd = NULL
               /\ Open(conn.notify_fd) => new.data = NULL
               /\ ~ Open(conn.notify_fd) => new = conn
BY FdAssumption DEF media_server_finalize, ConnType, Open

LEMMA SetDataFields ==
    ASSUME NEW H, NEW conn \in ConnType(H), NEW d \in H \cup {NULL}
    PROVE  LET new == media_server_set_data(conn, d)
           IN  /\ new \in ConnType(H) /\ new.data = d
               /\ new.tran_fd = conn.tran_fd /\ new.notify_fd = conn.notify_fd
BY DEF media_server_set_data, ConnType

\* An entry for a new client has nobody at its end; one that was closed
\* has no event socket either, so the events of its last client are over.
LEMMA AcceptEntryFree ==
    ASSUME NEW H, NEW table \in [Cookies -> ConnType(H)], NEW k \in AcceptEntry(table)
    PROVE  /\ k \in Cookies /\ ~ Open(table[k].tran_fd)
           /\ table[k].tran_fd = NULL \/ ~ Open(table[k].notify_fd)
BY FdAssumption DEF AcceptEntry, Available, Open

\* A parcel reaches the client at the other end of the event socket, or nobody.
LEMMA NotifyReaches ==
    ASSUME NEW conn, NEW c, conn.notify_fd = c
    PROVE  media_server_notify(conn) \subseteq {c}
BY DEF media_server_notify

-----------------------------------------------------------------------------

(***************************************************************************)
(* Types.  PolicyTypeOK is not inductive: while the daemon is between the  *)
(* two halves of pfw_save_criterion_cb the slot holds a key with the value *)
(* of another one, and what makes it whole again is that the daemon has    *)
(* the mutex and a value for that key in its hand.                         *)
(***************************************************************************)

SlotKept ==
    /\ mutex = "daemon" <=> saving # NULL
    /\ saving # NULL => slot.key \in Persistent
    /\ slot \in [key : Persistent \cup {NULL}, value : Nat]

Shapes == value \in [Criteria -> Nat] /\ store \in [Persistent -> Nat]

\* A client that is connected is the one at the other end of its entry.
EntryOwn ==
    \A c \in Clients : life[c] \notin {"new", "gone"} =>
        entry[c] \in Cookies /\ conns[entry[c]].tran_fd = c

ClientTypes ==
    /\ conns \in [Cookies -> ConnType(Handles)] /\ entry \in [Clients -> Cookies \cup {NULL}]
    /\ life \in [Clients -> {"new", "connected", "answered", "listening", "subscribed", "unsubscribed",
                             "lost", "gone"}]
    /\ subs \in [Handles -> Subscription \cup {NULL}]

SaveTypes ==
    /\ \A k \in Criteria : value[k] \in Values(k)
    /\ mutex \in {NULL, "daemon"} /\ queued \in BOOLEAN
    /\ work \in Slots /\ (mutex = NULL => slot \in Slots)
    /\ saving # NULL => mutex = "daemon" /\ saving \in Values(slot.key)
    /\ \A k \in Persistent : store[k] \in Values(k)

ClientInv == ClientTypes /\ EntryOwn
SaveInv == SaveTypes /\ SlotKept /\ Shapes

LEMMA SplitTypes == PolicyTypeOK <=> ClientTypes /\ SaveTypes
BY DEF PolicyTypeOK, ClientTypes, SaveTypes

\* The parts of the state a client's connection and the saving do not share.
server_client == <<conns, life, entry, subs>>
server_save == <<value, mutex, slot, saving, queued, work, store>>

-----------------------------------------------------------------------------
(* The clients' side                                                       *)

LEMMA ClientInit == Init => ClientInv
<1> SUFFICES ASSUME Init PROVE ClientInv
  OBVIOUS
<1>1. ZeroConn \in ConnType(Handles)
  BY ZeroConnFields
<1>2. QED
  BY <1>1 DEF Init, ClientInv, ClientTypes, EntryOwn

\* A table in which one entry has changed.
LEMMA OneEntry ==
    ASSUME conns \in [Cookies -> ConnType(Handles)],
           NEW k \in Cookies, NEW new \in ConnType(Handles), conns' = [conns EXCEPT ![k] = new]
    PROVE  /\ conns' \in [Cookies -> ConnType(Handles)] /\ conns'[k] = new
           /\ \A j \in Cookies \ {k} : conns'[j] = conns[j]
OBVIOUS

LEMMA LeaveStep ==
    ASSUME ClientInv, NEW c \in Clients, NEW next \in {"new", "gone"},
           life[c] \notin {"new", "gone"}, Leave(c, next)
    PROVE  ClientInv'
<1> USE DEF ClientInv, ClientTypes, EntryOwn
<1> DEFINE new == media_server_conn_close(conns[entry[c]])
<1>1. entry[c] \in Cookies /\ conns[entry[c]] \in ConnType(Handles) /\ conns[entry[c]].tran_fd = c
  OBVIOUS
<1>2. new \in ConnType(Handles)
  BY <1>1, ConnCloseFields
<1> HIDE DEF new
<1>3. /\ conns' = [conns EXCEPT ![entry[c]] = new]
      /\ entry' = [entry EXCEPT ![c] = NULL] /\ life' = [life EXCEPT ![c] = next]
      /\ UNCHANGED subs
  BY DEF Leave, new
<1>4. ClientTypes'
  BY <1>1, <1>2, <1>3
<1>5. EntryOwn'
  BY <1>1, <1>3
<1>6. QED
  BY <1>4, <1>5

\* A client's entry changes, but not who is at the end of its socket.
LEMMA EntryStep ==
    ASSUME ClientInv, NEW c \in Clients, NEW new \in ConnType(Handles),
           NEW next \in {"connected", "answered", "listening", "subscribed", "unsubscribed", "lost"},
           life[c] \notin {"new", "gone"}, new.tran_fd = conns[entry[c]].tran_fd,
           conns' = [conns EXCEPT ![entry[c]] = new], life' = [life EXCEPT ![c] = next],
           UNCHANGED entry, subs' \in [Handles -> Subscription \cup {NULL}]
    PROVE  ClientInv'
<1> USE DEF ClientInv, ClientTypes, EntryOwn
<1>1. entry[c] \in Cookies
  OBVIOUS
<1>2. ClientTypes'
  BY <1>1
<1>3. EntryOwn'
  BY <1>1
<1>4. QED
  BY <1>2, <1>3

LEMMA ClientStep ==
    ASSUME ClientInv, [Next]_vars
    PROVE  ClientInv'
<1> USE DEF ClientInv, ClientTypes, EntryOwn
<1>1. ASSUME NEW c \in Clients, Accept(c) PROVE ClientInv'
  <2>1. PICK k \in AcceptEntry(conns) :
           /\ conns' = [conns EXCEPT ![k] = media_server_conn_init(conns[k], c)]
           /\ entry' = [entry EXCEPT ![c] = k]
    BY <1>1 DEF Accept
  <2>2. k \in Cookies /\ ~ Open(conns[k].tran_fd)
    BY AcceptEntryFree
  <2>3. media_server_conn_init(conns[k], c) \in ConnType(Handles)
        /\ media_server_conn_init(conns[k], c).tran_fd = c
    BY <2>2, ConnInitFields
  <2>4. QED
    BY <1>1, <2>1, <2>2, <2>3 DEF Accept, Open
<1>2. ASSUME NEW c \in Clients, NEW ok \in BOOLEAN, CreateNotify(c, ok) PROVE ClientInv'
  <2> DEFINE new == media_server_create_notify(conns[entry[c]], c, ok)
  <2>1. entry[c] \in Cookies /\ conns[entry[c]] \in ConnType(Handles) /\ life[c] \notin {"new", "gone"}
    BY <1>2 DEF CreateNotify
  <2>2. new \in ConnType(Handles) /\ new.tran_fd = conns[entry[c]].tran_fd
    BY <2>1, CreateNotifyFields
  <2>3. conns' = [conns EXCEPT ![entry[c]] = new] /\ life' = [life EXCEPT ![c] = "listening"]
        /\ UNCHANGED <<entry, subs>>
    BY <1>2 DEF CreateNotify
  <2> HIDE DEF new
  <2>4. QED
    BY <2>1, <2>2, <2>3, EntryStep
<1>3. ASSUME NEW c \in Clients, Subscribe(c) PROVE ClientInv'
  <2>1. PICK h \in pfw_subscribe :
           /\ subs' = [subs EXCEPT ![h] = [name |-> Wanted[c], cookie |-> entry[c], owner |-> c]]
           /\ conns' = [conns EXCEPT ![entry[c]] = media_server_set_data(conns[entry[c]], h)]
    BY <1>3 DEF Subscribe
  <2> DEFINE new == media_server_set_data(conns[entry[c]], h)
  <2>2. h \in Handles
    BY DEF pfw_subscribe
  <2>3. entry[c] \in Cookies /\ conns[entry[c]] \in ConnType(Handles) /\ life[c] \notin {"new", "gone"}
    BY <1>3 DEF Subscribe
  <2>4. new \in ConnType(Handles) /\ new.tran_fd = conns[entry[c]].tran_fd
    BY <2>2, <2>3, SetDataFields
  <2>5. subs' \in [Handles -> Subscription \cup {NULL}]
    BY <2>1, <2>2, <2>3, PolicyAssumption DEF Subscription
  <2>6. life' = [life EXCEPT ![c] = "subscribed"] /\ UNCHANGED entry
    BY <1>3 DEF Subscribe
  <2> HIDE DEF new
  <2>7. conns' = [conns EXCEPT ![entry[c]] = new]
    BY <2>1 DEF new
  <2>8. QED
    BY <2>3, <2>4, <2>5, <2>6, <2>7, EntryStep
<1>4. ASSUME NEW c \in Clients, SubscribeFails(c) PROVE ClientInv'
  <2>1. life[c] \notin {"new", "gone"}
    BY <1>4 DEF SubscribeFails
  <2>2. CASE Leave(c, "gone")
    BY <2>1, <2>2, LeaveStep
  <2>3. CASE life' = [life EXCEPT ![c] = "lost"] /\ UNCHANGED <<conns, entry, subs>>
    BY <2>1, <2>3
  <2>4. QED
    BY <1>4, <2>2, <2>3 DEF SubscribeFails
<1>5. ASSUME NEW c \in Clients, Unsubscribe(c) PROVE ClientInv'
  <2> DEFINE new == media_server_finalize(conns[entry[c]])
  <2>1. entry[c] \in Cookies /\ conns[entry[c]] \in ConnType(Handles) /\ life[c] \notin {"new", "gone"}
    BY <1>5 DEF Unsubscribe
  <2>2. new \in ConnType(Handles) /\ new.tran_fd = conns[entry[c]].tran_fd
    BY <2>1, FinalizeFields
  <2>3. subs' \in [Handles -> Subscription \cup {NULL}]
    BY <1>5 DEF Unsubscribe
  <2>4. conns' = [conns EXCEPT ![entry[c]] = new] /\ life' = [life EXCEPT ![c] = "unsubscribed"]
        /\ UNCHANGED entry
    BY <1>5 DEF Unsubscribe
  <2> HIDE DEF new
  <2>5. QED
    BY <2>1, <2>2, <2>3, <2>4, EntryStep
<1>6. ASSUME NEW c \in Clients, NEW cmd \in Reads \cup Writes, NEW k \in Criteria, Change(c, cmd, k)
      PROVE  ClientInv'
  BY <1>6 DEF Change
<1>7. ASSUME NEW c \in Clients, Disconnect(c) PROVE ClientInv'
  BY <1>7, LeaveStep DEF Disconnect
<1>8. ASSUME NEW c \in Clients, Dies(c) PROVE ClientInv'
  BY <1>8, LeaveStep DEF Dies, Request
<1>9. CASE Save
  BY <1>9 DEF Save, pfw_save_criterion_cb, ReadSlot, property_set_int32, client_vars
<1>10. CASE Restart
  <2>1. ZeroConn \in ConnType(Handles)
    BY ZeroConnFields
  <2>2. QED
    BY <1>10, <2>1 DEF Restart
<1>11. CASE UNCHANGED vars
  BY <1>11 DEF vars, client_vars
<1>12. QED
  BY <1>1, <1>2, <1>3, <1>4, <1>5, <1>6, <1>7, <1>8, <1>9, <1>10, <1>11 DEF Next

-----------------------------------------------------------------------------
(* The saving of criteria                                                  *)

\* Every value of a criterion is a number.
LEMMA ValuesAreNat == \A k \in Criteria : Values(k) \subseteq Nat /\ 0 \in Values(k) /\ NULL \notin Values(k)
BY PolicyAssumption, NullAssumption DEF Values

\* A slot that is not empty is a criterion with one of its values.
LEMMA SlotIsWhole ==
    /\ Unset \in Slots
    /\ \A s \in Slots : s # Unset => s.key \in Persistent /\ s.value \in Values(s.key)
    /\ \A k \in Persistent : \A v \in Values(k) : [key |-> k, value |-> v] \in Slots
<1>1. Unset \in Slots
  BY DEF Slots
<1>2. ASSUME NEW s \in Slots, s # Unset PROVE s.key \in Persistent /\ s.value \in Values(s.key)
  <2>1. PICK k \in Persistent : s \in [key : {k}, value : Values(k)]
    BY <1>2 DEF Slots
  <2>2. QED
    BY <2>1
<1>3. ASSUME NEW k \in Persistent, NEW v \in Values(k) PROVE [key |-> k, value |-> v] \in Slots
  BY DEF Slots
<1>4. QED
  BY <1>1, <1>2, <1>3

\* What starts afresh from the store has the values of the store.
LEMMA FreshSave ==
    ASSUME \A k \in Persistent : store[k] \in Values(k), store \in [Persistent -> Nat],
           NEW v, v = [k \in Criteria |-> pfw_load_criterion_cb(k)]
    PROVE  v \in [Criteria -> Nat] /\ \A k \in Criteria : v[k] \in Values(k)
BY ValuesAreNat DEF pfw_load_criterion_cb

LEMMA SaveInit == Init => SaveInv
<1> SUFFICES ASSUME Init PROVE SaveInv
  OBVIOUS
<1>1. store \in [Persistent -> Nat] /\ \A k \in Persistent : store[k] \in Values(k)
  BY ValuesAreNat, PolicyAssumption DEF Init
<1>2. value \in [Criteria -> Nat] /\ \A k \in Criteria : value[k] \in Values(k)
  BY <1>1, FreshSave DEF Init
<1>3. mutex = NULL /\ slot = Unset /\ saving = NULL /\ queued = FALSE /\ work = Unset
  BY DEF Init
<1>4. QED
  BY <1>1, <1>2, <1>3, SlotIsWhole, PolicyNullAssumption DEF SaveInv, SaveTypes, SlotKept, Shapes, Unset

LEMMA SaveStep ==
    ASSUME SaveInv, [Next]_vars
    PROVE  SaveInv'
<1> USE DEF SaveInv, SaveTypes, SlotKept, Shapes
<1>1. ASSUME UNCHANGED server_save PROVE SaveInv'
  BY <1>1 DEF server_save, Slots
<1>2. ASSUME NEW c \in Clients, NEW cmd \in Reads \cup Writes, NEW k \in Criteria, Change(c, cmd, k)
      PROVE  SaveInv'
  <2>1. CASE UNCHANGED <<value, mutex, slot, saving>>
    BY <1>1, <1>2, <2>1 DEF Change, server_save
  <2>2. CASE \E v \in Changed(cmd, k) : Set(k, v)
    <3>1. PICK v \in Changed(cmd, k) : Set(k, v)
      BY <2>2
    <3>2. v \in Values(k) /\ v \in Nat /\ v # NULL
      BY ValuesAreNat DEF Changed
    <3>3. /\ value' = [value EXCEPT ![k] = v] /\ saving = NULL
          /\ UNCHANGED <<queued, work, store>>
      BY <1>2, <3>1 DEF Set, Change, Request
    <3>4. CASE k \in Persistent /\ v # value[k]
      <4>1. mutex = NULL /\ mutex' = "daemon" /\ slot' = [slot EXCEPT !.key = k] /\ saving' = v
        BY <3>1, <3>4 DEF Set
      <4>2. slot' \in [key : Persistent \cup {NULL}, value : Nat] /\ slot'.key = k
        BY <3>4, <4>1
      <4>3. QED
        BY <3>2, <3>3, <3>4, <4>1, <4>2, PolicyNullAssumption
    <3>5. CASE ~ (k \in Persistent /\ v # value[k])
      <4>1. UNCHANGED <<mutex, slot, saving>>
        BY <3>1, <3>5 DEF Set
      <4>2. QED
        BY <3>2, <3>3, <4>1
    <3>6. QED
      BY <3>4, <3>5
  <2>3. QED
    BY <1>2, <2>1, <2>2 DEF Change, media_policy_handler
<1>3. CASE pfw_save_criterion_cb
  <2>1. /\ saving # NULL /\ slot' = [slot EXCEPT !.value = saving] /\ saving' = NULL /\ mutex' = NULL
        /\ queued' = TRUE /\ UNCHANGED <<value, work, store>>
    BY <1>3 DEF pfw_save_criterion_cb, work_queue
  <2>2. slot.key \in Persistent /\ saving \in Values(slot.key) /\ saving \in Nat
    BY <2>1, ValuesAreNat, PolicyAssumption
  <2>3. slot' = [key |-> slot.key, value |-> saving]
    BY <2>1
  <2>4. slot' \in Slots /\ slot' \in [key : Persistent \cup {NULL}, value : Nat]
    BY <2>2, <2>3, SlotIsWhole
  <2>5. QED
    BY <2>1, <2>4, PolicyNullAssumption
<1>4. CASE ReadSlot
  BY <1>4 DEF ReadSlot
<1>5. CASE property_set_int32
  <2>1. work.key \in Persistent /\ work.value \in Values(work.key) /\ work.value \in Nat
    BY <1>5, SlotIsWhole, ValuesAreNat, PolicyAssumption DEF property_set_int32
  <2>2. QED
    BY <1>5, <2>1, SlotIsWhole DEF property_set_int32
<1>6. CASE Restart
  <2>1. value' \in [Criteria -> Nat] /\ \A k \in Criteria : value'[k] \in Values(k)
    BY <1>6, FreshSave DEF Restart
  <2>2. QED
    BY <1>6, <2>1, SlotIsWhole, PolicyNullAssumption DEF Restart, Unset
<1>7. CASE \E c \in Clients :
          \/ Accept(c) \/ (\E ok \in BOOLEAN : CreateNotify(c, ok))
          \/ Subscribe(c) \/ SubscribeFails(c) \/ Unsubscribe(c) \/ Disconnect(c) \/ Dies(c)
  BY <1>1, <1>7
  DEF Accept, CreateNotify, Subscribe, SubscribeFails, Unsubscribe, Disconnect, Dies, Leave,
      server_save, save_vars
<1>8. CASE UNCHANGED vars
  BY <1>1, <1>8 DEF vars, save_vars, server_save
<1>9. QED
  BY <1>2, <1>3, <1>4, <1>5, <1>6, <1>7, <1>8 DEF Next, Save

LEMMA TypeInvariant == Spec => [](ClientInv /\ SaveInv)
<1>1. Init => ClientInv /\ SaveInv
  BY ClientInit, SaveInit
<1>2. ClientInv /\ SaveInv /\ [Next]_vars => (ClientInv /\ SaveInv)'
  BY ClientStep, SaveStep
<1>3. QED
  BY <1>1, <1>2, PTL DEF Spec

(* Whatever clients ask for and whenever the worker of the work queue      *)
(* reads the slot, the store holds under every key a value of that         *)
(* criterion, and no other variable leaves its type.                       *)
THEOREM PolicyTypeCorrect == Spec => []PolicyTypeOK
<1>1. ClientInv /\ SaveInv => PolicyTypeOK
  BY SplitTypes DEF ClientInv, SaveInv
<1>2. QED
  BY <1>1, TypeInvariant, PTL
-----------------------------------------------------------------------------
(***************************************************************************)
(* Subscriptions.  SubscriptionsKept speaks of a subscription and of the   *)
(* connection its cookie names.  The entry of that connection may be used  *)
(* again, so the invariant says what keeps it from being used too early:   *)
(* its event socket is open as long as the subscription exists, even when  *)
(* its client has gone, and an entry is given out only without one.        *)
(***************************************************************************)

\* An entry that was never used has no event socket.
Unused == \A k \in Cookies : conns[k].tran_fd = NULL => ~ Open(conns[k].notify_fd)

\* The entry a client gets has none, and later its own.
NotifyOwn ==
    \A c \in Clients :
        /\ life[c] \in {"connected", "answered"} => ~ Open(conns[entry[c]].notify_fd)
        /\ life[c] \in {"listening", "subscribed"} => conns[entry[c]].notify_fd = c

\* A subscription keeps the event socket of its entry with its owner, and is the
\* data of its owner's connection as long as there is one.
SubsOwn ==
    \A h \in Handles : subs[h] # NULL =>
        /\ conns[subs[h].cookie].notify_fd = subs[h].owner
        /\ life[subs[h].owner] \in {"subscribed", "gone"}
        /\ life[subs[h].owner] = "subscribed" =>
              entry[subs[h].owner] = subs[h].cookie /\ conns[subs[h].cookie].data = h

Subscribed ==
    \A c \in Clients : life[c] = "subscribed" =>
        /\ conns[entry[c]].data \in Handles
        /\ subs[conns[entry[c]].data] = [name |-> Wanted[c], cookie |-> entry[c], owner |-> c]

SubsInv == Unused /\ NotifyOwn /\ SubsOwn /\ Subscribed

\* Nobody else is at the end of a client's connection.
LEMMA EntryAlone ==
    ASSUME ClientInv, NEW c \in Clients, life[c] \notin {"new", "gone"}
    PROVE  /\ entry[c] \in Cookies /\ conns[entry[c]] \in ConnType(Handles)
           /\ conns[entry[c]].tran_fd = c
           /\ \A d \in Clients \ {c} : life[d] \notin {"new", "gone"} => entry[d] # entry[c]
BY DEF ClientInv, ClientTypes, EntryOwn

\* The type of what a subscription says.
LEMMA SubscriptionFields ==
    ASSUME ClientInv, NEW h \in Handles, subs[h] # NULL
    PROVE  subs[h].cookie \in Cookies /\ subs[h].owner \in Clients
BY DEF ClientInv, ClientTypes, Subscription

LEMMA SubsInit == Init => SubsInv
BY FdAssumption DEF Init, SubsInv, Unused, NotifyOwn, SubsOwn, Subscribed, ZeroConn, Open

\* Fields the invariant reads.
LEMMA SubsUnchanged == ASSUME SubsInv, UNCHANGED <<conns, life, entry, subs>> PROVE SubsInv'
BY DEF SubsInv, Unused, NotifyOwn, SubsOwn, Subscribed

\* An entry whose client leaves keeps its event socket.
LEMMA SubsLeave ==
    ASSUME ClientInv, SubsInv, NEW c \in Clients, NEW next \in {"new", "gone"},
           life[c] \notin {"new", "gone"}, life[c] = "subscribed" => next = "gone",
           Leave(c, next)
    PROVE  SubsInv'
<1> DEFINE new == media_server_conn_close(conns[entry[c]])
<1>1. /\ entry[c] \in Cookies /\ conns[entry[c]] \in ConnType(Handles)
      /\ conns[entry[c]].tran_fd = c
      /\ \A d \in Clients \ {c} : life[d] \notin {"new", "gone"} => entry[d] # entry[c]
  BY EntryAlone
<1>2. /\ new.tran_fd = CLOSED /\ new.notify_fd = conns[entry[c]].notify_fd
      /\ new.data = conns[entry[c]].data
  BY <1>1, ConnCloseFields
<1> HIDE DEF new
<1>3. /\ conns'[entry[c]] = new /\ \A j \in Cookies \ {entry[c]} : conns'[j] = conns[j]
      /\ life'[c] = next /\ \A d \in Clients \ {c} : life'[d] = life[d] /\ entry'[d] = entry[d]
      /\ UNCHANGED subs
  BY <1>1 DEF Leave, new, ClientInv, ClientTypes
<1>4. Unused'
  BY <1>2, <1>3, FdAssumption DEF SubsInv, Unused
<1>5. \A d \in Clients : life'[d] \notin {"new", "gone"} =>
          d # c /\ life'[d] = life[d] /\ entry'[d] = entry[d] /\ entry[d] \in Cookies
          /\ entry[d] # entry[c] /\ conns'[entry[d]] = conns[entry[d]]
  BY <1>1, <1>3 DEF ClientInv, EntryOwn
<1>6. NotifyOwn'
  BY <1>5 DEF SubsInv, NotifyOwn
<1>7. SubsOwn'
  BY <1>1, <1>2, <1>3, SubscriptionFields DEF SubsInv, SubsOwn
<1>8. Subscribed'
  BY <1>3, <1>5 DEF SubsInv, Subscribed
<1>9. QED
  BY <1>4, <1>6, <1>7, <1>8 DEF SubsInv

\* A new connection: nobody's subscription names its entry.
LEMMA SubsAccept ==
    ASSUME ClientInv, SubsInv, NEW c \in Clients, Accept(c)
    PROVE  SubsInv'
<1>1. PICK k \in AcceptEntry(conns) :
         /\ conns' = [conns EXCEPT ![k] = media_server_conn_init(conns[k], c)]
         /\ entry' = [entry EXCEPT ![c] = k]
  BY DEF Accept
<1>2. /\ k \in Cookies /\ ~ Open(conns[k].tran_fd) /\ conns[k] \in ConnType(Handles)
      /\ ~ Open(conns[k].notify_fd)
  BY AcceptEntryFree DEF ClientInv, ClientTypes, SubsInv, Unused
<1>3. /\ conns'[k].tran_fd = c /\ conns'[k].notify_fd = conns[k].notify_fd
      /\ \A j \in Cookies \ {k} : conns'[j] = conns[j]
  BY <1>1, <1>2, ConnInitFields DEF ClientInv, ClientTypes
<1>4. /\ life[c] = "new" /\ life'[c] = "connected" /\ entry'[c] = k
      /\ \A d \in Clients \ {c} : life'[d] = life[d] /\ entry'[d] = entry[d]
      /\ UNCHANGED subs
  BY <1>1 DEF Accept, ClientInv, ClientTypes
<1>5. \A d \in Clients \ {c} : life[d] \notin {"new", "gone"} =>
          entry[d] \in Cookies /\ entry[d] # k /\ conns'[entry[d]] = conns[entry[d]]
  BY <1>2, <1>3 DEF ClientInv, EntryOwn, Open
<1>6. Unused'
  BY <1>2, <1>3, FdAssumption DEF SubsInv, Unused
<1>7. NotifyOwn'
  BY <1>2, <1>3, <1>4, <1>5 DEF SubsInv, NotifyOwn
<1>8. \A h \in Handles : subs[h] # NULL => subs[h].cookie # k /\ subs[h].owner # c
  BY <1>2, <1>4, SubscriptionFields DEF SubsInv, SubsOwn, Open
<1>9. SubsOwn'
  BY <1>3, <1>4, <1>8, SubscriptionFields DEF SubsInv, SubsOwn
<1>10. Subscribed'
  BY <1>4, <1>5 DEF SubsInv, Subscribed
<1>11. QED
  BY <1>6, <1>7, <1>9, <1>10 DEF SubsInv

LEMMA SubsCreateNotify ==
    ASSUME ClientInv, SubsInv, "notify" \notin Faults,
           NEW c \in Clients, NEW ok \in BOOLEAN, CreateNotify(c, ok)
    PROVE  SubsInv'
<1> DEFINE new == media_server_create_notify(conns[entry[c]], c, ok)
<1>1. ok /\ life[c] = "connected"
  BY DEF CreateNotify
<1>2. /\ entry[c] \in Cookies /\ conns[entry[c]] \in ConnType(Handles)
      /\ conns[entry[c]].tran_fd = c /\ ~ Open(conns[entry[c]].notify_fd)
      /\ \A d \in Clients \ {c} : life[d] \notin {"new", "gone"} => entry[d] # entry[c]
  BY <1>1, EntryAlone DEF SubsInv, NotifyOwn
<1>3. new.tran_fd = c /\ new.notify_fd = c
  <2>1. new.tran_fd = conns[entry[c]].tran_fd /\ (ok => new.notify_fd = c)
    BY <1>2, CreateNotifyFields
  <2>2. QED
    BY <1>1, <1>2, <2>1, Zenon
<1> HIDE DEF new
<1>4. /\ conns'[entry[c]] = new /\ \A j \in Cookies \ {entry[c]} : conns'[j] = conns[j]
      /\ life'[c] = "listening" /\ \A d \in Clients \ {c} : life'[d] = life[d]
      /\ UNCHANGED <<subs, entry>>
  BY <1>2 DEF CreateNotify, new, ClientInv, ClientTypes
<1>5. \A d \in Clients \ {c} : life[d] \notin {"new", "gone"} => conns'[entry[d]] = conns[entry[d]]
  BY <1>2, <1>4 DEF ClientInv, EntryOwn
<1>6. Unused'
  BY <1>3, <1>4, FdAssumption DEF SubsInv, Unused
<1>7. NotifyOwn'
  BY <1>3, <1>4, <1>5 DEF SubsInv, NotifyOwn
<1>8. \A h \in Handles : subs[h] # NULL => subs[h].cookie # entry[c] /\ subs[h].owner # c
  BY <1>1, <1>2, SubscriptionFields DEF SubsInv, SubsOwn, Open
<1>9. SubsOwn'
  BY <1>4, <1>8, SubscriptionFields DEF SubsInv, SubsOwn
<1>10. Subscribed'
  BY <1>4, <1>5 DEF SubsInv, Subscribed
<1>11. QED
  BY <1>6, <1>7, <1>9, <1>10 DEF SubsInv

LEMMA SubsSubscribe ==
    ASSUME ClientInv, SubsInv, NEW c \in Clients, Subscribe(c)
    PROVE  SubsInv'
<1> DEFINE made == [name |-> Wanted[c], cookie |-> entry[c], owner |-> c]
<1>1. PICK h \in pfw_subscribe :
         /\ subs' = [subs EXCEPT ![h] = made]
         /\ conns' = [conns EXCEPT ![entry[c]] = media_server_set_data(conns[entry[c]], h)]
  BY DEF Subscribe
<1> DEFINE new == media_server_set_data(conns[entry[c]], h)
<1>2. h \in Handles /\ subs[h] = NULL
  BY DEF pfw_subscribe
<1>3. /\ life[c] = "listening" /\ entry[c] \in Cookies /\ conns[entry[c]] \in ConnType(Handles)
      /\ conns[entry[c]].tran_fd = c /\ conns[entry[c]].notify_fd = c
      /\ \A d \in Clients \ {c} : life[d] \notin {"new", "gone"} => entry[d] # entry[c]
  BY EntryAlone DEF Subscribe, SubsInv, NotifyOwn
<1>4. new.tran_fd = c /\ new.notify_fd = c /\ new.data = h
  BY <1>2, <1>3, SetDataFields
<1> HIDE DEF new
<1>5. /\ conns'[entry[c]] = new /\ \A j \in Cookies \ {entry[c]} : conns'[j] = conns[j]
      /\ life'[c] = "subscribed" /\ \A d \in Clients \ {c} : life'[d] = life[d]
      /\ UNCHANGED entry
      /\ subs'[h] = made /\ \A g \in Handles \ {h} : subs'[g] = subs[g]
  BY <1>1, <1>2, <1>3 DEF Subscribe, new, ClientInv, ClientTypes
<1>6. \A d \in Clients \ {c} : life[d] \notin {"new", "gone"} => conns'[entry[d]] = conns[entry[d]]
  BY <1>3, <1>5 DEF ClientInv, EntryOwn
<1>7. Unused'
  BY <1>4, <1>5, FdAssumption DEF SubsInv, Unused
<1>8. NotifyOwn'
  BY <1>4, <1>5, <1>6 DEF SubsInv, NotifyOwn
<1>9. \A g \in Handles : subs[g] # NULL => subs[g].owner # c /\ subs[g].cookie # entry[c]
  BY <1>3, SubscriptionFields DEF SubsInv, SubsOwn
<1>10. SubsOwn'
  BY <1>4, <1>5, <1>9, SubscriptionFields DEF SubsInv, SubsOwn
<1>11. Subscribed'
  <2>1. ASSUME NEW d \in Clients \ {c}, life'[d] = "subscribed"
        PROVE  /\ conns'[entry'[d]].data \in Handles
               /\ subs'[conns'[entry'[d]].data] = [name |-> Wanted[d], cookie |-> entry[d], owner |-> d]
    <3>1. life[d] = "subscribed" /\ conns'[entry'[d]] = conns[entry[d]]
      BY <1>5, <1>6, <2>1
    <3>2. /\ conns[entry[d]].data \in Handles
          /\ subs[conns[entry[d]].data] = [name |-> Wanted[d], cookie |-> entry[d], owner |-> d]
      BY <3>1 DEF SubsInv, Subscribed
    <3>3. subs[conns[entry[d]].data] # NULL
      <4>1. entry[d] \in Cookies /\ Wanted[d] \in Criteria
        BY <3>1, EntryAlone, PolicyAssumption
      <4>2. [name |-> Wanted[d], cookie |-> entry[d], owner |-> d] \in Subscription
        BY <4>1 DEF Subscription
      <4>3. QED
        BY <3>2, <4>2, PolicyNullAssumption
    <3>4. conns[entry[d]].data # h
      BY <1>2, <3>3
    <3>5. QED
      BY <1>5, <3>1, <3>2, <3>4
  <2>2. QED
    BY <1>2, <1>4, <1>5, <2>1 DEF Subscribed
<1>12. QED
  BY <1>7, <1>8, <1>10, <1>11 DEF SubsInv

\* Only one subscription names the connection that is finalized.
LEMMA SubsUnsubscribe ==
    ASSUME ClientInv, SubsInv, NEW c \in Clients, Unsubscribe(c)
    PROVE  SubsInv'
<1> DEFINE new == media_server_finalize(conns[entry[c]])
           h == conns[entry[c]].data
<1>1. /\ life[c] = "subscribed" /\ entry[c] \in Cookies /\ conns[entry[c]] \in ConnType(Handles)
      /\ conns[entry[c]].tran_fd = c
      /\ \A d \in Clients \ {c} : life[d] \notin {"new", "gone"} => entry[d] # entry[c]
  BY EntryAlone DEF Unsubscribe
<1>2. h \in Handles /\ subs[h].cookie = entry[c] /\ subs[h].owner = c
  <2>1. h \in Handles /\ subs[h] = [name |-> Wanted[c], cookie |-> entry[c], owner |-> c]
    BY <1>1 DEF SubsInv, Subscribed
  <2> HIDE DEF h
  <2>2. QED
    BY <2>1
<1>3. new.tran_fd = c /\ new.notify_fd = NULL
  BY <1>1, FinalizeFields
<1> HIDE DEF new, h
<1>4. /\ conns'[entry[c]] = new /\ \A j \in Cookies \ {entry[c]} : conns'[j] = conns[j]
      /\ life'[c] = "unsubscribed" /\ \A d \in Clients \ {c} : life'[d] = life[d]
      /\ UNCHANGED entry
      /\ subs'[h] = NULL /\ \A g \in Handles \ {h} : subs'[g] = subs[g]
  BY <1>1, <1>2 DEF Unsubscribe, new, h, ClientInv, ClientTypes, media_server_get_data
<1>5. \A d \in Clients \ {c} : life[d] \notin {"new", "gone"} => conns'[entry[d]] = conns[entry[d]]
  BY <1>1, <1>4 DEF ClientInv, EntryOwn
<1>6. Unused'
  BY <1>3, <1>4, FdAssumption DEF SubsInv, Unused, Open
<1>7. NotifyOwn'
  BY <1>4, <1>5 DEF SubsInv, NotifyOwn
<1>8. \A g \in Handles : subs[g] # NULL /\ g # h => subs[g].owner # c /\ subs[g].cookie # entry[c]
  <2> SUFFICES ASSUME NEW g \in Handles, subs[g] # NULL, g # h
               PROVE  subs[g].owner # c /\ subs[g].cookie # entry[c]
    OBVIOUS
  <2>1. subs[g].owner # c
    BY <1>1 DEF SubsInv, SubsOwn, h
  <2>2. conns[entry[c]].notify_fd = c
    BY <1>1 DEF SubsInv, NotifyOwn
  <2>3. QED
    BY <2>1, <2>2 DEF SubsInv, SubsOwn
<1>9. SubsOwn'
  BY <1>4, <1>8, SubscriptionFields DEF SubsInv, SubsOwn
<1>10. Subscribed'
  <2>1. ASSUME NEW d \in Clients, life'[d] = "subscribed"
        PROVE  /\ conns'[entry'[d]].data \in Handles
               /\ subs'[conns'[entry'[d]].data] = [name |-> Wanted[d], cookie |-> entry[d], owner |-> d]
    <3>1. d # c /\ life[d] = "subscribed" /\ conns'[entry'[d]] = conns[entry[d]]
      BY <1>4, <1>5, <2>1
    <3>2. /\ conns[entry[d]].data \in Handles
          /\ subs[conns[entry[d]].data] = [name |-> Wanted[d], cookie |-> entry[d], owner |-> d]
      BY <3>1 DEF SubsInv, Subscribed
    <3>3. conns[entry[d]].data # h
      BY <1>2, <3>1, <3>2
    <3>4. QED
      BY <1>4, <3>1, <3>2, <3>3
  <2>2. QED
    BY <1>4, <2>1 DEF Subscribed
<1>11. QED
  BY <1>6, <1>7, <1>9, <1>10 DEF SubsInv

\* A client that only goes on in its life, from what says nothing about its
\* subscription or its event socket to what says no more.
LEMMA SubsOn ==
    ASSUME ClientInv, SubsInv, NEW c \in Clients, NEW next \in {"answered", "lost"},
           life[c] \in {"connected", "listening"}, next = "answered" => life[c] = "connected",
           life' = [life EXCEPT ![c] = next], UNCHANGED <<conns, entry, subs>>
    PROVE  SubsInv'
<1>1. life'[c] = next /\ \A d \in Clients \ {c} : life'[d] = life[d]
  BY DEF ClientInv, ClientTypes
<1>2. \A h \in Handles : subs[h] # NULL => subs[h].owner # c
  BY DEF SubsInv, SubsOwn
<1>3. SubsOwn'
  BY <1>1, <1>2, SubscriptionFields DEF SubsInv, SubsOwn
<1>4. QED
  BY <1>1, <1>3 DEF SubsInv, Unused, NotifyOwn, Subscribed

LEMMA SubsStep ==
    ASSUME ClientInv, SubsInv, "notify" \notin Faults, [Next]_vars
    PROVE  SubsInv'
<1>1. ASSUME NEW c \in Clients, SubscribeFails(c) PROVE SubsInv'
  <2>1. life[c] = "listening"
    BY <1>1 DEF SubscribeFails
  <2>2. CASE Leave(c, "gone")
    BY <2>1, <2>2, SubsLeave
  <2>3. CASE life' = [life EXCEPT ![c] = "lost"] /\ UNCHANGED <<conns, entry, subs>>
    BY <2>1, <2>3, SubsOn
  <2>4. QED
    BY <1>1, <2>2, <2>3 DEF SubscribeFails
<1>2. ASSUME NEW c \in Clients, NEW cmd \in Reads \cup Writes, NEW k \in Criteria, Change(c, cmd, k)
      PROVE  SubsInv'
  BY <1>2, SubsOn DEF Change
<1>3. ASSUME NEW c \in Clients, Disconnect(c) PROVE SubsInv'
  BY <1>3, SubsLeave DEF Disconnect
<1>4. ASSUME NEW c \in Clients, Dies(c) PROVE SubsInv'
  BY <1>4, SubsLeave DEF Dies, Request
<1>5. CASE Save
  BY <1>5, SubsUnchanged DEF Save, pfw_save_criterion_cb, ReadSlot, property_set_int32, client_vars
<1>6. CASE Restart
  <2>1. /\ \A c \in Clients : life'[c] \in {"new", "gone"}
        /\ \A k \in Cookies : conns'[k] = ZeroConn
        /\ \A h \in Handles : subs'[h] = NULL
    BY <1>6 DEF Restart
  <2>2. QED
    BY <2>1, ZeroConnFields DEF SubsInv, Unused, NotifyOwn, SubsOwn, Subscribed
<1>7. CASE UNCHANGED vars
  BY <1>7, SubsUnchanged DEF vars, client_vars
<1>8. QED
  BY <1>1, <1>2, <1>3, <1>4, <1>5, <1>6, <1>7, SubsAccept, SubsCreateNotify, SubsSubscribe,
     SubsUnsubscribe DEF Next

(* Every client hears of the criterion it subscribed to and of no other,   *)
(* and its unsubscribe ends its own subscription, though entries of the    *)
(* connection table and the memory of subscriptions are used again.  The   *)
(* server must be able to connect back: the entry of a client it could not *)
(* connect to is given out while the subscription still names it.          *)
THEOREM SubscriptionsOwned == "notify" \notin Faults => (Spec => []SubscriptionsKept)
<1> SUFFICES ASSUME "notify" \notin Faults PROVE Spec => []SubscriptionsKept
  OBVIOUS
<1>1. Init => ClientInv /\ SubsInv
  BY ClientInit, SubsInit
<1>2. ClientInv /\ SubsInv /\ [Next]_vars => (ClientInv /\ SubsInv)'
  BY ClientStep, SubsStep
<1>3. ClientInv /\ SubsInv => SubscriptionsKept
  <2> SUFFICES ASSUME ClientInv, SubsInv PROVE SubscriptionsKept
    OBVIOUS
  <2>1. ASSUME NEW h \in Handles, subs[h] # NULL PROVE Hears(h) \subseteq {subs[h].owner}
    BY <2>1, NotifyReaches DEF SubsInv, SubsOwn, Hears
  <2>2. ASSUME NEW c \in Clients, life[c] = "subscribed"
        PROVE  LET h == media_server_get_data(conns[entry[c]])
               IN  h # NULL /\ subs[h] = [name |-> Wanted[c], cookie |-> entry[c], owner |-> c]
    BY <2>2, PolicyNullAssumption DEF SubsInv, Subscribed, media_server_get_data
  <2>3. QED
    BY <2>1, <2>2 DEF SubscriptionsKept, SubsInv, SubsOwn
<1>4. QED
  BY <1>1, <1>2, <1>3, PTL DEF Spec

-----------------------------------------------------------------------------
(* 2. The handle of a synchronous client (MediaProxy)                      *)

\* The listener thread is started by media_proxy_set_event_cb.
NoThreadYet == api \in {"start", "connected"} => thread = "none"

\* media_proxy_unref has released the handle exactly when it took the last
\* reference.
FreedWithLast == freed = IF api # "start" /\ refs = 0 THEN 1 ELSE 0

IInv == TypeOK /\ NoThreadYet /\ RefsCounted /\ FreedWithLast

-----------------------------------------------------------------------------

LEMMA IInvInit == ProxyInit => IInv
<1> SUFFICES ASSUME ProxyInit PROVE IInv
  OBVIOUS
<1>1. data \in BOOLEAN /\ up \in BOOLEAN
  BY DEF ProxyInit
<1>2. QED
  BY <1>1, MaxSuggestionsAssumption
  DEF ProxyInit, IInv, TypeOK, ApiStates, ThreadStates, NoThreadYet, RefsCounted, FreedWithLast

\* What both of the client's threads and the server do to the queues.
LEMMA SendType ==
    ASSUME requests \in Seq({"create_notify", "request", "abandon"}),
           NEW msg \in {"create_notify", "request", "abandon"}, Send(msg)
    PROVE  requests' \in Seq({"create_notify", "request", "abandon"})
BY DEF Send

\* The steps of the thread that is inside the focus interface.
LEMMA CallerStep == IInv /\ Client => IInv'
<1> SUFFICES ASSUME IInv, Client PROVE IInv'
  OBVIOUS
<1> USE DEF IInv, TypeOK, NoThreadYet, RefsCounted, FreedWithLast, ApiStates, ThreadStates, server_vars
<1>1. CASE media_proxy_connect
  BY <1>1 DEF media_proxy_connect
<1>2. CASE media_proxy_set_event_cb
  BY <1>2, SendType DEF media_proxy_set_event_cb
<1>3. CASE ListenFails
  BY <1>3, SendType DEF ListenFails
<1>4. CASE SendRequest
  BY <1>4, SendType DEF SendRequest
<1>5. CASE ReceiveSuggestion
  BY <1>5, SendType DEF ReceiveSuggestion
<1>6. CASE ReceiveAbandoned
  BY <1>6 DEF ReceiveAbandoned
<1>7. CASE media_proxy_disconnect
  BY <1>7 DEF media_proxy_disconnect, media_proxy_unref
<1>8. QED
  BY <1>1, <1>2, <1>3, <1>4, <1>5, <1>6, <1>7 DEF Client

\* The steps of the listener thread.
LEMMA ListenerStep == IInv /\ (Listener \/ AcceptFails) => IInv'
<1> SUFFICES ASSUME IInv, Listener \/ AcceptFails PROVE IInv'
  OBVIOUS
<1> USE DEF IInv, TypeOK, NoThreadYet, RefsCounted, FreedWithLast, ApiStates, ThreadStates, server_vars
<1>1. CASE ListenAccept
  BY <1>1 DEF ListenAccept
<1>2. CASE ListenReceive
  BY <1>2, MaxSuggestionsAssumption DEF ListenReceive
<1>3. CASE ListenReturn
  BY <1>3 DEF ListenReturn
<1>4. CASE ListenExit
  BY <1>4 DEF ListenExit, media_proxy_unref
<1>5. CASE AcceptFails
  BY <1>5 DEF AcceptFails, media_proxy_unref
<1>6. QED
  BY <1>1, <1>2, <1>3, <1>4, <1>5 DEF Listener

\* The steps of the server leave the handle alone.
LEMMA ServerStep == IInv /\ (Server \/ ServerNotify \/ ServerEnds) => IInv'
<1> SUFFICES ASSUME IInv, Server \/ ServerNotify \/ ServerEnds PROVE IInv'
  OBVIOUS
<1> USE DEF IInv, TypeOK, NoThreadYet, RefsCounted, FreedWithLast
<1>1. ASSUME NEW ok \in BOOLEAN, ServerCreateNotify(ok) PROVE IInv'
  BY <1>1 DEF ServerCreateNotify
<1>2. ASSUME NEW granted \in BOOLEAN, ServerRequest(granted) PROVE IInv'
  <2>1. data' \in BOOLEAN
    BY <1>2 DEF ServerRequest
  <2>2. answers' = Append(answers, MEDIA_FOCUS_PLAY) \/ answers' = Append(answers, EPERM)
    BY <1>2 DEF ServerRequest
  <2>3. answers' \in Seq({0, EPERM, EINVAL})
    BY <2>2, SMTT(60) DEF MEDIA_FOCUS_PLAY
  <2>4. requests' \in Seq({"create_notify", "request", "abandon"})
    BY <1>2 DEF ServerRequest
  <2>5. UNCHANGED <<api, caller, thread, refs, freed, notify, unread, up>>
    BY <1>2 DEF ServerRequest
  <2>6. QED
    BY <2>1, <2>3, <2>4, <2>5
<1>3. CASE ServerAbandon
  <2>1. data' \in BOOLEAN /\ notify' \in {"none", "open", "closed"}
    BY <1>3 DEF ServerAbandon
  <2>2. answers' = Append(answers, 0) \/ answers' = Append(answers, EINVAL)
    BY <1>3 DEF ServerAbandon
  <2>3. answers' \in Seq({0, EPERM, EINVAL})
    BY <2>2, SMTT(60)
  <2>4. requests' \in Seq({"create_notify", "request", "abandon"})
    BY <1>3 DEF ServerAbandon
  <2>5. UNCHANGED <<api, caller, thread, refs, freed, unread, up>>
    BY <1>3 DEF ServerAbandon
  <2>6. QED
    BY <2>1, <2>3, <2>4, <2>5
<1>4. CASE ServerNotify
  BY <1>4, MaxSuggestionsAssumption DEF ServerNotify
<1>5. CASE ServerEnds
  <2>1. data' \in BOOLEAN /\ up' \in BOOLEAN
    BY <1>5 DEF ServerEnds
  <2>2. QED
    BY <1>5, <2>1 DEF ServerEnds
<1>6. QED
  BY <1>1, <1>2, <1>3, <1>4, <1>5 DEF Server

LEMMA IInvNext == IInv /\ [ProxyNext]_proxy_vars => IInv'
<1> SUFFICES ASSUME IInv, [ProxyNext]_proxy_vars PROVE IInv'
  OBVIOUS
<1> USE DEF IInv, TypeOK, NoThreadYet, RefsCounted, FreedWithLast
<1>1. ASSUME NEW who \in {"app", "listener"}, media_focus_abandon(who) PROVE IInv'
  BY <1>1, SendType DEF media_focus_abandon, ApiStates, server_vars
<1>2. CASE UNCHANGED proxy_vars
  BY <1>2 DEF proxy_vars
<1>3. QED
  BY <1>1, <1>2, CallerStep, ListenerStep, ServerStep DEF ProxyNext

LEMMA Invariant == ProxySpec => []IInv
BY IInvInit, IInvNext, PTL DEF ProxySpec

-----------------------------------------------------------------------------

(* Every variable of the model of media_proxy.c keeps its type; the count  *)
(* is never negative and the handle is released at most once.              *)
THEOREM ProxyTypeCorrect == ProxySpec => []TypeOK
<1>1. IInv => TypeOK
  BY DEF IInv
<1>2. QED
  BY <1>1, Invariant, PTL

(* Every reference of media_proxy_unref has a holder, whichever steps      *)
(* fail: the focus interface, or the listener thread.                      *)
THEOREM ReferencesCounted == ProxySpec => []RefsCounted
<1>1. IInv => RefsCounted
  BY DEF IInv
<1>2. QED
  BY <1>1, Invariant, PTL

(* No thread uses the handle after media_proxy_unref has released it,      *)
(* though abandon may come from inside the listener's own callback and     *)
(* the daemon may end at any moment.                                       *)
THEOREM HandleNotFreedEarly == ProxySpec => []NoUseAfterFree
<1>1. IInv => NoUseAfterFree
  BY DEF IInv, TypeOK, ApiStates, ThreadStates, RefsCounted, FreedWithLast, NoUseAfterFree
<1>2. QED
  BY <1>1, Invariant, PTL
=============================================================================
