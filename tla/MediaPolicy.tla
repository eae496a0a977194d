---------------------------- MODULE MediaPolicy ----------------------------
(***************************************************************************)
(* server/media_policy.c: criteria, their subscribers and the delayed save *)
(* of those that persist, with the synchronous client of                   *)
(* client/media_policy.c.                                                  *)
(*                                                                         *)
(* The criteria belong to the parameter framework (pfw, external): it      *)
(* refuses values out of range, calls pfw_save_criterion_cb for a value    *)
(* that changed and media_policy_notify_cb for each of its subscribers.    *)
(* What its rules ask the graph for is PolicyCommand of MediaGraph.        *)
(*                                                                         *)
(* Two threads write and read priv->key and priv->value: the daemon, and   *)
(* the worker of the work queue, which saves them a second after the last  *)
(* change.  The store survives the daemon.                                 *)
(***************************************************************************)
EXTENDS ServerConn, FiniteSets

CONSTANTS Criteria,
          Persistent,   \* those whose name starts with MEDIA_PERSIST
          MaxValue,     \* the values of a criterion are 0 .. MaxValue[k]
          Wanted,       \* the criterion a client subscribes to
          Handles,      \* memory for subscriptions
          Faults

ASSUME PolicyAssumption ==
    /\ Persistent \subseteq Criteria /\ MaxValue \in [Criteria -> Nat] /\ Wanted \in [Clients -> Criteria]
    /\ Faults \subseteq {"notify",   \* the server cannot connect to a listener
                         "unknown",  \* a criterion to subscribe to does not exist
                         "restart"}  \* the daemon ends and starts again

\* What pfw_subscribe keeps of a subscriber.
Subscription == [name : Criteria, cookie : Cookies, owner : Clients]

ASSUME PolicyNullAssumption == NULL \notin Handles \cup Subscription \cup {"daemon"}

VARIABLES
    conns,  \* priv->conns of media_server.c
    life,   \* how far a client has come
    entry,  \* the entry of its connection
    value,  \* the criteria
    subs,   \* subscriptions of pfw; NULL is free memory
    mutex,  \* priv->mutex: who holds it
    slot,   \* priv->key and priv->value
    saving, \* the value the daemon has still to put into the slot
    queued, \* priv->work waits for its delay
    work,   \* the key and the value the worker has read
    store   \* the properties of kvdb

client_vars == <<conns, life, entry, subs>>
save_vars == <<mutex, slot, saving, queued, work>>
vars == <<client_vars, value, save_vars, store>>

Values(k) == 0 .. MaxValue[k]
Unset == [key |-> NULL, value |-> 0]

\* pfw_load_criterion_cb: what is in the store, when the criterion persists.
pfw_load_criterion_cb(k) == IF k \in Persistent THEN store[k] ELSE 0

\* media_policy_create, and the rest of the daemon's memory with it.
Init ==
    /\ store = [k \in Persistent |-> 0]
    /\ value = [k \in Criteria |-> pfw_load_criterion_cb(k)]
    /\ life = [c \in Clients |-> "new"] /\ entry = [c \in Clients |-> NULL]
    /\ conns = [k \in Cookies |-> ZeroConn] /\ subs = [h \in Handles |-> NULL]
    /\ mutex = NULL /\ slot = Unset /\ saving = NULL /\ queued = FALSE /\ work = Unset

-----------------------------------------------------------------------------
(* Connections.  The daemon serves one request after the other.            *)

Request(c) == saving = NULL /\ life[c] # "gone"

\* media_proxy connects, and media_policy_subscribe sends "ping".
Accept(c) ==
    /\ Request(c) /\ life[c] = "new"
    /\ \E k \in AcceptEntry(conns) :
          /\ conns' = [conns EXCEPT ![k] = media_server_conn_init(@, c)]
          /\ entry' = [entry EXCEPT ![c] = k]
    /\ life' = [life EXCEPT ![c] = "connected"]
    /\ UNCHANGED <<subs, value, save_vars, store>>

CreateNotify(c, ok) ==
    /\ Request(c) /\ life[c] = "connected"
    /\ ok \/ "notify" \in Faults
    /\ conns' = [conns EXCEPT ![entry[c]] = media_server_create_notify(@, c, ok)]
    /\ life' = [life EXCEPT ![c] = "listening"]
    /\ UNCHANGED <<entry, subs, value, save_vars, store>>

\* media_proxy disconnects a handle that was made for one request, and
\* media_policy_unsubscribe once the listener has seen the end of its events.
\* A client without a handle may connect again.
Leave(c, next) ==
    /\ conns' = [conns EXCEPT ![entry[c]] = media_server_conn_close(@)]
    /\ entry' = [entry EXCEPT ![c] = NULL]
    /\ life' = [life EXCEPT ![c] = next]
    /\ UNCHANGED <<subs, value, save_vars, store>>

Disconnect(c) ==
    /\ Request(c)
    /\ \/ life[c] \in {"connected", "answered"} /\ Leave(c, "new")
       \/ life[c] = "unsubscribed" /\ conns[entry[c]].notify_fd # c /\ Leave(c, "gone")

Dies(c) == Request(c) /\ life[c] # "new" /\ Leave(c, "gone")

-----------------------------------------------------------------------------
(* Subscriptions                                                           *)

\* pfw_subscribe allocates; memory that was freed is given out again.
pfw_subscribe ==
    LET free == {h \in Handles : subs[h] = NULL}
    IN  {h \in free : h = CHOOSE g \in free : TRUE}

\* "subscribe" and set_data with the handle.
Subscribe(c) ==
    /\ Request(c) /\ life[c] = "listening"
    /\ \E h \in pfw_subscribe :
          /\ subs' = [subs EXCEPT ![h] = [name |-> Wanted[c], cookie |-> entry[c], owner |-> c]]
          /\ conns' = [conns EXCEPT ![entry[c]] = media_server_set_data(@, h)]
    /\ life' = [life EXCEPT ![c] = "subscribed"]
    /\ UNCHANGED <<entry, value, save_vars, store>>

\* media_policy_subscribe gives the handle of the connection to
\* media_policy_unsubscribe in place of its own, which crashes or finds no
\* connection in it: nothing is released.
SubscribeFails(c) ==
    /\ Request(c) /\ life[c] = "listening" /\ "unknown" \in Faults
    /\ \/ /\ life' = [life EXCEPT ![c] = "lost"]
          /\ UNCHANGED <<conns, entry, subs, value, save_vars, store>>
       \/ Leave(c, "gone")

\* A mutant: the connection is finalized, the subscription stays.
FinalizeOnly(c) ==
    /\ Request(c) /\ life[c] = "subscribed"
    /\ conns' = [conns EXCEPT ![entry[c]] = media_server_finalize(@)]
    /\ life' = [life EXCEPT ![c] = "unsubscribed"]
    /\ UNCHANGED <<entry, subs, value, save_vars, store>>

\* "unsubscribe": pfw_unsubscribe of the data of the connection.
Unsubscribe(c) ==
    /\ Request(c) /\ life[c] = "subscribed"
    /\ subs' = [subs EXCEPT ![media_server_get_data(conns[entry[c]])] = NULL]
    /\ conns' = [conns EXCEPT ![entry[c]] = media_server_finalize(@)]
    /\ life' = [life EXCEPT ![c] = "unsubscribed"]
    /\ UNCHANGED <<entry, value, save_vars, store>>

\* media_policy_notify_cb: who hears of a change of criterion k.
Hears(h) == media_server_notify(conns[subs[h].cookie])

-----------------------------------------------------------------------------
(* Changes                                                                 *)

\* What pfw_setint, pfw_increase and pfw_decrease make of a criterion; none when
\* they refuse.
Changed(cmd, k) ==
    Values(k) \cap (CASE cmd = "set_int" -> Values(k)
                      [] cmd = "increase" -> {value[k] + 1}
                      [] cmd = "decrease" -> {value[k] - 1})

\* The first half of pfw_save_criterion_cb: the key, with the mutex held.  A
\* value that does not change, or does not persist, is not saved.
Set(k, v) ==
    /\ value' = [value EXCEPT ![k] = v]
    /\ IF k \in Persistent /\ v # value[k]
       THEN /\ mutex = NULL /\ mutex' = "daemon"
            /\ slot' = [slot EXCEPT !.key = k]
            /\ saving' = v
       ELSE UNCHANGED <<mutex, slot, saving>>

Reads == {"get_int", "get_range"}
Writes == {"set_int", "increase", "decrease"}

\* media_policy_handler for a criterion: a command that only reads, a name that
\* does not exist and a value out of range leave everything as it is.
media_policy_handler(cmd, k) ==
    \/ cmd \in Writes /\ \E v \in Changed(cmd, k) : Set(k, v)
    \/ UNCHANGED <<value, mutex, slot, saving>>

\* A request with a connection of its own.
Change(c, cmd, k) ==
    /\ Request(c) /\ life[c] = "connected"
    /\ media_policy_handler(cmd, k)
    /\ life' = [life EXCEPT ![c] = "answered"]
    /\ UNCHANGED <<conns, entry, subs, queued, work, store>>

\* A mutant: a worker that has begun is not queued again.
QueueUnlessBusy == queued' = (work = Unset)
\* Work that is queued already starts its delay again.
work_queue == queued' = TRUE

\* Its second half: the value, the unlock and work_queue in one step.
pfw_save_criterion_cb ==
    /\ saving # NULL
    /\ slot' = [slot EXCEPT !.value = saving]
    /\ saving' = NULL /\ mutex' = NULL
    /\ work_queue
    /\ UNCHANGED <<client_vars, value, work, store>>

\* A mutant: the slot is read without the mutex.
ReadUnlocked ==
    /\ queued /\ work = Unset
    /\ work' = slot /\ queued' = FALSE
    /\ UNCHANGED <<client_vars, value, mutex, slot, saving, store>>

\* pfw_save_criterion_work: the slot is read with the mutex held.
ReadSlot ==
    /\ queued /\ work = Unset /\ mutex = NULL
    /\ work' = slot /\ queued' = FALSE
    /\ UNCHANGED <<client_vars, value, mutex, slot, saving, store>>

property_set_int32 ==
    /\ work # Unset
    /\ store' = [store EXCEPT ![work.key] = work.value]
    /\ work' = Unset
    /\ UNCHANGED <<client_vars, value, mutex, slot, saving, queued>>

\* Everybody loses the connection, and criteria are what the store holds.
Restart ==
    /\ "restart" \in Faults
    /\ value' = [k \in Criteria |-> pfw_load_criterion_cb(k)]
    /\ life' = [c \in Clients |-> IF life[c] = "new" THEN "new" ELSE "gone"]
    /\ entry' = [c \in Clients |-> NULL]
    /\ conns' = [k \in Cookies |-> ZeroConn] /\ subs' = [h \in Handles |-> NULL]
    /\ mutex' = NULL /\ slot' = Unset /\ saving' = NULL /\ queued' = FALSE /\ work' = Unset
    /\ UNCHANGED store

-----------------------------------------------------------------------------

Save == pfw_save_criterion_cb \/ ReadSlot \/ property_set_int32

Next ==
    \/ \E c \in Clients :
          \/ Accept(c) \/ (\E ok \in BOOLEAN : CreateNotify(c, ok))
          \/ Subscribe(c) \/ SubscribeFails(c) \/ Unsubscribe(c)
          \/ (\E cmd \in Reads \cup Writes, k \in Criteria : Change(c, cmd, k))
          \/ Disconnect(c) \/ Dies(c)
    \/ Save
    \/ Restart

\* The daemon's thread leaves the callback, and the worker runs when the delay
\* is over; nobody has to ask for anything.
Spec == Init /\ [][Next]_vars /\ WF_vars(pfw_save_criterion_cb) /\ WF_vars(ReadSlot \/ property_set_int32)

-----------------------------------------------------------------------------
(* Properties                                                              *)

Slots == {Unset} \cup UNION {[key : {k}, value : Values(k)] : k \in Persistent}

(* Every variable has its type; in particular what the store holds under a *)
(* key is a value of that criterion, and so is what the worker is about to *)
(* write, though the slot is written in two steps while it may read it.    *)
PolicyTypeOK ==
    /\ conns \in [Cookies -> ConnType(Handles)] /\ entry \in [Clients -> Cookies \cup {NULL}]
    /\ life \in [Clients -> {"new", "connected", "answered", "listening", "subscribed", "unsubscribed",
                             "lost", "gone"}]
    /\ subs \in [Handles -> Subscription \cup {NULL}]
    /\ \A k \in Criteria : value[k] \in Values(k)
    /\ mutex \in {NULL, "daemon"} /\ queued \in BOOLEAN
    /\ work \in Slots /\ (mutex = NULL => slot \in Slots)
    /\ saving # NULL => mutex = "daemon" /\ saving \in Values(slot.key)
    /\ \A k \in Persistent : store[k] \in Values(k)

(* A subscription tells nobody but the client that made it, ends with its  *)
(* "unsubscribe" and with no other client's, and is found again by it,     *)
(* though connections and memory are used again.                           *)
SubscriptionsKept ==
    /\ \A h \in Handles : subs[h] # NULL =>
          /\ Hears(h) \subseteq {subs[h].owner}
          /\ life[subs[h].owner] \in {"subscribed", "gone"}
    /\ \A c \in Clients : life[c] = "subscribed" =>
          LET h == media_server_get_data(conns[entry[c]])
          IN  h # NULL /\ subs[h] = [name |-> Wanted[c], cookie |-> entry[c], owner |-> c]

(* A change of a persistent criterion reaches the store, unless another    *)
(* change or the end of the daemon comes before the delay is over.         *)
LastSaved ==
    \A k \in Persistent : \A v \in Values(k) :
        (slot = [key |-> k, value |-> v] /\ mutex = NULL)
            ~> (store[k] = v \/ slot # [key |-> k, value |-> v])
=============================================================================
