----------------------------- MODULE FocusStack -----------------------------
(***************************************************************************)
(* server/focus_stack.c: the stack of focus holders.                       *)
(*                                                                         *)
(* The C code keeps max_size nodes in an array (node_list) and threads the *)
(* occupied ones on a doubly linked list from stack top to stack bottom.   *)
(* A stack value here is the record                                        *)
(*   node_list : slot -> app_focus_id   (client_id = -1 in a free slot)    *)
(*   list      : the occupied slots, top first                             *)
(*   cur_size  : the C counter, kept apart from Len(list) as in the code   *)
(* Every operation of the C interface is an operator that returns the new  *)
(* stack, the focus_change_callback invocations it makes, in order, and    *)
(* the C return value.  An invocation the callback ignores because its     *)
(* callback_flag is not negative is left out (media_focus_stack_callback,  *)
(* step 1).                                                                *)
(***************************************************************************)
EXTENDS MediaDefs, Sequences, FiniteSetsExt

CONSTANT max_size  \* focus_stack_size of app_focus_stack_init

ASSUME MaxSizeAssumption == max_size \in Nat \ {0}

APP_FOCUS_STATE_STACK_TOP == 1
APP_FOCUS_STATE_STACK_QUIT == -1
APP_FOCUS_STATE_STACK_UNDER == -2

FocusState == {APP_FOCUS_STATE_STACK_TOP, APP_FOCUS_STATE_STACK_QUIT,
               APP_FOCUS_STATE_STACK_UNDER}

Slots == 0 .. max_size - 1

\* A node of node_list that no request occupies.
FreeNode == [client_id |-> -1, focus_level |-> 0, thread_id |-> NULL,
             focus_state |-> APP_FOCUS_STATE_STACK_QUIT, callback_argv |-> NULL]

app_focus_stack_init ==
    [node_list |-> [i \in Slots |-> FreeNode], list |-> <<>>, cur_size |-> 0]

app_focus_stack_is_full(s) == s.cur_size = max_size

app_focus_stack_is_empty(s) == s.cur_size = 0

\* The node at the head of the list; only read when the stack is not empty.
TopNode(s) == s.node_list[s.list[1]]

\* A mutant: the new element comes before the k-th one (list_add_tail).
InsertBefore(seq, k, x) ==
    [j \in 1 .. Len(seq) + 1 |->
        IF j < k THEN seq[j] ELSE IF j = k \/ (k = 0 /\ j = 1) THEN x ELSE seq[j - 1]]

\* list_add_head(&p_tmp_node->node, ...) with p_tmp_node at position k, or
\* with the list head when k = 0: the new element comes right behind it.
InsertAfter(seq, k, x) ==
    [j \in 1 .. Len(seq) + 1 |->
        IF j <= k THEN seq[j] ELSE IF j = k + 1 THEN x ELSE seq[j - 1]]

\* list_delete of the node at position k.
DeleteAt(seq, k) ==
    [j \in 1 .. Len(seq) - 1 |-> IF j < k THEN seq[j] ELSE seq[j + 1]]

\* Position in the list of the node whose focus_id has this client_id, else 0.
PositionOf(s, id) ==
    LET at == {j \in DOMAIN s.list : s.node_list[s.list[j]].client_id = id}
    IN  IF at = {} THEN 0 ELSE Min(at)

\* A mutant: the counter is decremented here as well as by the caller.
RemoveAndCount(s, id) ==
    IF s.node_list[id].client_id # -1
    THEN [s EXCEPT !.node_list[id] = FreeNode, !.cur_size = @ - 1]
    ELSE s

app_focus_node_list_remove(s, id) ==
    IF s.node_list[id].client_id # -1
    THEN [s EXCEPT !.node_list[id] = FreeNode]
    ELSE s

\* pthread_kill(thread, 0) succeeds exactly for the threads that still run.
app_focus_stack_thread_is_alive(focus_id, threads) ==
    focus_id.thread_id \in threads

Result(s, calls, ret) == [s |-> s, calls |-> calls, ret |-> ret]

-----------------------------------------------------------------------------

(* One callback: the top (or leaving) focus cur, and the focus req told.   *)
Call(cur, req) == [cur |-> cur, req |-> req]

\* app_focus_stack_change_callback with the flag test of its one receiver.
app_focus_stack_change_callback(cur, req, callback_flag) ==
    IF callback_flag >= 0 THEN <<>> ELSE <<Call(cur, req)>>

app_focus_stack_pop(s, callback_flag) ==
    IF app_focus_stack_is_empty(s) THEN Result(s, <<>>, ENOENT)
    ELSE LET head  == s.list[1]
             value == [s.node_list[head] EXCEPT
                          !.focus_state = APP_FOCUS_STATE_STACK_QUIT]
             last  == s.cur_size = 1
             nl    == IF last THEN s.node_list
                      ELSE [s.node_list EXCEPT
                               ![s.list[2]].focus_state = APP_FOCUS_STATE_STACK_TOP]
             calls == IF last THEN <<>>
                      ELSE app_focus_stack_change_callback(value, nl[s.list[2]],
                                                           callback_flag)
             s1    == [node_list |-> nl, list |-> DeleteAt(s.list, 1),
                       cur_size |-> s.cur_size - 1]
         IN  Result(app_focus_node_list_remove(s1, value.client_id), calls, 0)

app_focus_stack_push(s, value, callback_flag) ==
    IF app_focus_stack_is_full(s) THEN Result(s, <<>>, ENOSPC)
    ELSE IF value.client_id = -1 THEN Result(s, <<>>, EINVAL)
    ELSE LET slot  == value.client_id
             empty == app_focus_stack_is_empty(s)
             nl0   == [s.node_list EXCEPT ![slot] = value]
             nl1   == IF empty THEN nl0
                      ELSE [nl0 EXCEPT
                               ![s.list[1]].focus_state = APP_FOCUS_STATE_STACK_UNDER]
             calls == IF empty THEN <<>>
                      ELSE app_focus_stack_change_callback(value, nl1[s.list[1]],
                                                           callback_flag)
         IN  Result([node_list |-> [nl1 EXCEPT
                                       ![slot].focus_state = APP_FOCUS_STATE_STACK_TOP],
                     list      |-> InsertAfter(s.list, 0, slot),
                     cur_size  |-> s.cur_size + 1], calls, 0)

app_focus_stack_insert(s, value, index) ==
    IF app_focus_stack_is_full(s) THEN Result(s, <<>>, ENOSPC)
    ELSE IF app_focus_stack_is_empty(s) THEN app_focus_stack_push(s, value, index)
    ELSE IF value.client_id = -1 THEN Result(s, <<>>, EINVAL)
    ELSE LET slot == value.client_id
             s1   == [s EXCEPT !.node_list[slot] = value]
         IN  IF index \in 1 .. Len(s.list)
             THEN Result([node_list |-> [s1.node_list EXCEPT
                              ![slot].focus_state = APP_FOCUS_STATE_STACK_UNDER],
                          list      |-> InsertAfter(s.list, index, slot),
                          cur_size  |-> s.cur_size + 1], <<>>, 0)
             ELSE Result(app_focus_node_list_remove(s1, slot), <<>>, ENOENT)

app_focus_stack_delete(s, id, callback_flag) ==
    IF app_focus_stack_is_empty(s) THEN Result(s, <<>>, ENOENT)
    ELSE IF TopNode(s).client_id = id THEN app_focus_stack_pop(s, callback_flag)
    ELSE LET at == PositionOf(s, id)
         IN  IF at = 0 THEN Result(s, <<>>, ENOENT)
             ELSE Result([app_focus_node_list_remove(s, s.node_list[s.list[at]].client_id)
                             EXCEPT !.list = DeleteAt(s.list, at),
                                    !.cur_size = s.cur_size - 1], <<>>, 0)

(***************************************************************************)
(* The loop unlinks every node whose thread has exited.  A removed top     *)
(* hands the TOP state to its successor, which is told when its own thread *)
(* runs; a dead successor hands it on in the next iteration.  What is left *)
(* is the list of live nodes, whose head is TOP and, if it was not the     *)
(* head before, has been told.                                             *)
(***************************************************************************)
app_focus_stack_useless_clear(s, threads, callback_flag) ==
    LET Live(i)  == app_focus_stack_thread_is_alive(s.node_list[i], threads)
        dead     == {j \in DOMAIN s.list : ~ Live(s.list[j])}
        kept     == SelectSeq(s.list, Live)
        promoted == kept # <<>> /\ kept[1] # s.list[1]
        leaver   == s.node_list[s.list[PositionOf(s, s.node_list[kept[1]].client_id) - 1]]
        nl       == [i \in Slots |->
                        IF i \in {s.list[j] : j \in dead} THEN FreeNode
                        ELSE IF promoted /\ i = kept[1]
                        THEN [s.node_list[i] EXCEPT
                                 !.focus_state = APP_FOCUS_STATE_STACK_TOP]
                        ELSE s.node_list[i]]
    IN  IF dead = {} THEN Result(s, <<>>, 0)
        ELSE Result([node_list |-> nl, list |-> kept,
                     cur_size |-> s.cur_size - Cardinality(dead)],
                    IF promoted
                    THEN app_focus_stack_change_callback(
                             [leaver EXCEPT !.focus_state = APP_FOCUS_STATE_STACK_TOP],
                             nl[kept[1]], callback_flag)
                    ELSE <<>>, 0)

\* A mutant: off by one, two focuses are not enough for a broadcast.
BroadcastAboveTwo(s, callback_flag) ==
    IF s.cur_size <= 2 \/ callback_flag >= 0 THEN Result(s, <<>>, EPERM)
    ELSE Result(s, [j \in DOMAIN s.list |->
                       IF j = 1 THEN NULL ELSE Call(TopNode(s), s.node_list[s.list[j]])], 0)

\* The loop's continue for a node in the TOP state is NULL in the sequence.
app_focus_stack_top_change_broadcast(s, callback_flag) ==
    IF s.cur_size < 2 THEN Result(s, <<>>, EPERM)
    ELSE Result(s, IF callback_flag >= 0 THEN <<>>
                   ELSE [j \in DOMAIN s.list |->
                            IF s.node_list[s.list[j]].focus_state = APP_FOCUS_STATE_STACK_TOP
                            THEN NULL
                            ELSE Call(TopNode(s), s.node_list[s.list[j]])], 0)

\* Lowest free index of node_list.
app_focus_free_client_id(s) ==
    LET free == {i \in Slots : s.node_list[i].client_id = -1}
    IN  IF app_focus_stack_is_full(s) \/ free = {} THEN ENODATA
        ELSE Min(free)

app_focus_stack_clean(s, value, callback_flag) ==
    LET held == Range(s.list)
    IN  Result([node_list |-> [i \in Slots |->
                                  IF i \in held THEN FreeNode ELSE s.node_list[i]],
                list      |-> <<>>,
                cur_size  |-> s.cur_size - Len(s.list)],
               IF callback_flag >= 0 THEN <<>>
               ELSE [j \in DOMAIN s.list |->
                        Call(value, [s.node_list[s.list[j]] EXCEPT
                                        !.focus_state = APP_FOCUS_STATE_STACK_QUIT])], 0)

-----------------------------------------------------------------------------

(***************************************************************************)
(* What every operation preserves.                                         *)
(***************************************************************************)

FocusIds(levels, threads, cookies) ==
    [client_id : {-1} \cup Slots, focus_level : levels,
     thread_id : threads \cup {NULL}, focus_state : FocusState,
     callback_argv : cookies \cup {NULL}]

StackType(levels, threads, cookies) ==
    [node_list : [Slots -> FocusIds(levels, threads, cookies)],
     list      : Seq(Slots),
     cur_size  : 0 .. max_size]

\* The list and the array describe the same set of requests, each once.
ListMatchesArray(s) ==
    /\ IsInjective(s.list)
    /\ \A i \in Slots : s.node_list[i].client_id = IF i \in Range(s.list) THEN i ELSE -1
    /\ s.cur_size = Len(s.list)

\* Exactly the head of the list is in the TOP state.
OneTop(s) ==
    \A j \in DOMAIN s.list : s.node_list[s.list[j]].focus_state =
        IF j = 1 THEN APP_FOCUS_STATE_STACK_TOP ELSE APP_FOCUS_STATE_STACK_UNDER

StackShape(s) == ListMatchesArray(s) /\ OneTop(s)
=============================================================================
