------------------------------ MODULE ProxyCall ------------------------------
(***************************************************************************)
(* What media_proxy_once promises the threads of a client: a call is       *)
(* served at most once, with the arguments it was given, and returns the   *)
(* answer of its own service, or an error once the connection is gone.     *)
(***************************************************************************)
CONSTANTS Threads,    \* application threads that share a handle
          Requests,   \* what they may ask
          Answer(_),  \* what the handler of a request returns
          Error,      \* what a call returns when the connection is gone
          NULL

VARIABLES call,    \* the request of a thread, NULL outside a call
          served,  \* what the handler was given for it
          result   \* what its last call returned

vars == <<call, served, result>>

Init ==
    /\ call = [t \in Threads |-> NULL]
    /\ served = [t \in Threads |-> NULL]
    /\ result = [t \in Threads |-> NULL]

Call(t, r) ==
    /\ call[t] = NULL
    /\ call' = [call EXCEPT ![t] = r]
    /\ result' = [result EXCEPT ![t] = NULL]
    /\ UNCHANGED served

Serve(t) ==
    /\ call[t] # NULL /\ served[t] = NULL
    /\ served' = [served EXCEPT ![t] = call[t]]
    /\ UNCHANGED <<call, result>>

Return(t) ==
    /\ call[t] # NULL /\ served[t] = call[t]
    /\ result' = [result EXCEPT ![t] = Answer(call[t])]
    /\ call' = [call EXCEPT ![t] = NULL]
    /\ served' = [served EXCEPT ![t] = NULL]

\* The call may have been served.
Fail(t) ==
    /\ call[t] # NULL
    /\ result' = [result EXCEPT ![t] = Error]
    /\ call' = [call EXCEPT ![t] = NULL]
    /\ served' = [served EXCEPT ![t] = NULL]

\* The client's process ends and another one takes its place.
Restart ==
    /\ call' = [t \in Threads |-> NULL]
    /\ served' = [t \in Threads |-> NULL]
    /\ result' = [t \in Threads |-> NULL]

Next ==
    \/ \E t \in Threads : (\E r \in Requests : Call(t, r)) \/ Serve(t) \/ Return(t) \/ Fail(t)
    \/ Restart

Spec == Init /\ [][Next]_vars /\ \A t \in Threads : WF_vars(Serve(t) \/ Return(t) \/ Fail(t))
=============================================================================
