-------------------------- MODULE MediaFocus_proofs --------------------------
(***************************************************************************)
(* Safety of the focus arbiter for every number of clients, connections,   *)
(* streams and stack slots and every interaction matrix.                   *)
(*                                                                         *)
(* The first part is about FocusStack: every operation that the arbiter    *)
(* uses keeps the list, the array and the states of the stack in agreement *)
(* (StackShape), for every max_size, set of levels, threads and cookies.   *)
(*                                                                         *)
(* The last part is about FocusRpc: what the applications of the clients   *)
(* hear on their two sockets.                                              *)
(***************************************************************************)
EXTENDS FocusRpc, TLAPS, SequenceTheorems, WellFoundedInduction

-----------------------------------------------------------------------------
(* The focus stack                                                         *)

(* A set of naturals that is not empty has a least element, which Min      *)
(* chooses: app_focus_free_client_id and PositionOf depend on it.          *)
LEMMA MinNat ==
    ASSUME NEW S, S \subseteq Nat, S # {}
    PROVE  Min(S) \in S /\ \A y \in S : Min(S) <= y
<1> DEFINE R == {ss \in Nat \X Nat : ss[1] < ss[2]}
<1>1. IsWellFoundedOn(R, Nat)
  BY NatLessThanWellFounded DEF OpToRel
<1> HIDE DEF R
<1>2. PICK x \in S : \A y \in S : ~ (<<y, x>> \in R)
  BY <1>1, WFMin
<1>3. ASSUME NEW y \in S PROVE x <= y
  <2>1. x \in Nat /\ y \in Nat
    OBVIOUS
  <2>2. y < x => <<y, x>> \in R
    BY <2>1 DEF R
  <2>3. QED
    BY <1>2, <2>1, <2>2
<1>4. QED
  BY <1>3 DEF Min

(* list_add_head links one more slot, behind position k.                   *)
LEMMA InsertAfterElements ==
    ASSUME NEW S, NEW seq \in Seq(S), NEW k \in 0 .. Len(seq), NEW x \in S
    PROVE  /\ InsertAfter(seq, k, x) \in Seq(S)
           /\ Len(InsertAfter(seq, k, x)) = Len(seq) + 1
           /\ \A j \in 1 .. Len(seq) + 1 : InsertAfter(seq, k, x)[j] =
                  IF j <= k THEN seq[j] ELSE IF j = k + 1 THEN x ELSE seq[j - 1]
BY DEF InsertAfter

(* Linking a slot that was not in the list keeps the slots distinct.       *)
LEMMA InsertAfterRange ==
    ASSUME NEW S, NEW seq \in Seq(S), NEW k \in 0 .. Len(seq), NEW x \in S,
           IsInjective(seq), x \notin Range(seq)
    PROVE  /\ IsInjective(InsertAfter(seq, k, x))
           /\ Range(InsertAfter(seq, k, x)) = Range(seq) \cup {x}
<1> DEFINE ls == InsertAfter(seq, k, x)
<1>1. /\ ls \in Seq(S) /\ Len(ls) = Len(seq) + 1
      /\ \A j \in 1 .. Len(seq) + 1 : ls[j] =
             IF j <= k THEN seq[j] ELSE IF j = k + 1 THEN x ELSE seq[j - 1]
  BY DEF InsertAfter
<1>2. DOMAIN seq = 1 .. Len(seq) /\ DOMAIN ls = 1 .. Len(seq) + 1 /\ Len(seq) \in Nat
  BY <1>1
<1> HIDE DEF ls
<1>3. \A j \in DOMAIN seq : seq[j] # x
  BY DEF Range
<1>4. IsInjective(ls)
  <2>1. SUFFICES ASSUME NEW a \in DOMAIN ls, NEW b \in DOMAIN ls, ls[a] = ls[b], a # b
                 PROVE  FALSE
    BY DEF IsInjective
  <2> DEFINE old(j) == IF j <= k THEN j ELSE j - 1
  <2>2. \A j \in DOMAIN ls : j # k + 1 => old(j) \in DOMAIN seq /\ ls[j] = seq[old(j)]
    BY <1>1, <1>2
  <2>3. ls[k + 1] = x
    BY <1>1, <1>2
  <2>4. a # k + 1 /\ b # k + 1
    BY <2>1, <2>2, <2>3, <1>3
  <2>5. old(a) # old(b)
    BY <2>1, <2>4, <1>2
  <2>6. QED
    BY <2>1, <2>2, <2>4, <2>5 DEF IsInjective
<1>5. Range(ls) = Range(seq) \cup {x}
  <2>1. ASSUME NEW j \in DOMAIN ls PROVE ls[j] \in Range(seq) \cup {x}
    <3>1. CASE j <= k
      BY <3>1, <1>1, <1>2, j \in DOMAIN seq DEF Range
    <3>2. CASE j = k + 1
      BY <3>2, <1>1, <1>2
    <3>3. CASE j > k + 1
      BY <3>3, <1>1, <1>2, j - 1 \in DOMAIN seq DEF Range
    <3>4. QED
      BY <3>1, <3>2, <3>3, <1>2
  <2>2. ASSUME NEW j \in DOMAIN seq PROVE seq[j] \in Range(ls)
    <3>1. CASE j <= k
      BY <3>1, <1>1, <1>2, j \in DOMAIN ls DEF Range
    <3>2. CASE j > k
      BY <3>2, <1>1, <1>2, j + 1 \in DOMAIN ls, ls[j + 1] = seq[j] DEF Range
    <3>3. QED
      BY <3>1, <3>2, <1>2
  <2>3. x \in Range(ls)
    <3>1. k + 1 \in DOMAIN ls /\ ls[k + 1] = x
      BY <1>1, <1>2
    <3>2. QED
      BY <3>1 DEF Range
  <2>4. QED
    BY <2>1, <2>2, <2>3 DEF Range
<1>6. QED
  BY <1>4, <1>5 DEF ls

(* list_delete unlinks the slot at position k.                             *)
LEMMA DeleteAtElements ==
    ASSUME NEW S, NEW seq \in Seq(S), NEW k \in 1 .. Len(seq)
    PROVE  /\ DeleteAt(seq, k) \in Seq(S)
           /\ Len(DeleteAt(seq, k)) = Len(seq) - 1
           /\ \A j \in 1 .. Len(seq) - 1 : DeleteAt(seq, k)[j] =
                  IF j < k THEN seq[j] ELSE seq[j + 1]
BY DEF DeleteAt

(* Unlinking a slot from a list of distinct slots leaves all the others.   *)
LEMMA DeleteAtRange ==
    ASSUME NEW S, NEW seq \in Seq(S), NEW k \in 1 .. Len(seq), IsInjective(seq)
    PROVE  /\ IsInjective(DeleteAt(seq, k))
           /\ Range(DeleteAt(seq, k)) = Range(seq) \ {seq[k]}
<1> DEFINE ls == DeleteAt(seq, k)
           old(j) == IF j < k THEN j ELSE j + 1
<1>1. /\ ls \in Seq(S) /\ Len(ls) = Len(seq) - 1
      /\ \A j \in 1 .. Len(seq) - 1 : ls[j] = IF j < k THEN seq[j] ELSE seq[j + 1]
  BY DeleteAtElements
<1>2. DOMAIN seq = 1 .. Len(seq) /\ DOMAIN ls = 1 .. Len(seq) - 1 /\ Len(seq) \in Nat
  BY <1>1
<1> HIDE DEF ls
<1>3. \A j \in DOMAIN ls : old(j) \in DOMAIN seq /\ old(j) # k /\ ls[j] = seq[old(j)]
  BY <1>1, <1>2
<1>4. IsInjective(ls)
  <2>1. \A a, b \in DOMAIN ls : a # b => old(a) # old(b)
    BY <1>2
  <2>2. QED
    BY <1>3, <2>1 DEF IsInjective
<1>5. Range(ls) = Range(seq) \ {seq[k]}
  <2>1. ASSUME NEW j \in DOMAIN ls PROVE ls[j] \in Range(seq) /\ ls[j] # seq[k]
    BY <1>3, k \in DOMAIN seq DEF Range, IsInjective
  <2>2. ASSUME NEW j \in DOMAIN seq, seq[j] # seq[k] PROVE seq[j] \in Range(ls)
    <3>1. CASE j < k
      BY <3>1, <1>1, <1>2, j \in DOMAIN ls DEF Range
    <3>2. CASE j > k
      BY <3>2, <1>1, <1>2, j - 1 \in DOMAIN ls, ls[j - 1] = seq[j] DEF Range
    <3>3. QED
      BY <3>1, <3>2, <2>2, <1>2
  <2>3. QED
    BY <2>1, <2>2 DEF Range
<1>6. QED
  BY <1>4, <1>5 DEF ls

-----------------------------------------------------------------------------

\* Two nodes of the same request: they differ at most in the focus state.
SameRequest(a, b) ==
    /\ a.client_id = b.client_id
    /\ a.focus_level = b.focus_level
    /\ a.thread_id = b.thread_id
    /\ a.callback_argv = b.callback_argv

(* The stack app_focus_stack_init builds is well shaped.                   *)
LEMMA InitShape ==
    ASSUME NEW L, NEW T, NEW K, 0 \in L
    PROVE  /\ app_focus_stack_init \in StackType(L, T, K)
           /\ StackShape(app_focus_stack_init)
<1>1. <<>> \in Seq(Slots) /\ Len(<<>>) = 0
  OBVIOUS
<1>2. FreeNode \in FocusIds(L, T, K) /\ FreeNode.client_id = -1
  BY DEF FreeNode, FocusIds, FocusState, APP_FOCUS_STATE_STACK_QUIT
<1>3. app_focus_stack_init \in StackType(L, T, K)
  BY <1>1, <1>2, MaxSizeAssumption DEF app_focus_stack_init, StackType
<1>4. StackShape(app_focus_stack_init)
  BY <1>1, <1>2 DEF app_focus_stack_init, StackShape, ListMatchesArray, OneTop, IsInjective, Range
<1>5. QED
  BY <1>3, <1>4

(* What the shape of a stack says of its parts, for use in the proofs.     *)
LEMMA ShapeFacts ==
    ASSUME NEW L, NEW T, NEW K, NEW s \in StackType(L, T, K), StackShape(s)
    PROVE  /\ s.node_list \in [Slots -> FocusIds(L, T, K)]
           /\ s.list \in Seq(Slots) /\ DOMAIN s.list = 1 .. Len(s.list)
           /\ Len(s.list) \in Nat /\ s.cur_size \in 0 .. max_size
           /\ s.cur_size = Len(s.list)
           /\ IsInjective(s.list) /\ Range(s.list) \subseteq Slots
           /\ \A i \in Slots : s.node_list[i].client_id = IF i \in Range(s.list) THEN i ELSE -1
           /\ \A j \in DOMAIN s.list :
                 /\ s.list[j] \in Slots
                 /\ s.node_list[s.list[j]].client_id = s.list[j]
                 /\ s.node_list[s.list[j]].focus_state =
                       IF j = 1 THEN APP_FOCUS_STATE_STACK_TOP ELSE APP_FOCUS_STATE_STACK_UNDER
<1>1. /\ s.node_list \in [Slots -> FocusIds(L, T, K)]
      /\ s.list \in Seq(Slots) /\ s.cur_size \in 0 .. max_size
  BY DEF StackType
<1>2. DOMAIN s.list = 1 .. Len(s.list) /\ Len(s.list) \in Nat
  BY <1>1
<1>3. \A j \in DOMAIN s.list : s.list[j] \in Slots /\ s.list[j] \in Range(s.list)
  BY <1>1, <1>2 DEF Range
<1>4. Range(s.list) \subseteq Slots
  BY <1>3 DEF Range
<1>5. QED
  BY <1>1, <1>2, <1>3, <1>4 DEF StackShape, ListMatchesArray, OneTop

(* app_focus_free_client_id returns a slot no request occupies, or fails.  *)
LEMMA FreeClientId ==
    ASSUME NEW s, app_focus_free_client_id(s) >= 0
    PROVE  /\ app_focus_free_client_id(s) \in Slots
           /\ s.node_list[app_focus_free_client_id(s)].client_id = -1
           /\ ~ app_focus_stack_is_full(s)
<1> DEFINE free == {i \in Slots : s.node_list[i].client_id = -1}
<1>1. ~ app_focus_stack_is_full(s) /\ free # {} /\ app_focus_free_client_id(s) = Min(free)
  BY DEF app_focus_free_client_id, ENODATA
<1>2. free \subseteq Nat
  BY MaxSizeAssumption DEF Slots
<1>3. Min(free) \in free
  BY <1>1, <1>2, MinNat
<1>4. QED
  BY <1>1, <1>3

(* app_focus_free_client_id returns an index or a negative errno.          *)
LEMMA FreeClientIdType ==
    ASSUME NEW s
    PROVE  app_focus_free_client_id(s) \in Slots \cup {ENODATA}
<1> DEFINE free == {i \in Slots : s.node_list[i].client_id = -1}
<1>1. free \subseteq Nat
  BY MaxSizeAssumption DEF Slots
<1>2. free # {} => Min(free) \in free
  BY <1>1, MinNat
<1>3. QED
  BY <1>2 DEF app_focus_free_client_id

(* The list after a new slot was linked into it.                           *)
LEMMA LinkList ==
    ASSUME NEW L, NEW T, NEW K, NEW s \in StackType(L, T, K), StackShape(s),
           NEW slot \in Slots, s.node_list[slot].client_id = -1,
           NEW k \in 0 .. Len(s.list)
    PROVE  LET ls == InsertAfter(s.list, k, slot)
           IN  /\ ls \in Seq(Slots) /\ Len(ls) = Len(s.list) + 1
               /\ DOMAIN ls = 1 .. Len(s.list) + 1
               /\ IsInjective(ls)
               /\ \A i \in Slots : i \in Range(ls) <=> i \in Range(s.list) \/ i = slot
               /\ \A j \in 1 .. Len(s.list) + 1 : ls[j] =
                      IF j <= k THEN s.list[j] ELSE IF j = k + 1 THEN slot ELSE s.list[j - 1]
<1>1. s.list \in Seq(Slots) /\ IsInjective(s.list)
  BY ShapeFacts
<1>2. slot \notin Range(s.list)
  <2>1. s.node_list[slot].client_id = IF slot \in Range(s.list) THEN slot ELSE -1
    BY ShapeFacts
  <2>2. QED
    BY <2>1, MaxSizeAssumption DEF Slots
<1> DEFINE ls == InsertAfter(s.list, k, slot)
<1>3. /\ ls \in Seq(Slots) /\ Len(ls) = Len(s.list) + 1
      /\ \A j \in 1 .. Len(s.list) + 1 : ls[j] =
             IF j <= k THEN s.list[j] ELSE IF j = k + 1 THEN slot ELSE s.list[j - 1]
  <2>1. ls \in Seq(Slots) /\ Len(ls) = Len(s.list) + 1
    BY <1>1, InsertAfterElements
  <2>2. \A j \in 1 .. Len(s.list) + 1 : ls[j] =
             IF j <= k THEN s.list[j] ELSE IF j = k + 1 THEN slot ELSE s.list[j - 1]
    BY <1>1 DEF InsertAfter
  <2>3. QED
    BY <2>1, <2>2
<1>4. IsInjective(ls) /\ Range(ls) = Range(s.list) \cup {slot}
  BY <1>1, <1>2, InsertAfterRange
<1> HIDE DEF ls
<1>5. DOMAIN ls = 1 .. Len(s.list) + 1
  BY <1>3
<1>6. QED
  BY <1>3, <1>4, <1>5 DEF ls

(* Linking a new node, with the states of the nodes adjusted so that the   *)
(* head is the only TOP, keeps the shape.  This is what push (behind       *)
(* position 0) and insert (behind position 1 or more) have in common.      *)
LEMMA LinkShape ==
    ASSUME NEW L, NEW T, NEW K, NEW s \in StackType(L, T, K), StackShape(s),
           ~ app_focus_stack_is_full(s), NEW slot \in Slots,
           NEW ls \in Seq(Slots), Len(ls) = Len(s.list) + 1,
           IsInjective(ls), \A i \in Slots : i \in Range(ls) <=> i \in Range(s.list) \/ i = slot,
           NEW nl \in [Slots -> FocusIds(L, T, K)],
           nl[slot].client_id = slot,
           \A i \in Slots \ {slot} : nl[i].client_id = s.node_list[i].client_id,
           \A j \in DOMAIN ls : nl[ls[j]].focus_state =
               IF j = 1 THEN APP_FOCUS_STATE_STACK_TOP ELSE APP_FOCUS_STATE_STACK_UNDER,
           NEW r, r = [node_list |-> nl, list |-> ls, cur_size |-> s.cur_size + 1]
    PROVE  r \in StackType(L, T, K) /\ StackShape(r)
<1>1. /\ Len(s.list) \in Nat /\ s.cur_size \in 0 .. max_size /\ s.cur_size = Len(s.list)
      /\ \A i \in Slots : s.node_list[i].client_id = IF i \in Range(s.list) THEN i ELSE -1
  BY ShapeFacts
<1>2. s.cur_size + 1 \in 0 .. max_size
  BY <1>1, MaxSizeAssumption DEF app_focus_stack_is_full
<1>3. r \in StackType(L, T, K)
  BY <1>2 DEF StackType
<1>4. \A i \in Slots : nl[i].client_id = IF i \in Range(ls) THEN i ELSE -1
  BY <1>1
<1>5. ListMatchesArray(r)
  BY <1>1, <1>4 DEF ListMatchesArray
<1>6. OneTop(r)
  BY DEF OneTop
<1>7. QED
  BY <1>3, <1>5, <1>6 DEF StackShape

(* app_focus_stack_push with a free client id keeps the shape, puts the    *)
(* new request on top and leaves the others in the stack.                  *)
LEMMA PushShape ==
    ASSUME NEW L, NEW T, NEW K, NEW s \in StackType(L, T, K), StackShape(s),
           ~ app_focus_stack_is_full(s), NEW f \in Int,
           NEW v \in FocusIds(L, T, K), v.client_id \in Slots,
           s.node_list[v.client_id].client_id = -1
    PROVE  LET r == app_focus_stack_push(s, v, f).s
           IN  /\ r \in StackType(L, T, K)
               /\ StackShape(r)
               /\ SameRequest(r.node_list[v.client_id], v)
               /\ \A i \in Slots \ {v.client_id} : SameRequest(r.node_list[i], s.node_list[i])
<1> DEFINE slot == v.client_id
           r    == app_focus_stack_push(s, v, f).s
           nl0  == [s.node_list EXCEPT ![slot] = v]
           nl1  == IF app_focus_stack_is_empty(s) THEN nl0
                   ELSE [nl0 EXCEPT ![s.list[1]].focus_state = APP_FOCUS_STATE_STACK_UNDER]
           nl   == [nl1 EXCEPT ![slot].focus_state = APP_FOCUS_STATE_STACK_TOP]
           ls   == InsertAfter(s.list, 0, slot)
<1>1. r = [node_list |-> nl, list |-> ls, cur_size |-> s.cur_size + 1]
  <2>1. slot # -1
    BY MaxSizeAssumption DEF Slots
  <2>2. QED
    BY <2>1 DEF app_focus_stack_push, Result
<1>2. /\ s.node_list \in [Slots -> FocusIds(L, T, K)]
      /\ s.list \in Seq(Slots) /\ DOMAIN s.list = 1 .. Len(s.list)
      /\ Len(s.list) \in Nat /\ s.cur_size = Len(s.list) /\ IsInjective(s.list)
      /\ \A j \in DOMAIN s.list :
             /\ s.list[j] \in Slots
             /\ s.node_list[s.list[j]].client_id = s.list[j]
             /\ s.node_list[s.list[j]].focus_state =
                   IF j = 1 THEN APP_FOCUS_STATE_STACK_TOP ELSE APP_FOCUS_STATE_STACK_UNDER
  BY ShapeFacts
<1>3. \A j \in DOMAIN s.list : s.list[j] # slot
  BY <1>2, MaxSizeAssumption DEF Slots
<1>4. /\ ls \in Seq(Slots) /\ Len(ls) = Len(s.list) + 1
      /\ IsInjective(ls)
      /\ \A i \in Slots : i \in Range(ls) <=> i \in Range(s.list) \/ i = slot
      /\ DOMAIN ls = 1 .. Len(s.list) + 1 /\ ls[1] = slot
      /\ \A j \in 2 .. Len(s.list) + 1 : ls[j] = s.list[j - 1]
  <2>1. 0 \in 0 .. Len(s.list)
    BY <1>2
  <2>2. /\ ls \in Seq(Slots) /\ Len(ls) = Len(s.list) + 1
        /\ DOMAIN ls = 1 .. Len(s.list) + 1
        /\ IsInjective(ls)
        /\ \A i \in Slots : i \in Range(ls) <=> i \in Range(s.list) \/ i = slot
        /\ \A j \in 1 .. Len(s.list) + 1 : ls[j] =
               IF j <= 0 THEN s.list[j] ELSE IF j = 0 + 1 THEN slot ELSE s.list[j - 1]
    BY <2>1, LinkList
  <2> HIDE DEF ls
  <2>3. QED
    BY <1>2, <2>2
<1> HIDE DEF ls
<1>5. APP_FOCUS_STATE_STACK_TOP \in FocusState /\ APP_FOCUS_STATE_STACK_UNDER \in FocusState
  BY DEF FocusState
<1>6. /\ nl \in [Slots -> FocusIds(L, T, K)]
      /\ SameRequest(nl[slot], v)
      /\ nl[slot].focus_state = APP_FOCUS_STATE_STACK_TOP
      /\ \A i \in Slots \ {slot} : SameRequest(nl[i], s.node_list[i])
      /\ \A i \in Slots \ {slot} :
             nl[i].focus_state = IF Len(s.list) # 0 /\ i = s.list[1]
                                 THEN APP_FOCUS_STATE_STACK_UNDER
                                 ELSE s.node_list[i].focus_state
  <2>1. /\ nl0 \in [Slots -> FocusIds(L, T, K)] /\ nl0[slot] = v
        /\ \A i \in Slots \ {slot} : nl0[i] = s.node_list[i]
    BY <1>2
  <2>2. CASE app_focus_stack_is_empty(s)
    BY <2>1, <2>2, <1>2, <1>5 DEF FocusIds, SameRequest, app_focus_stack_is_empty
  <2>3. CASE ~ app_focus_stack_is_empty(s)
    <3>1. Len(s.list) # 0 /\ s.list[1] \in Slots \ {slot}
      BY <2>3, <1>2, <1>3, 1 \in DOMAIN s.list DEF app_focus_stack_is_empty
    <3>2. nl1 = [nl0 EXCEPT ![s.list[1]].focus_state = APP_FOCUS_STATE_STACK_UNDER]
      BY <2>3
    <3>3. nl1 \in [Slots -> FocusIds(L, T, K)] /\ nl1[slot] = v
      BY <2>1, <3>1, <3>2, <1>5 DEF FocusIds
    <3>4. \A i \in Slots \ {slot} : SameRequest(nl1[i], s.node_list[i])
      BY <2>1, <3>1, <3>2 DEF FocusIds, SameRequest
    <3>5. \A i \in Slots \ {slot} :
             nl1[i].focus_state = IF i = s.list[1] THEN APP_FOCUS_STATE_STACK_UNDER
                                  ELSE s.node_list[i].focus_state
      BY <2>1, <3>1, <3>2 DEF FocusIds
    <3> HIDE DEF nl1
    <3>6. QED
      BY <3>1, <3>3, <3>4, <3>5, <1>5 DEF FocusIds, SameRequest
  <2>4. QED
    BY <2>2, <2>3
<1> HIDE DEF nl
<1>7. ASSUME NEW j \in DOMAIN ls
      PROVE  nl[ls[j]].focus_state =
                 IF j = 1 THEN APP_FOCUS_STATE_STACK_TOP ELSE APP_FOCUS_STATE_STACK_UNDER
  <2>1. CASE j = 1
    BY <2>1, <1>4, <1>6
  <2>2. CASE j # 1
    <3>1. j - 1 \in DOMAIN s.list /\ ls[j] = s.list[j - 1] /\ Len(s.list) # 0
      BY <2>2, <1>2, <1>4
    <3>2. (j - 1 = 1) \/ (s.list[j - 1] # s.list[1])
      BY <3>1, <1>2, 1 \in DOMAIN s.list DEF IsInjective
    <3>3. QED
      BY <2>2, <3>1, <3>2, <1>2, <1>3, <1>6
  <2>3. QED
    BY <2>1, <2>2
<1>8. r.node_list = nl
  BY <1>1
<1>9. r \in StackType(L, T, K) /\ StackShape(r)
  <2>1. 0 \in 0 .. Len(s.list) /\ nl[slot].client_id = slot
        /\ \A i \in Slots \ {slot} : nl[i].client_id = s.node_list[i].client_id
    BY <1>2, <1>6 DEF SameRequest
  <2> HIDE DEF r
  <2>2. QED
    BY <1>1, <1>4, <1>6, <1>7, <2>1, LinkShape
<1>10. QED
  BY <1>6, <1>8, <1>9

(* app_focus_stack_insert into a stack that is not empty keeps the shape.  *)
(* At a position from 1 to the size it queues the request under the top;   *)
(* at any other it fails and leaves no trace of it.                        *)
LEMMA InsertShape ==
    ASSUME NEW L, NEW T, NEW K, NEW s \in StackType(L, T, K), StackShape(s), 0 \in L,
           ~ app_focus_stack_is_full(s), ~ app_focus_stack_is_empty(s), NEW index \in Int,
           NEW v \in FocusIds(L, T, K), v.client_id \in Slots,
           s.node_list[v.client_id].client_id = -1
    PROVE  LET r == app_focus_stack_insert(s, v, index)
           IN  /\ r.s \in StackType(L, T, K)
               /\ StackShape(r.s)
               /\ \/ /\ r.ret = 0 /\ SameRequest(r.s.node_list[v.client_id], v)
                  \/ r.ret = ENOENT /\ r.s.node_list[v.client_id].client_id = -1
               /\ \A i \in Slots \ {v.client_id} : r.s.node_list[i] = s.node_list[i]
<1> DEFINE slot == v.client_id
           r    == app_focus_stack_insert(s, v, index)
           nl0  == [s.node_list EXCEPT ![slot] = v]
<1>1. slot # -1
  BY MaxSizeAssumption DEF Slots
<1>2. /\ s.node_list \in [Slots -> FocusIds(L, T, K)]
      /\ s.list \in Seq(Slots) /\ DOMAIN s.list = 1 .. Len(s.list)
      /\ Len(s.list) \in Nat /\ s.cur_size = Len(s.list) /\ IsInjective(s.list)
      /\ s.cur_size \in 0 .. max_size
      /\ \A i \in Slots : s.node_list[i].client_id = IF i \in Range(s.list) THEN i ELSE -1
      /\ \A j \in DOMAIN s.list :
             /\ s.list[j] \in Slots
             /\ s.node_list[s.list[j]].client_id = s.list[j]
             /\ s.node_list[s.list[j]].focus_state =
                   IF j = 1 THEN APP_FOCUS_STATE_STACK_TOP ELSE APP_FOCUS_STATE_STACK_UNDER
  BY ShapeFacts
<1>3. \A j \in DOMAIN s.list : s.list[j] # slot
  BY <1>1, <1>2
<1>4. CASE index \in 1 .. Len(s.list)
  <2> DEFINE ls == InsertAfter(s.list, index, slot)
             nl == [nl0 EXCEPT ![slot].focus_state = APP_FOCUS_STATE_STACK_UNDER]
  <2>1. /\ r.s = [node_list |-> nl, list |-> ls, cur_size |-> s.cur_size + 1]
        /\ r.ret = 0
    BY <1>1, <1>4 DEF app_focus_stack_insert, Result
  <2>2. APP_FOCUS_STATE_STACK_UNDER \in FocusState
    BY DEF FocusState
  <2>3. /\ nl \in [Slots -> FocusIds(L, T, K)]
        /\ SameRequest(nl[slot], v) /\ nl[slot].focus_state = APP_FOCUS_STATE_STACK_UNDER
        /\ \A i \in Slots \ {slot} : nl[i] = s.node_list[i]
    BY <1>2, <2>2 DEF FocusIds, SameRequest
  <2> HIDE DEF nl
  <2>4. index \in 0 .. Len(s.list)
    BY <1>2, <1>4
  <2>5. /\ ls \in Seq(Slots) /\ Len(ls) = Len(s.list) + 1
        /\ DOMAIN ls = 1 .. Len(s.list) + 1
        /\ IsInjective(ls)
        /\ \A i \in Slots : i \in Range(ls) <=> i \in Range(s.list) \/ i = slot
        /\ \A j \in 1 .. Len(s.list) + 1 : ls[j] =
               IF j <= index THEN s.list[j] ELSE IF j = index + 1 THEN slot ELSE s.list[j - 1]
    BY <2>4, LinkList
  <2> HIDE DEF ls
  <2>6. ASSUME NEW j \in DOMAIN ls
        PROVE  nl[ls[j]].focus_state =
                   IF j = 1 THEN APP_FOCUS_STATE_STACK_TOP ELSE APP_FOCUS_STATE_STACK_UNDER
    <3>1. CASE j <= index
      <4>1. j \in DOMAIN s.list /\ ls[j] = s.list[j]
        BY <3>1, <1>2, <1>4, <2>5
      <4>2. nl[s.list[j]] = s.node_list[s.list[j]]
        BY <4>1, <1>2, <1>3, <2>3
      <4>3. s.node_list[s.list[j]].focus_state =
                IF j = 1 THEN APP_FOCUS_STATE_STACK_TOP ELSE APP_FOCUS_STATE_STACK_UNDER
        BY <4>1, <1>2
      <4>4. QED
        BY <4>1, <4>2, <4>3
    <3>2. CASE j = index + 1
      BY <3>2, <1>2, <1>4, <2>3, <2>5
    <3>3. CASE j > index + 1
      <4>1. j - 1 \in DOMAIN s.list /\ ls[j] = s.list[j - 1] /\ j - 1 # 1 /\ j # 1
        BY <3>3, <1>2, <1>4, <2>5
      <4>2. nl[s.list[j - 1]] = s.node_list[s.list[j - 1]]
        BY <4>1, <1>2, <1>3, <2>3
      <4>3. s.node_list[s.list[j - 1]].focus_state =
                IF j - 1 = 1 THEN APP_FOCUS_STATE_STACK_TOP ELSE APP_FOCUS_STATE_STACK_UNDER
        BY <4>1, <1>2
      <4>4. QED
        BY <4>1, <4>2, <4>3
    <3>4. QED
      BY <3>1, <3>2, <3>3, <2>5
  <2>7. r.s.node_list = nl
    BY <2>1
  <2>8. r.s \in StackType(L, T, K) /\ StackShape(r.s)
    <3>1. nl[slot].client_id = slot
          /\ \A i \in Slots \ {slot} : nl[i].client_id = s.node_list[i].client_id
      BY <2>3 DEF SameRequest
    <3> DEFINE rs == r.s
    <3>2. rs = [node_list |-> nl, list |-> ls, cur_size |-> s.cur_size + 1]
      BY <2>1
    <3> HIDE DEF rs
    <3>3. rs \in StackType(L, T, K) /\ StackShape(rs)
      BY <2>3, <2>5, <2>6, <3>1, <3>2, LinkShape
    <3>4. QED
      BY <3>3 DEF rs
  <2>9. QED
    BY <2>1, <2>3, <2>7, <2>8
<1>5. CASE index \notin 1 .. Len(s.list)
  <2> DEFINE nl == [nl0 EXCEPT ![slot] = FreeNode]
  <2>1. nl0[slot].client_id # -1
    BY <1>1, <1>2
  <2>2. r.s = [s EXCEPT !.node_list = nl] /\ r.ret = ENOENT
    BY <1>1, <1>5, <2>1 DEF app_focus_stack_insert, app_focus_node_list_remove, Result, StackType
  <2>3. FreeNode \in FocusIds(L, T, K) /\ FreeNode.client_id = -1
    BY DEF FreeNode, FocusIds, FocusState
  <2>4. /\ nl \in [Slots -> FocusIds(L, T, K)] /\ nl[slot] = FreeNode
        /\ \A i \in Slots \ {slot} : nl[i] = s.node_list[i]
    BY <1>2, <2>3
  <2> HIDE DEF nl
  <2>5. /\ r.s \in StackType(L, T, K)
        /\ r.s.node_list = nl /\ r.s.list = s.list /\ r.s.cur_size = s.cur_size
    BY <2>2, <2>4 DEF StackType
  <2>6. ListMatchesArray(r.s)
    BY <1>2, <2>3, <2>4, <2>5 DEF ListMatchesArray
  <2>7. OneTop(r.s)
    BY <1>2, <1>3, <2>4, <2>5 DEF OneTop
  <2>8. QED
    BY <2>2, <2>3, <2>4, <2>5, <2>6, <2>7 DEF StackShape
<1>6. QED
  BY <1>4, <1>5

(* Unlinking a node, with the states of the others adjusted so that the    *)
(* head is the only TOP, keeps the shape.  This is what pop and the        *)
(* deletion of a node under the top have in common.                        *)
LEMMA UnlinkShape ==
    ASSUME NEW L, NEW T, NEW K, NEW s \in StackType(L, T, K), StackShape(s), 0 \in L,
           NEW k \in DOMAIN s.list,
           NEW nl \in [Slots -> FocusIds(L, T, K)],
           nl[s.list[k]] = FreeNode,
           \A i \in Slots \ {s.list[k]} : nl[i].client_id = s.node_list[i].client_id,
           \A j \in DOMAIN DeleteAt(s.list, k) : nl[DeleteAt(s.list, k)[j]].focus_state =
               IF j = 1 THEN APP_FOCUS_STATE_STACK_TOP ELSE APP_FOCUS_STATE_STACK_UNDER,
           NEW r, r = [node_list |-> nl, list |-> DeleteAt(s.list, k),
                       cur_size |-> s.cur_size - 1]
    PROVE  r \in StackType(L, T, K) /\ StackShape(r)
<1> DEFINE ls == DeleteAt(s.list, k)
<1>1. /\ s.list \in Seq(Slots) /\ Len(s.list) \in Nat /\ s.cur_size \in 0 .. max_size
      /\ DOMAIN s.list = 1 .. Len(s.list)
      /\ s.cur_size = Len(s.list) /\ IsInjective(s.list) /\ s.list[k] \in Slots
      /\ \A i \in Slots : s.node_list[i].client_id = IF i \in Range(s.list) THEN i ELSE -1
  BY ShapeFacts
<1>2. k \in 1 .. Len(s.list)
  BY <1>1
<1>3. ls \in Seq(Slots) /\ Len(ls) = Len(s.list) - 1
  BY <1>1, <1>2, DeleteAtElements
<1>4. IsInjective(ls)
  BY <1>1, <1>2, DeleteAtRange
<1>5. Range(ls) = Range(s.list) \ {s.list[k]}
  BY <1>1, <1>2, DeleteAtRange
<1> HIDE DEF ls
<1>6. s.cur_size - 1 \in 0 .. max_size
  BY <1>1, <1>2, MaxSizeAssumption
<1>7. r \in StackType(L, T, K)
  BY <1>3, <1>6 DEF StackType, ls
<1>8. FreeNode.client_id = -1
  BY DEF FreeNode
<1>9. \A i \in Slots : nl[i].client_id = IF i \in Range(ls) THEN i ELSE -1
  BY <1>1, <1>5, <1>8
<1>10. r.list = ls /\ r.node_list = nl /\ r.cur_size = s.cur_size - 1
  BY DEF ls
<1>11. ListMatchesArray(r)
  BY <1>1, <1>3, <1>4, <1>9, <1>10 DEF ListMatchesArray
<1>12. OneTop(r)
  BY <1>10 DEF OneTop, ls
<1>13. QED
  BY <1>7, <1>11, <1>12 DEF StackShape

(* app_focus_stack_pop removes the head, makes its successor the TOP and   *)
(* leaves the other requests in the stack.                                 *)
LEMMA PopShape ==
    ASSUME NEW L, NEW T, NEW K, NEW s \in StackType(L, T, K), StackShape(s), 0 \in L,
           ~ app_focus_stack_is_empty(s), NEW f \in Int
    PROVE  LET r == app_focus_stack_pop(s, f).s
           IN  /\ r \in StackType(L, T, K)
               /\ StackShape(r)
               /\ s.list[1] \in Slots /\ r.node_list[s.list[1]] = FreeNode
               /\ \A i \in Slots \ {s.list[1]} : SameRequest(r.node_list[i], s.node_list[i])
<1> DEFINE head == s.list[1]
           r    == app_focus_stack_pop(s, f).s
           nl0  == IF s.cur_size = 1 THEN s.node_list
                   ELSE [s.node_list EXCEPT
                            ![s.list[2]].focus_state = APP_FOCUS_STATE_STACK_TOP]
           nl   == [nl0 EXCEPT ![head] = FreeNode]
           ls   == DeleteAt(s.list, 1)
<1>1. /\ s.node_list \in [Slots -> FocusIds(L, T, K)]
      /\ s.list \in Seq(Slots) /\ DOMAIN s.list = 1 .. Len(s.list)
      /\ Len(s.list) \in Nat /\ s.cur_size = Len(s.list) /\ IsInjective(s.list)
      /\ \A j \in DOMAIN s.list :
             /\ s.list[j] \in Slots
             /\ s.node_list[s.list[j]].client_id = s.list[j]
             /\ s.node_list[s.list[j]].focus_state =
                   IF j = 1 THEN APP_FOCUS_STATE_STACK_TOP ELSE APP_FOCUS_STATE_STACK_UNDER
  BY ShapeFacts
<1>2. 1 \in DOMAIN s.list /\ 1 \in 1 .. Len(s.list) /\ head \in Slots
  BY <1>1 DEF app_focus_stack_is_empty
<1>3. APP_FOCUS_STATE_STACK_TOP \in FocusState
  BY DEF FocusState
<1>4. ASSUME s.cur_size # 1
      PROVE  2 \in DOMAIN s.list /\ s.list[2] \in Slots \ {head}
  <2>1. 2 \in DOMAIN s.list
    <3>1. Len(s.list) \in Nat /\ Len(s.list) # 0 /\ Len(s.list) # 1
      BY <1>1, <1>2, <1>4
    <3>2. \A n \in Nat : n # 0 /\ n # 1 => 2 \in 1 .. n
      OBVIOUS
    <3>3. QED
      BY <1>1, <3>1, <3>2
  <2>2. s.list[2] # s.list[1]
    BY <1>1, <1>2, <2>1 DEF IsInjective
  <2>3. QED
    BY <1>1, <2>1, <2>2
<1>5. /\ nl0 \in [Slots -> FocusIds(L, T, K)] /\ nl0[head] = s.node_list[head]
      /\ \A i \in Slots : SameRequest(nl0[i], s.node_list[i])
      /\ \A i \in Slots : nl0[i].focus_state =
            IF s.cur_size # 1 /\ i = s.list[2] THEN APP_FOCUS_STATE_STACK_TOP
            ELSE s.node_list[i].focus_state
  <2>1. CASE s.cur_size = 1
    BY <2>1, <1>1 DEF SameRequest
  <2>2. CASE s.cur_size # 1
    <3>1. nl0 = [s.node_list EXCEPT ![s.list[2]].focus_state = APP_FOCUS_STATE_STACK_TOP]
      BY <2>2
    <3>2. nl0 \in [Slots -> FocusIds(L, T, K)] /\ nl0[head] = s.node_list[head]
      BY <2>2, <3>1, <1>1, <1>2, <1>3, <1>4 DEF FocusIds
    <3>3. \A i \in Slots : SameRequest(nl0[i], s.node_list[i])
      BY <2>2, <3>1, <1>1, <1>4 DEF FocusIds, SameRequest
    <3>4. \A i \in Slots : nl0[i].focus_state =
             IF i = s.list[2] THEN APP_FOCUS_STATE_STACK_TOP ELSE s.node_list[i].focus_state
      BY <2>2, <3>1, <1>1, <1>4 DEF FocusIds
    <3>5. QED
      BY <2>2, <3>2, <3>3, <3>4
  <2>3. QED
    BY <2>1, <2>2
<1>6. r = [node_list |-> nl, list |-> ls, cur_size |-> s.cur_size - 1]
  <2>1. s.node_list[head].client_id = head /\ head # -1
    BY <1>1, <1>2, MaxSizeAssumption DEF Slots
  <2>2. nl0[head].client_id # -1
    BY <1>5, <2>1
  <2> DEFINE s1 == [node_list |-> nl0, list |-> ls, cur_size |-> s.cur_size - 1]
  <2>3. r = app_focus_node_list_remove(s1, head)
    <3>1. [s.node_list[head] EXCEPT !.focus_state = APP_FOCUS_STATE_STACK_QUIT].client_id = head
      BY <2>1, <1>1, <1>2 DEF FocusIds
    <3>2. QED
      BY <3>1 DEF app_focus_stack_pop, Result
  <2>4. QED
    BY <2>2, <2>3 DEF app_focus_node_list_remove
<1> HIDE DEF nl0
<1>7. /\ nl \in [Slots -> FocusIds(L, T, K)] /\ nl[head] = FreeNode
      /\ \A i \in Slots \ {head} : nl[i] = nl0[i]
  <2>1. FreeNode \in FocusIds(L, T, K)
    BY DEF FreeNode, FocusIds, FocusState
  <2>2. QED
    BY <2>1, <1>2, <1>5
<1> HIDE DEF nl
<1>8. /\ ls \in Seq(Slots) /\ Len(ls) = Len(s.list) - 1
      /\ \A j \in 1 .. Len(s.list) - 1 : ls[j] = s.list[j + 1]
  <2>1. ls \in Seq(Slots) /\ Len(ls) = Len(s.list) - 1
    BY <1>1, <1>2, DeleteAtElements
  <2>2. \A j \in 1 .. Len(s.list) - 1 : ls[j] = s.list[j + 1]
    BY <1>1 DEF DeleteAt
  <2>3. QED
    BY <2>1, <2>2
<1>9. ASSUME NEW j \in DOMAIN ls
      PROVE  nl[ls[j]].focus_state =
                 IF j = 1 THEN APP_FOCUS_STATE_STACK_TOP ELSE APP_FOCUS_STATE_STACK_UNDER
  <2> HIDE DEF ls
  <2>1. /\ j \in Nat /\ j + 1 \in DOMAIN s.list /\ ls[j] = s.list[j + 1] /\ s.cur_size # 1
        /\ j + 1 # 1
    <3>1. DOMAIN ls = 1 .. Len(s.list) - 1
      BY <1>1, <1>8
    <3>2. QED
      BY <3>1, <1>1, <1>8
  <2>2. s.list[j + 1] \in Slots \ {head} /\ (j = 1 <=> s.list[j + 1] = s.list[2])
    BY <2>1, <1>1, <1>2, <1>4 DEF IsInjective
  <2>3. s.node_list[s.list[j + 1]].focus_state = APP_FOCUS_STATE_STACK_UNDER
    BY <2>1, <1>1
  <2>4. QED
    BY <2>1, <2>2, <2>3, <1>5, <1>7
<1>10. r \in StackType(L, T, K) /\ StackShape(r)
  <2>1. \A i \in Slots \ {s.list[1]} : nl[i].client_id = s.node_list[i].client_id
    BY <1>5, <1>7 DEF SameRequest
  <2> HIDE DEF r
  <2>2. QED
    BY <1>2, <1>6, <1>7, <1>9, <2>1, UnlinkShape
<1>11. r.node_list = nl
  BY <1>6
<1>12. QED
  BY <1>2, <1>5, <1>7, <1>10, <1>11

(* app_focus_stack_delete removes the request with the given id, if it is  *)
(* in the stack, and no other; an id that is not in the stack changes      *)
(* nothing.                                                                *)
LEMMA DeleteShape ==
    ASSUME NEW L, NEW T, NEW K, NEW s \in StackType(L, T, K), StackShape(s), 0 \in L,
           NEW id \in Nat, NEW f \in Int
    PROVE  LET r == app_focus_stack_delete(s, id, f).s
           IN  /\ r \in StackType(L, T, K)
               /\ StackShape(r)
               /\ id \in Range(s.list) => r.node_list[id] = FreeNode
               /\ \A i \in Slots : i # id => SameRequest(r.node_list[i], s.node_list[i])
               /\ id \notin Range(s.list) => r = s
<1> DEFINE r == app_focus_stack_delete(s, id, f).s
<1>1. /\ s.node_list \in [Slots -> FocusIds(L, T, K)]
      /\ s.list \in Seq(Slots) /\ DOMAIN s.list = 1 .. Len(s.list)
      /\ Len(s.list) \in Nat /\ s.cur_size = Len(s.list) /\ IsInjective(s.list)
      /\ Range(s.list) \subseteq Slots
      /\ \A j \in DOMAIN s.list :
             /\ s.list[j] \in Slots
             /\ s.node_list[s.list[j]].client_id = s.list[j]
             /\ s.node_list[s.list[j]].focus_state =
                   IF j = 1 THEN APP_FOCUS_STATE_STACK_TOP ELSE APP_FOCUS_STATE_STACK_UNDER
  BY ShapeFacts
<1>2. \A i : i \in Range(s.list) <=> \E j \in DOMAIN s.list : s.list[j] = i
  BY DEF Range
<1>3. CASE app_focus_stack_is_empty(s)
  <2>1. r = s /\ DOMAIN s.list = {}
    BY <1>1, <1>3 DEF app_focus_stack_delete, Result, app_focus_stack_is_empty
  <2>2. id \notin Range(s.list)
    BY <1>2, <2>1
  <2>3. QED
    BY <2>1, <2>2 DEF SameRequest
<1>4. CASE ~ app_focus_stack_is_empty(s) /\ TopNode(s).client_id = id
  <2>1. 1 \in DOMAIN s.list /\ s.list[1] = id /\ id \in Range(s.list)
    BY <1>1, <1>2, <1>4 DEF app_focus_stack_is_empty, TopNode
  <2>2. r = app_focus_stack_pop(s, f).s
    BY <1>4 DEF app_focus_stack_delete
  <2> DEFINE p == app_focus_stack_pop(s, f).s
  <2>3. /\ p \in StackType(L, T, K) /\ StackShape(p)
        /\ p.node_list[s.list[1]] = FreeNode
        /\ \A i \in Slots \ {s.list[1]} : SameRequest(p.node_list[i], s.node_list[i])
    BY <1>4, PopShape
  <2>4. r = p
    BY <2>2
  <2> HIDE DEF p
  <2>5. QED
    BY <2>1, <2>3, <2>4
<1>5. CASE ~ app_focus_stack_is_empty(s) /\ TopNode(s).client_id # id
  <2> DEFINE found == {j \in DOMAIN s.list : s.node_list[s.list[j]].client_id = id}
             at    == PositionOf(s, id)
  <2>1. CASE found = {}
    <3>1. r = s
      BY <1>5, <2>1 DEF app_focus_stack_delete, PositionOf, Result
    <3>2. id \notin Range(s.list)
      BY <1>1, <1>2, <2>1
    <3>3. QED
      BY <3>1, <3>2 DEF SameRequest
  <2>2. CASE found # {}
    <3>1. at \in found
      <4>1. found \subseteq Nat /\ at = Min(found)
        BY <1>1, <2>2 DEF PositionOf
      <4>2. QED
        BY <4>1, <2>2, MinNat
    <3> HIDE DEF at
    <3>2. /\ at \in DOMAIN s.list /\ s.list[at] = id /\ id \in Range(s.list) /\ id \in Slots
          /\ at # 0 /\ at # 1 /\ 1 \in DOMAIN s.list
      BY <1>1, <1>2, <1>5, <3>1 DEF TopNode, app_focus_stack_is_empty
    <3> DEFINE nl == [s.node_list EXCEPT ![id] = FreeNode]
               ls == DeleteAt(s.list, at)
    <3>3. r = [node_list |-> nl, list |-> ls, cur_size |-> s.cur_size - 1]
      <4>1. s.node_list[id].client_id = id /\ id # -1
        BY <1>1, <3>2
      <4>2. app_focus_node_list_remove(s, id) = [s EXCEPT !.node_list[id] = FreeNode]
        BY <4>1 DEF app_focus_node_list_remove
      <4>3. r = [app_focus_node_list_remove(s, id) EXCEPT
                    !.list = ls, !.cur_size = s.cur_size - 1]
        BY <1>5, <3>2, <4>1 DEF app_focus_stack_delete, Result, at
      <4>4. QED
        BY <4>2, <4>3 DEF StackType
    <3>4. /\ nl \in [Slots -> FocusIds(L, T, K)] /\ nl[id] = FreeNode
          /\ \A i \in Slots \ {id} : nl[i] = s.node_list[i]
      <4>1. FreeNode \in FocusIds(L, T, K)
        BY DEF FreeNode, FocusIds, FocusState
      <4>2. QED
        BY <4>1, <1>1, <3>2
    <3> HIDE DEF nl
    <3>5. ASSUME NEW j \in DOMAIN ls
          PROVE  nl[ls[j]].focus_state =
                     IF j = 1 THEN APP_FOCUS_STATE_STACK_TOP ELSE APP_FOCUS_STATE_STACK_UNDER
      <4> DEFINE old == IF j < at THEN j ELSE j + 1
      <4>1. j \in 1 .. Len(s.list) - 1 /\ ls[j] = s.list[old]
        BY <1>1, <3>2 DEF DeleteAt
      <4> HIDE DEF ls
      <4>2. old \in DOMAIN s.list /\ old # at /\ (old = 1 <=> j = 1)
        BY <1>1, <3>2, <4>1
      <4> HIDE DEF old
      <4>3. s.list[old] \in Slots \ {id}
        BY <1>1, <3>2, <4>2 DEF IsInjective
      <4>4. QED
        BY <1>1, <3>4, <4>1, <4>2, <4>3
    <3>6. r \in StackType(L, T, K) /\ StackShape(r)
      <4>1. nl[s.list[at]] = FreeNode
            /\ \A i \in Slots \ {s.list[at]} : nl[i].client_id = s.node_list[i].client_id
        BY <3>2, <3>4
      <4> HIDE DEF r
      <4>2. QED
        BY <3>2, <3>3, <3>4, <3>5, <4>1, UnlinkShape
    <3>7. r.node_list = nl
      BY <3>3
    <3>8. QED
      BY <3>2, <3>4, <3>6, <3>7 DEF SameRequest
  <2>3. QED
    BY <2>1, <2>2
<1>6. QED
  BY <1>3, <1>4, <1>5

(* When every thread of the stack's requests runs, the useless-clear pass  *)
(* of a request or an abandon changes nothing and calls nobody back.       *)
LEMMA ClearNothing ==
    ASSUME NEW s, NEW threads, NEW f,
           \A j \in DOMAIN s.list : s.node_list[s.list[j]].thread_id \in threads
    PROVE  app_focus_stack_useless_clear(s, threads, f) = Result(s, <<>>, 0)
BY DEF app_focus_stack_useless_clear, app_focus_stack_thread_is_alive
-----------------------------------------------------------------------------
(* The focus arbiter                                                       *)

ST == StackType(Levels, {Daemon}, Cookies)

FID == FocusIds(Levels, {Daemon}, Cookies)

\* One element of a sequence of callbacks.
CallType == [cur : FID, req : FID] \cup {NULL}

\* A listed node was made by a request: by the daemon's thread, for a cookie.
DaemonStack(s) ==
    /\ s \in ST
    /\ StackShape(s)
    /\ \A i \in Range(s.list) : /\ s.node_list[i].thread_id = Daemon
                                /\ s.node_list[i].callback_argv \in Cookies

LEMMA ZeroLevel == 0 \in Levels
BY NumAssumption DEF Levels

(* The parts of a well-formed stack of the arbiter.                        *)
LEMMA StackFacts ==
    ASSUME NEW s \in ST, StackShape(s)
    PROVE  /\ s.list \in Seq(Slots) /\ DOMAIN s.list = 1 .. Len(s.list) /\ Len(s.list) \in Nat
           /\ s.node_list \in [Slots -> FID] /\ s.cur_size = Len(s.list)
           /\ \A j \in 1 .. Len(s.list) : s.list[j] \in Slots
<1>1. s \in StackType(Levels, {Daemon}, Cookies)
  BY DEF ST
<1>2. /\ s.list \in Seq(Slots) /\ DOMAIN s.list = 1 .. Len(s.list) /\ Len(s.list) \in Nat
      /\ s.cur_size = Len(s.list)
  BY <1>1, ShapeFacts
<1>3. s.node_list \in [Slots -> FocusIds(Levels, {Daemon}, Cookies)]
  BY <1>1, ShapeFacts
<1>4. s.node_list \in [Slots -> FID]
  BY <1>3 DEF FID
<1>5. \A j \in 1 .. Len(s.list) : s.list[j] \in Slots
  BY <1>2
<1>6. QED
  BY <1>2, <1>4, <1>5

-----------------------------------------------------------------------------

(* The callbacks of one operation, and what they tell the clients.         *)

(* The last position of a set of positions is one of them.                 *)
LEMMA MaxPosition ==
    ASSUME NEW n \in Nat, NEW S, S \subseteq 1 .. n, S # {}
    PROVE  Max(S) \in S
<1> DEFINE T == {n - x : x \in S}
<1>1. T \subseteq Nat /\ T # {}
  <2>1. \A x \in S : x \in Int /\ n - x \in Nat
    OBVIOUS
  <2>2. QED
    BY <2>1
<1>2. Min(T) \in T /\ \A y \in T : Min(T) <= y
  BY <1>1, MinNat
<1>3. PICK x \in S : Min(T) = n - x
  BY <1>2
<1>4. \A y \in S : n - x <= n - y
  BY <1>2, <1>3
<1>5. \A y \in S : x >= y
  BY <1>4
<1>6. QED
  BY <1>5 DEF Max

(* Arbitration answers a suggestion for every pair of focuses.             *)
LEMMA ArbitrateType ==
    ASSUME NEW top_id \in FID, NEW cur_id \in FID
    PROVE  media_focus_play_arbitrate(top_id, cur_id) \in Suggestions
<1>1. top_id.focus_level \in Levels /\ cur_id.focus_level \in Levels
  BY DEF FID, FocusIds
<1>2. pas_inter[<<top_id.focus_level, cur_id.focus_level>>] \in Suggestions
  BY <1>1, MatrixAssumption
<1>3. QED
  BY <1>2 DEF media_focus_play_arbitrate, Suggestions

(* Notifying keeps the last suggestions suggestions.                       *)
LEMMA NotifyType ==
    ASSUME NEW t \in [Clients -> Suggestions \cup {NULL}], NEW cs,
           NEW calls \in Seq(CallType)
    PROVE  media_focus_notify_cb(t, cs, calls) \in [Clients -> Suggestions \cup {NULL}]
<1> DEFINE mine(c) == {j \in DOMAIN calls :
                         /\ calls[j] # NULL
                         /\ c \in media_server_notify(cs[calls[j].req.callback_argv])}
<1>1. ASSUME NEW c \in Clients, mine(c) # {}
      PROVE  media_focus_play_arbitrate(calls[Max(mine(c))].cur, calls[Max(mine(c))].req)
                \in Suggestions
  <2>1. Len(calls) \in Nat /\ DOMAIN calls = 1 .. Len(calls)
    OBVIOUS
  <2>2. mine(c) \subseteq 1 .. Len(calls)
    BY <2>1
  <2>3. Max(mine(c)) \in mine(c)
    BY <2>1, <2>2, <1>1, MaxPosition
  <2>4. Max(mine(c)) \in DOMAIN calls /\ calls[Max(mine(c))] # NULL
    BY <2>3
  <2> HIDE DEF mine
  <2>5. calls[Max(mine(c))] \in [cur : FID, req : FID]
    BY <2>1, <2>4 DEF CallType
  <2>6. QED
    BY <2>5, ArbitrateType
<1>2. media_focus_notify_cb(t, cs, calls) =
        [c \in Clients |->
            IF mine(c) = {} THEN t[c]
            ELSE media_focus_play_arbitrate(calls[Max(mine(c))].cur, calls[Max(mine(c))].req)]
  BY DEF media_focus_notify_cb
<1> HIDE DEF mine
<1>3. QED
  BY <1>1, <1>2

(* The callbacks of a broadcast are well formed.                           *)
LEMMA BroadcastCalls ==
    ASSUME NEW s \in ST, StackShape(s), NEW f \in Int
    PROVE  app_focus_stack_top_change_broadcast(s, f).calls \in Seq(CallType)
<1>1. /\ s.list \in Seq(Slots) /\ DOMAIN s.list = 1 .. Len(s.list) /\ Len(s.list) \in Nat
      /\ s.node_list \in [Slots -> FID] /\ s.cur_size = Len(s.list)
  BY StackFacts
<1>2. \A j \in 1 .. Len(s.list) : s.node_list[s.list[j]] \in FID
  BY <1>1
<1>3. Len(s.list) >= 2 => TopNode(s) \in FID
  BY <1>1, <1>2 DEF TopNode
<1>4. Len(s.list) >= 2 =>
         \A j \in 1 .. Len(s.list) : Call(TopNode(s), s.node_list[s.list[j]]) \in CallType
  BY <1>2, <1>3 DEF Call, CallType
<1>5. NULL \in CallType /\ <<>> \in Seq(CallType)
  BY DEF CallType
<1>6. CASE s.cur_size < 2 \/ f >= 0
  BY <1>5, <1>6 DEF app_focus_stack_top_change_broadcast, Result
<1>7. CASE ~ (s.cur_size < 2 \/ f >= 0)
  <2> DEFINE calls == [j \in 1 .. Len(s.list) |->
                          IF s.node_list[s.list[j]].focus_state = APP_FOCUS_STATE_STACK_TOP
                          THEN NULL
                          ELSE Call(TopNode(s), s.node_list[s.list[j]])]
  <2>1. app_focus_stack_top_change_broadcast(s, f).calls = calls
    BY <1>1, <1>7 DEF app_focus_stack_top_change_broadcast, Result
  <2>2. Len(s.list) >= 2
    BY <1>1, <1>7
  <2>3. calls \in [1 .. Len(s.list) -> CallType]
    BY <1>4, <1>5, <2>2
  <2>4. QED
    BY <1>1, <2>1, <2>3
<1>8. QED
  BY <1>6, <1>7

(* The callback of a delete is well formed.                                *)
LEMMA DeleteCalls ==
    ASSUME NEW s \in ST, StackShape(s), NEW id, NEW f \in Int
    PROVE  app_focus_stack_delete(s, id, f).calls \in Seq(CallType)
<1>1. /\ s.list \in Seq(Slots) /\ DOMAIN s.list = 1 .. Len(s.list) /\ Len(s.list) \in Nat
      /\ s.node_list \in [Slots -> FID] /\ s.cur_size = Len(s.list)
  BY StackFacts
<1>2. <<>> \in Seq(CallType)
  OBVIOUS
<1>3. ASSUME ~ app_focus_stack_is_empty(s)
      PROVE  app_focus_stack_pop(s, f).calls \in Seq(CallType)
  <2> DEFINE value == [s.node_list[s.list[1]] EXCEPT !.focus_state = APP_FOCUS_STATE_STACK_QUIT]
             nl    == [s.node_list EXCEPT ![s.list[2]].focus_state = APP_FOCUS_STATE_STACK_TOP]
  <2>1. CASE s.cur_size = 1
    BY <1>2, <1>3, <2>1 DEF app_focus_stack_pop, Result
  <2>2. CASE s.cur_size # 1
    <3>1. s.list[1] \in Slots /\ s.list[2] \in Slots
      <4>1. \A n \in Nat : n # 0 /\ n # 1 => 1 \in 1 .. n /\ 2 \in 1 .. n
        OBVIOUS
      <4>2. 1 \in 1 .. Len(s.list) /\ 2 \in 1 .. Len(s.list)
        BY <1>1, <1>3, <2>2, <4>1 DEF app_focus_stack_is_empty
      <4>3. QED
        BY <4>2, StackFacts
    <3>2. value \in FID
      BY <1>1, <3>1 DEF FID, FocusIds, FocusState
    <3>3. nl[s.list[2]] \in FID
      BY <1>1, <3>1 DEF FID, FocusIds, FocusState
    <3>4. app_focus_stack_pop(s, f).calls =
            app_focus_stack_change_callback(value, nl[s.list[2]], f)
      BY <1>3, <2>2 DEF app_focus_stack_pop, Result
    <3> HIDE DEF value, nl
    <3>5. Call(value, nl[s.list[2]]) \in CallType
      BY <3>2, <3>3 DEF Call, CallType
    <3>6. <<Call(value, nl[s.list[2]])>> \in Seq(CallType)
      BY <3>5
    <3>7. QED
      BY <1>2, <3>4, <3>6 DEF app_focus_stack_change_callback
  <2>3. QED
    BY <2>1, <2>2
<1>4. QED
  BY <1>2, <1>3 DEF app_focus_stack_delete, Result

-----------------------------------------------------------------------------

(* What media_focus_request_ can do to a stack: refuse and keep its        *)
(* requests, queue the new request in a free slot, or answer STOP with a   *)
(* handle that names no slot.                                              *)
RequestOutcome(s, level, cookie, a) ==
    /\ DaemonStack(a.s)
    /\ a.calls \in Seq(CallType)
    /\ \A i \in Range(s.list) : SameRequest(a.s.node_list[i], s.node_list[i])
    /\ \/ /\ a.handle = NULL
          /\ \A i \in Slots : a.s.node_list[i].client_id = s.node_list[i].client_id
       \/ /\ a.handle \in Slots /\ s.node_list[a.handle].client_id = -1
          /\ \A i \in Slots \ {a.handle} :
                a.s.node_list[i].client_id = s.node_list[i].client_id
          /\ a.s.node_list[a.handle].client_id = a.handle
          /\ a.s.node_list[a.handle].callback_argv = cookie
          /\ a.suggestion \in Suggestions
       \/ /\ a.handle \in Handles \ Slots /\ a.s = s
          /\ a.suggestion = MEDIA_FOCUS_STOP

(* The index the insertion looks for is an integer.                        *)
LEMMA InsertResult ==
    ASSUME NEW s \in ST, StackShape(s), NEW v
    PROVE  \E index \in Int : media_focus_focus_id_insert(s, v) = app_focus_stack_insert(s, v, index)
<1> DEFINE at == {j \in DOMAIN s.list : v.focus_level <= s.node_list[s.list[j]].focus_level}
<1>1. Len(s.list) \in Nat /\ DOMAIN s.list = 1 .. Len(s.list)
  BY ShapeFacts DEF ST
<1>2. at # {} => Min(at) \in Int
  <2>1. at \subseteq Nat
    BY <1>1
  <2>2. QED
    BY <2>1, MinNat
<1> DEFINE index == IF at = {} THEN Len(s.list) ELSE Min(at) - 1
<1>3. index \in Int
  BY <1>1, <1>2
<1>4. media_focus_focus_id_insert(s, v) = app_focus_stack_insert(s, v, index)
  BY DEF media_focus_focus_id_insert
<1> HIDE DEF index
<1>5. QED
  BY <1>3, <1>4

(* The states a stack with SameRequest nodes can be in.                    *)
LEMMA KeptDaemon ==
    ASSUME NEW s, DaemonStack(s), NEW r \in ST, StackShape(r),
           \A i \in Range(r.list) : i \in Range(s.list) /\ SameRequest(r.node_list[i], s.node_list[i])
    PROVE  DaemonStack(r)
BY DEF DaemonStack, SameRequest

LEMMA RequestStack ==
    ASSUME NEW s, DaemonStack(s), NEW level \in Levels \cup {UnknownStream},
           NEW cookie \in Cookies
    PROVE  RequestOutcome(s, level, cookie, media_focus_request_(s, level, cookie))
<1> DEFINE a        == media_focus_request_(s, level, cookie)
           valid_id == app_focus_free_client_id(s)
           new_id   == [client_id |-> valid_id, focus_level |-> level, thread_id |-> Daemon,
                        focus_state |-> APP_FOCUS_STATE_STACK_QUIT, callback_argv |-> cookie]
           empty    == app_focus_stack_is_empty(s)
           ret      == IF empty THEN MEDIA_FOCUS_PLAY
                       ELSE pro_inter[<<level, TopNode(s).focus_level>>]
           pushed   == app_focus_stack_push(s, new_id, BLOCK_CALLBACK_FLAG)
           inserted == media_focus_focus_id_insert(s, new_id)
<1>1. app_focus_stack_useless_clear(s, {Daemon}, NONBLOCK_CALLBACK_FLAG) = Result(s, <<>>, 0)
  <2>1. \A j \in DOMAIN s.list : s.node_list[s.list[j]].thread_id \in {Daemon}
    BY DEF DaemonStack, Range
  <2>2. QED
    BY <2>1, ClearNothing
<1>2. /\ app_focus_stack_useless_clear(s, {Daemon}, NONBLOCK_CALLBACK_FLAG).s = s
      /\ app_focus_stack_useless_clear(s, {Daemon}, NONBLOCK_CALLBACK_FLAG).calls = <<>>
      /\ <<>> \in Seq(CallType)
  BY <1>1 DEF Result
<1>3. s \in ST /\ StackShape(s)
      /\ \A i \in Slots : s.node_list[i].client_id = IF i \in Range(s.list) THEN i ELSE -1
  BY ShapeFacts DEF DaemonStack, ST
<1>4. CASE level = UnknownStream
  <2>1. a.s = s /\ a.handle = NULL /\ a.calls = <<>>
    BY <1>4 DEF media_focus_request_, Answer
  <2>2. QED
    BY <1>2, <2>1 DEF RequestOutcome, SameRequest
<1>5. CASE level # UnknownStream /\ valid_id < 0
  <2>1. a.s = s /\ a.handle = NULL /\ a.calls = <<>>
    BY <1>2, <1>5 DEF media_focus_request_, Answer
  <2>2. QED
    BY <1>2, <2>1 DEF RequestOutcome, SameRequest
<1>6. CASE level # UnknownStream /\ ~ (valid_id < 0)
  <2>1. valid_id \in Slots \cup {ENODATA}
    BY FreeClientIdType
  <2>2. valid_id >= 0
    BY <2>1, <1>6, MaxSizeAssumption DEF Slots, ENODATA
  <2>3. /\ valid_id \in Slots /\ s.node_list[valid_id].client_id = -1
        /\ ~ app_focus_stack_is_full(s)
    BY <2>2, FreeClientId
  <2>4. valid_id \notin Range(s.list)
    BY <1>3, <2>3, MaxSizeAssumption DEF Slots
  <2> HIDE DEF valid_id
  <2>5. new_id \in FID /\ new_id.client_id = valid_id
    BY <1>6, <2>3 DEF FID, FocusIds, FocusState
  <2>6. CASE ret = MEDIA_FOCUS_PLAY
    <3>1. /\ a.s = pushed.s /\ a.handle = valid_id /\ a.suggestion = MEDIA_FOCUS_PLAY
          /\ a.calls = <<>> \o (IF empty THEN <<>> ELSE
                 app_focus_stack_top_change_broadcast(pushed.s, NONBLOCK_CALLBACK_FLAG).calls)
      BY <1>2, <1>6, <2>6 DEF media_focus_request_, Answer, valid_id
    <3> DEFINE r == pushed.s
    <3>2. /\ r \in ST /\ StackShape(r)
          /\ SameRequest(r.node_list[valid_id], new_id)
          /\ \A i \in Slots \ {valid_id} : SameRequest(r.node_list[i], s.node_list[i])
      <4>1. BLOCK_CALLBACK_FLAG \in Int
        BY DEF BLOCK_CALLBACK_FLAG
      <4> HIDE DEF new_id
      <4>2. QED
        BY <4>1, <1>3, <2>3, <2>5, PushShape DEF ST, FID
    <3> HIDE DEF r
    <3>3. \A i \in Slots : r.node_list[i].client_id = IF i \in Range(r.list) THEN i ELSE -1
      BY <3>2, ShapeFacts DEF ST
    <3>4. Range(r.list) \subseteq Slots
      BY <3>2, ShapeFacts DEF ST
    <3>5. DaemonStack(r)
      <4>1. ASSUME NEW i \in Range(r.list)
            PROVE  r.node_list[i].thread_id = Daemon /\ r.node_list[i].callback_argv \in Cookies
        <5>1. CASE i = valid_id
          BY <5>1, <3>2 DEF SameRequest
        <5>2. CASE i # valid_id
          <6>1. i \in Slots /\ i # -1
            BY <3>4, MaxSizeAssumption DEF Slots
          <6>2. i \in Range(s.list)
            BY <6>1, <5>2, <1>3, <3>2, <3>3 DEF SameRequest
          <6>3. QED
            BY <6>1, <6>2, <5>2, <3>2 DEF SameRequest, DaemonStack
        <5>3. QED
          BY <5>1, <5>2
      <4>2. QED
        BY <4>1, <3>2 DEF DaemonStack
    <3>6. Range(s.list) \subseteq Slots
      BY <1>3, ShapeFacts DEF ST
    <3>7. a.calls \in Seq(CallType)
      <4>1. NONBLOCK_CALLBACK_FLAG \in Int
        BY DEF NONBLOCK_CALLBACK_FLAG
      <4>2. app_focus_stack_top_change_broadcast(r, NONBLOCK_CALLBACK_FLAG).calls \in Seq(CallType)
        BY <3>2, <4>1, BroadcastCalls
      <4>3. QED
        BY <1>2, <3>1, <4>2, ConcatProperties DEF r
    <3>8. QED
      BY <2>3, <2>4, <3>1, <3>2, <3>5, <3>6, <3>7 DEF r, RequestOutcome, SameRequest, Suggestions
  <2>7. CASE ret # MEDIA_FOCUS_PLAY
             /\ ret \in {MEDIA_FOCUS_PLAY_BUT_SILENT, MEDIA_FOCUS_PLAY_WITH_DUCK}
    <3>1. /\ a.s = inserted.s /\ a.calls = <<>>
          /\ a.handle = IF inserted.ret < 0 THEN NULL ELSE valid_id
          /\ inserted.ret < 0 \/ a.suggestion = ret
      BY <1>2, <1>6, <2>7 DEF media_focus_request_, Answer, valid_id
    <3>2. ~ empty
      BY <2>7
    <3> DEFINE r == inserted.s
    <3>3. /\ r \in ST /\ StackShape(r)
          /\ \/ inserted.ret = 0 /\ SameRequest(r.node_list[valid_id], new_id)
             \/ inserted.ret = ENOENT /\ r.node_list[valid_id].client_id = -1
          /\ \A i \in Slots \ {valid_id} : r.node_list[i] = s.node_list[i]
      <4> HIDE DEF new_id
      <4>1. PICK index \in Int : inserted = app_focus_stack_insert(s, new_id, index)
        BY <1>3, InsertResult
      <4>2. QED
        BY <1>3, <2>3, <2>5, <3>2, <4>1, ZeroLevel, InsertShape DEF ST, FID
    <3> HIDE DEF r
    <3>4. \A i \in Slots : r.node_list[i].client_id = IF i \in Range(r.list) THEN i ELSE -1
      BY <3>3, ShapeFacts DEF ST
    <3>5. Range(r.list) \subseteq Slots /\ Range(s.list) \subseteq Slots
      BY <1>3, <3>3, ShapeFacts DEF ST
    <3>6. DaemonStack(r)
      <4>1. ASSUME NEW i \in Range(r.list)
            PROVE  r.node_list[i].thread_id = Daemon /\ r.node_list[i].callback_argv \in Cookies
        <5>0. i \in Slots /\ i # -1
          BY <3>5, MaxSizeAssumption DEF Slots
        <5>1. CASE i = valid_id
          BY <5>0, <5>1, <3>3, <3>4 DEF SameRequest
        <5>2. CASE i # valid_id
          <6>1. i \in Range(s.list)
            BY <5>0, <5>2, <1>3, <3>3, <3>4
          <6>2. QED
            BY <5>0, <5>2, <6>1, <3>3 DEF DaemonStack
        <5>3. QED
          BY <5>1, <5>2
      <4>2. QED
        BY <4>1, <3>3 DEF DaemonStack
    <3>7. QED
      BY <1>2, <2>3, <2>4, <2>7, <3>1, <3>3, <3>5, <3>6, SMTT(60)
      DEF r, RequestOutcome, SameRequest, Suggestions, ENOENT
  <2>8. CASE ret # MEDIA_FOCUS_PLAY
             /\ ret \notin {MEDIA_FOCUS_PLAY_BUT_SILENT, MEDIA_FOCUS_PLAY_WITH_DUCK}
    <3>1. /\ a.s = s /\ a.handle = StopId(valid_id) /\ a.suggestion = MEDIA_FOCUS_STOP
          /\ a.calls = <<>>
      BY <1>2, <1>6, <2>8 DEF media_focus_request_, Answer, valid_id
    <3>2. StopId(valid_id) \in Handles \ Slots
      BY <2>3, MaxSizeAssumption DEF StopId, Handles, Slots
    <3>3. QED
      BY <1>2, <3>1, <3>2 DEF RequestOutcome, SameRequest
  <2>9. QED
    BY <2>6, <2>7, <2>8
<1>7. QED
  BY <1>4, <1>5, <1>6
(* What media_focus_abandon_ can do to a stack: drop the request the       *)
(* handle names, if there is one, and nothing else.                        *)
AbandonOutcome(s, handle, r) ==
    /\ DaemonStack(r.s)
    /\ r.calls \in Seq(CallType)
    /\ \A i \in Slots : i # handle => SameRequest(r.s.node_list[i], s.node_list[i])
    /\ handle \in Range(s.list) => r.s.node_list[handle] = FreeNode
    /\ handle \notin Range(s.list) => r.s = s

LEMMA AbandonStack ==
    ASSUME NEW s, DaemonStack(s), NEW handle \in Handles \cup {NULL}
    PROVE  AbandonOutcome(s, handle, media_focus_abandon_(s, handle))
<1> DEFINE a       == media_focus_abandon_(s, handle)
           deleted == app_focus_stack_delete(s, handle, NONBLOCK_CALLBACK_FLAG)
           spread  == app_focus_stack_top_change_broadcast(deleted.s, NONBLOCK_CALLBACK_FLAG)
<1>1. app_focus_stack_useless_clear(s, {Daemon}, NONBLOCK_CALLBACK_FLAG) = Result(s, <<>>, 0)
  <2>1. \A j \in DOMAIN s.list : s.node_list[s.list[j]].thread_id \in {Daemon}
    BY DEF DaemonStack, Range
  <2>2. QED
    BY <2>1, ClearNothing
<1>2. /\ app_focus_stack_useless_clear(s, {Daemon}, NONBLOCK_CALLBACK_FLAG).s = s
      /\ app_focus_stack_useless_clear(s, {Daemon}, NONBLOCK_CALLBACK_FLAG).calls = <<>>
      /\ <<>> \in Seq(CallType)
  BY <1>1 DEF Result
<1>3. s \in ST /\ StackShape(s) /\ NONBLOCK_CALLBACK_FLAG \in Int
  BY DEF DaemonStack, NONBLOCK_CALLBACK_FLAG
<1>4. /\ Range(s.list) \subseteq Slots
      /\ \A i \in Slots : s.node_list[i].client_id = IF i \in Range(s.list) THEN i ELSE -1
  BY <1>3, ShapeFacts DEF ST
<1>5. CASE handle = NULL
  <2>1. a.s = s /\ a.calls = <<>>
    BY <1>5 DEF media_focus_abandon_, Result
  <2>2. handle \notin Range(s.list)
    BY <1>4, <1>5, NullAssumption, MaxSizeAssumption DEF Slots
  <2>3. QED
    BY <1>2, <2>1, <2>2 DEF AbandonOutcome, SameRequest
<1>6. CASE handle # NULL /\ app_focus_stack_is_empty(s)
  <2>1. a.s = s /\ a.calls = <<>>
    BY <1>2, <1>6 DEF media_focus_abandon_, Result
  <2>2. handle \notin Range(s.list)
    <3>1. Len(s.list) = 0 /\ DOMAIN s.list = 1 .. Len(s.list)
      BY <1>3, <1>6, StackFacts DEF app_focus_stack_is_empty
    <3>2. QED
      BY <3>1 DEF Range
  <2>3. QED
    BY <1>2, <2>1, <2>2 DEF AbandonOutcome, SameRequest
<1>7. CASE handle # NULL /\ ~ app_focus_stack_is_empty(s)
  <2>1. handle \in Nat
    BY <1>7, MaxSizeAssumption DEF Handles
  <2>2. a.s = deleted.s
    BY <1>2, <1>7 DEF media_focus_abandon_, Result
  <2>3. \/ a.calls = <<>> \o deleted.calls \o spread.calls
        \/ a.calls = <<>> \o deleted.calls
    BY <1>2, <1>7 DEF media_focus_abandon_, Result
  <2> DEFINE r == deleted.s
  <2>4. /\ r \in ST /\ StackShape(r)
        /\ handle \in Range(s.list) => r.node_list[handle] = FreeNode
        /\ \A i \in Slots : i # handle => SameRequest(r.node_list[i], s.node_list[i])
        /\ handle \notin Range(s.list) => r = s
    BY <1>3, <2>1, ZeroLevel, DeleteShape DEF ST
  <2>5. deleted.calls \in Seq(CallType)
    BY <1>3, DeleteCalls
  <2>6. spread.calls \in Seq(CallType)
    <3> HIDE DEF deleted
    <3>1. QED
      BY <1>3, <2>4, BroadcastCalls
  <2> HIDE DEF a, r, deleted, spread
  <2>7. a.calls \in Seq(CallType)
    <3>1. <<>> \o deleted.calls \in Seq(CallType)
      BY <1>2, <2>5, ConcatProperties
    <3>2. <<>> \o deleted.calls \o spread.calls \in Seq(CallType)
      BY <3>1, <2>6, ConcatProperties
    <3>3. QED
      BY <2>3, <3>1, <3>2
  <2>8. ASSUME NEW i \in Range(r.list)
        PROVE  i \in Range(s.list) /\ SameRequest(r.node_list[i], s.node_list[i])
    <3>1. i \in Slots /\ r.node_list[i].client_id = i /\ i # -1
      <4>1. /\ Range(r.list) \subseteq Slots
            /\ \A n \in Slots : r.node_list[n].client_id = IF n \in Range(r.list) THEN n ELSE -1
        BY <2>4, ShapeFacts DEF ST
      <4>2. i \in Slots /\ r.node_list[i].client_id = i
        BY <4>1
      <4>3. QED
        BY <4>2, MaxSizeAssumption DEF Slots
    <3>2. i # handle \/ r = s
      BY <2>4, <3>1 DEF FreeNode
    <3>3. QED
      BY <1>4, <2>4, <3>1, <3>2 DEF SameRequest
  <2>9. DaemonStack(r)
    BY <2>4, <2>8, KeptDaemon
  <2>10. QED
    BY <2>2, <2>4, <2>7, <2>9 DEF AbandonOutcome, r, a
<1>8. QED
  BY <1>5, <1>6, <1>7
-----------------------------------------------------------------------------

(***************************************************************************)
(* Types and the shape of the stack.                                       *)
(***************************************************************************)

TypeInv == TypeOK /\ DaemonStack(stack)

LEMMA TypeInit == Init => TypeInv
<1> SUFFICES ASSUME Init PROVE TypeInv
  OBVIOUS
<1>1. app_focus_stack_init \in ST /\ StackShape(app_focus_stack_init)
  BY ZeroLevel, InitShape DEF ST
<1>2. stack = app_focus_stack_init /\ stack.list = <<>>
  BY DEF Init, app_focus_stack_init
<1>3. Range(stack.list) = {}
  BY <1>2 DEF Range
<1>4. DaemonStack(stack)
  BY <1>1, <1>2, <1>3 DEF DaemonStack
<1>5. ZeroConn \in ConnType(Handles)
  BY DEF ZeroConn, ConnType
<1>6. TypeOK
  BY <1>1, <1>2, <1>5 DEF TypeOK, Init, ST, Phases
<1>7. QED
  BY <1>4, <1>6 DEF TypeInv

(* The operations on a connection entry keep its type.                     *)
LEMMA ConnOperations ==
    ASSUME NEW conn \in ConnType(Handles), NEW c \in Clients, NEW ok \in BOOLEAN,
           NEW data \in Handles
    PROVE  /\ media_server_conn_init(conn, c) \in ConnType(Handles)
           /\ media_server_create_notify(conn, c, ok) \in ConnType(Handles)
           /\ media_server_set_data(conn, data) \in ConnType(Handles)
           /\ media_server_finalize(conn) \in ConnType(Handles)
           /\ media_server_conn_close(conn) \in ConnType(Handles)
BY DEF ConnType, media_server_conn_init, media_server_create_notify, media_server_set_data,
       media_server_finalize, media_server_conn_close

(* The arbiter's types and the shape of its stack are preserved.           *)
LEMMA TypeNext == TypeInv /\ [Next]_vars => TypeInv'
<1> SUFFICES ASSUME TypeInv, [Next]_vars PROVE TypeInv'
  OBVIOUS
<1> USE DEF TypeInv
<1>0. 0 \in Handles
  BY MaxSizeAssumption DEF Handles
<1>1. ASSUME NEW c \in Clients, media_server_accept(c)
      PROVE  TypeInv'
  <2>1. PICK k \in Cookies :
           conns' = [conns EXCEPT ![k] = media_server_conn_init(conns[k], c)]
    BY <1>1 DEF media_server_accept, AcceptEntry
  <2>2. media_server_conn_init(conns[k], c) \in ConnType(Handles)
    BY <1>0, ConnOperations DEF TypeOK
  <2>3. QED
    BY <1>1, <2>1, <2>2 DEF media_server_accept, TypeOK, Phases
<1>2. ASSUME NEW c \in Clients, NEW k \in Cookies, NEW ok \in BOOLEAN, CreateNotify(c, k, ok)
      PROVE  TypeInv'
  <2>1. media_server_create_notify(conns[k], c, ok) \in ConnType(Handles)
    BY <1>0, ConnOperations DEF TypeOK
  <2>2. QED
    BY <1>2, <2>1 DEF CreateNotify, TypeOK, Phases
<1>3. ASSUME NEW c \in Clients, NEW k \in Cookies, NEW level \in Levels \cup {UnknownStream},
             Request(c, k, level)
      PROVE  TypeInv'
  <2> DEFINE a == media_focus_request_(stack, level, k)
  <2>1. RequestOutcome(stack, level, k, a)
    BY RequestStack
  <2>2. /\ stack' = a.s
        /\ conns' = IF a.handle = NULL THEN conns
                    ELSE [conns EXCEPT ![k] = media_server_set_data(conns[k], a.handle)]
        /\ phase' = [phase EXCEPT ![c] = IF a.handle = NULL THEN "refused" ELSE "requested"]
        /\ told' = [media_focus_notify_cb(told, conns, a.calls)
                       EXCEPT ![c] = IF a.handle = NULL THEN @ ELSE a.suggestion]
        /\ owner' = IF a.handle = NULL \/ a.handle \notin Slots THEN owner
                    ELSE [owner EXCEPT ![a.handle] = c]
        /\ alive' = alive
    BY <1>3 DEF Request
  <2> HIDE DEF a
  <2>3. DaemonStack(stack') /\ stack' \in ST /\ a.calls \in Seq(CallType)
    BY <2>1, <2>2 DEF RequestOutcome, DaemonStack
  <2>4. a.handle # NULL => a.handle \in Handles
    BY <2>1, MaxSizeAssumption DEF RequestOutcome, Handles, Slots
  <2>5. conns' \in [Cookies -> ConnType(Handles)]
    <3>1. a.handle # NULL => media_server_set_data(conns[k], a.handle) \in ConnType(Handles)
      BY <2>4, ConnOperations DEF TypeOK
    <3>2. QED
      BY <2>2, <3>1 DEF TypeOK
  <2>6. told' \in [Clients -> Suggestions \cup {NULL}]
    <3>1. a.handle # NULL => a.suggestion \in Suggestions
      BY <2>1 DEF RequestOutcome, Suggestions
    <3>2. media_focus_notify_cb(told, conns, a.calls) \in [Clients -> Suggestions \cup {NULL}]
      BY <2>3, NotifyType DEF TypeOK
    <3>3. QED
      BY <2>2, <3>1, <3>2
  <2>7. owner' \in [Slots -> Clients \cup {NULL}]
    BY <2>2 DEF TypeOK
  <2>8. phase' \in [Clients -> Phases] /\ alive' \subseteq Clients
    BY <2>2 DEF TypeOK, Phases
  <2>9. QED
    BY <2>3, <2>5, <2>6, <2>7, <2>8 DEF TypeOK, ST
<1>4. ASSUME NEW c \in Clients, NEW k \in Cookies, Abandon(c, k)
      PROVE  TypeInv'
  <2> DEFINE handle == media_server_get_data(conns[k])
             r      == media_focus_abandon_(stack, handle)
  <2>1. handle \in Handles \cup {NULL}
    BY DEF TypeOK, ConnType, media_server_get_data
  <2>2. AbandonOutcome(stack, handle, r)
    <3> HIDE DEF handle
    <3>1. QED
      BY <2>1, AbandonStack
  <2>3. /\ conns' = [conns EXCEPT ![k] = media_server_finalize(conns[k])]
        /\ stack' = r.s
        /\ told' = media_focus_notify_cb(told, conns', r.calls)
        /\ owner' = [i \in Slots |->
                       IF r.s.node_list[i].client_id = -1 THEN NULL ELSE owner[i]]
        /\ phase' = [phase EXCEPT ![c] = "abandoned"]
        /\ alive' = alive
    BY <1>4 DEF Abandon
  <2> HIDE DEF r, handle
  <2>4. DaemonStack(stack') /\ stack' \in ST /\ r.calls \in Seq(CallType)
    BY <2>2, <2>3 DEF AbandonOutcome, DaemonStack
  <2>5. conns' \in [Cookies -> ConnType(Handles)]
    <3>1. media_server_finalize(conns[k]) \in ConnType(Handles)
      BY <1>0, ConnOperations DEF TypeOK
    <3>2. QED
      BY <2>3, <3>1 DEF TypeOK
  <2>6. told' \in [Clients -> Suggestions \cup {NULL}]
    BY <2>3, <2>4, NotifyType DEF TypeOK
  <2>7. owner' \in [Slots -> Clients \cup {NULL}]
    BY <2>3 DEF TypeOK
  <2>8. phase' \in [Clients -> Phases] /\ alive' \subseteq Clients
    BY <2>3 DEF TypeOK, Phases
  <2>9. QED
    BY <2>4, <2>5, <2>6, <2>7, <2>8 DEF TypeOK, ST
<1>5. ASSUME NEW c \in Clients, Die(c)
      PROVE  TypeInv'
  BY <1>5 DEF Die, TypeOK
<1>6. ASSUME NEW c \in Clients, NEW k \in Cookies, Hangup(c, k)
      PROVE  TypeInv'
  <2>1. media_server_conn_close(conns[k]) \in ConnType(Handles)
    BY <1>0, ConnOperations DEF TypeOK
  <2>2. QED
    BY <1>6, <2>1 DEF Hangup, TypeOK, Phases
<1>7. CASE UNCHANGED vars
  BY <1>7 DEF vars, TypeOK
<1>8. QED
  BY <1>1, <1>2, <1>3, <1>4, <1>5, <1>6, <1>7 DEF Next

(* In every behaviour of the arbiter, whatever the number of clients, the  *)
(* depth of the stack and the interaction matrix, every variable keeps its *)
(* type: a stack position never leaves node_list and a suggestion sent to  *)
(* a client is always one of media_defs.h.                                 *)
THEOREM TypeCorrect == Spec => []TypeOK
<1>1. TypeInv => TypeOK
  BY DEF TypeInv
<1>2. QED
  BY <1>1, TypeInit, TypeNext, PTL DEF Spec

(* The list, the array, the counter and the node states of the focus stack *)
(* agree after every sequence of requests and abandons: exactly one        *)
(* focus, the head of the list, is TOP.                                    *)
THEOREM StackWellFormed == Spec => []FocusStackShape
<1>1. TypeInv => FocusStackShape
  BY DEF TypeInv, DaemonStack, FocusStackShape
<1>2. QED
  BY <1>1, TypeInit, TypeNext, PTL DEF Spec
-----------------------------------------------------------------------------

(***************************************************************************)
(* Who owns a focus.  HandleIsOwn is not inductive: it needs that two      *)
(* entries are never connected to the same client, that a connected client *)
(* is not idle, and that a queued focus has an owner.                      *)
(***************************************************************************)

ConnUnique ==
    \A k, j \in Cookies : Open(conns[k].tran_fd) /\ conns[k].tran_fd = conns[j].tran_fd => k = j

ConnectedNotIdle ==
    \A k \in Cookies, c \in Clients : conns[k].tran_fd = c => phase[c] # "idle"

Owned == \A i \in Range(stack.list) : owner[i] \in Clients

OwnInv == TypeInv /\ ConnUnique /\ ConnectedNotIdle /\ Owned /\ HandleIsOwn

\* The fields of a connection entry after each operation.
LEMMA ConnFields ==
    ASSUME NEW conn \in ConnType(Handles), NEW c, NEW ok, NEW data
    PROVE  /\ media_server_conn_init(conn, c).tran_fd = c
           /\ media_server_conn_init(conn, c).data = NULL
           /\ media_server_conn_init(conn, c).notify_fd = conn.notify_fd
           /\ media_server_create_notify(conn, c, ok).tran_fd = conn.tran_fd
           /\ media_server_create_notify(conn, c, ok).data = conn.data
           /\ media_server_create_notify(conn, c, ok).notify_fd = (IF ok THEN c ELSE NULL)
           /\ media_server_set_data(conn, data).tran_fd = conn.tran_fd
           /\ media_server_set_data(conn, data).data = data
           /\ media_server_set_data(conn, data).notify_fd = conn.notify_fd
           /\ media_server_finalize(conn).tran_fd = conn.tran_fd
           /\ ~ Open(media_server_finalize(conn).notify_fd)
           /\ media_server_conn_close(conn).tran_fd = CLOSED
           /\ media_server_conn_close(conn).notify_fd = conn.notify_fd
BY FdAssumption
DEF ConnType, media_server_conn_init, media_server_create_notify, media_server_set_data,
    media_server_finalize, media_server_conn_close, Open

\* In a well-formed stack the queued slots are the occupied ones.
LEMMA Queued ==
    ASSUME NEW s, DaemonStack(s)
    PROVE  /\ Range(s.list) \subseteq Slots
           /\ \A i \in Slots : s.node_list[i].client_id = IF i \in Range(s.list) THEN i ELSE -1
           /\ \A i \in Slots : i # -1
           /\ \A i \in Slots : i \in Range(s.list) <=> s.node_list[i].client_id # -1
           /\ \A i \in Range(s.list) : s.node_list[i].callback_argv \in Cookies
<1>1. /\ Range(s.list) \subseteq Slots
      /\ \A i \in Slots : s.node_list[i].client_id = IF i \in Range(s.list) THEN i ELSE -1
  BY ShapeFacts DEF DaemonStack, ST
<1>2. \A i \in Slots : i # -1
  BY MaxSizeAssumption DEF Slots
<1>3. QED
  BY <1>1, <1>2 DEF DaemonStack

LEMMA OwnInit == Init => OwnInv
<1> SUFFICES ASSUME Init PROVE OwnInv
  OBVIOUS
<1>1. TypeInv
  BY TypeInit
<1>2. stack.list = <<>> /\ Range(stack.list) = {}
  BY DEF Init, app_focus_stack_init, Range
<1>3. \A k \in Cookies : conns[k].tran_fd = NULL /\ ~ Open(conns[k].tran_fd)
  BY FdAssumption DEF Init, ZeroConn, Open
<1>4. QED
  BY <1>1, <1>2, <1>3, FdAssumption
  DEF OwnInv, ConnUnique, ConnectedNotIdle, Owned, HandleIsOwn, Open

\* A new connection: nothing of the client was left in the server.
LEMMA OwnAccept ==
    ASSUME OwnInv, NEW c \in Clients, media_server_accept(c)
    PROVE  (ConnUnique /\ ConnectedNotIdle /\ Owned /\ HandleIsOwn)'
<1> USE DEF Open
<1>1. PICK k \in Cookies :
         conns' = [conns EXCEPT ![k] = media_server_conn_init(conns[k], c)]
  BY DEF media_server_accept, AcceptEntry
<1>2. /\ conns'[k].tran_fd = c /\ conns'[k].data = NULL
      /\ \A j \in Cookies \ {k} : conns'[j] = conns[j]
  BY <1>1, ConnFields DEF OwnInv, TypeInv, TypeOK
<1>3. /\ phase'[c] = "connected" /\ \A d \in Clients \ {c} : phase'[d] = phase[d]
      /\ UNCHANGED <<stack, owner>>
  BY DEF media_server_accept, OwnInv, TypeInv, TypeOK
<1>4. \A j \in Cookies : conns[j].tran_fd # c
  BY DEF media_server_accept, Remnant
<1>5. \A i \in Range(stack.list) : owner[i] # c /\ owner[i] \in Clients
                                   /\ stack.node_list[i].callback_argv \in Cookies
  BY Queued DEF media_server_accept, Remnant, OwnInv, TypeInv, Owned
<1>6. ConnUnique' /\ ConnectedNotIdle'
  BY <1>2, <1>3, <1>4 DEF OwnInv, ConnUnique, ConnectedNotIdle
<1>7. Owned'
  BY <1>3 DEF OwnInv, Owned
<1>8. HandleIsOwn'
  BY <1>2, <1>3, <1>4, <1>5 DEF OwnInv, HandleIsOwn
<1>9. QED
  BY <1>6, <1>7, <1>8

\* The notification socket is in no part of OwnInv.
LEMMA OwnCreateNotify ==
    ASSUME OwnInv, NEW c \in Clients, NEW k \in Cookies, NEW ok \in BOOLEAN,
           CreateNotify(c, k, ok)
    PROVE  (ConnUnique /\ ConnectedNotIdle /\ Owned /\ HandleIsOwn)'
<1> USE DEF Open
<1>1. \A j \in Cookies : conns'[j].tran_fd = conns[j].tran_fd /\ conns'[j].data = conns[j].data
  BY ConnFields DEF CreateNotify, OwnInv, TypeInv, TypeOK
<1>2. /\ phase[c] = "connected" /\ phase'[c] = "listening"
      /\ \A d \in Clients \ {c} : phase'[d] = phase[d]
      /\ UNCHANGED <<stack, owner>>
  BY DEF CreateNotify, OwnInv, TypeInv, TypeOK
<1>3. \A i \in Range(stack.list) : owner[i] \in Clients
                                   /\ stack.node_list[i].callback_argv \in Cookies
  BY Queued DEF OwnInv, TypeInv, Owned
<1>4. ConnUnique' /\ ConnectedNotIdle'
  BY <1>1, <1>2 DEF OwnInv, ConnUnique, ConnectedNotIdle
<1>5. Owned'
  BY <1>2 DEF OwnInv, Owned
<1>6. HandleIsOwn'
  BY <1>1, <1>2, <1>3 DEF OwnInv, HandleIsOwn
<1>7. QED
  BY <1>4, <1>5, <1>6

\* The end of a connection: by ConnUnique no other entry is the client's.
LEMMA OwnHangup ==
    ASSUME OwnInv, NEW c \in Clients, NEW k \in Cookies, Hangup(c, k)
    PROVE  (ConnUnique /\ ConnectedNotIdle /\ Owned /\ HandleIsOwn)'
<1> USE DEF Open
<1>1. conns'[k].tran_fd = CLOSED /\ \A j \in Cookies \ {k} : conns'[j] = conns[j]
  BY ConnFields DEF Hangup, OwnInv, TypeInv, TypeOK
<1>2. /\ conns[k].tran_fd = c /\ \A d \in Clients \ {c} : phase'[d] = phase[d]
      /\ UNCHANGED <<stack, owner>>
  BY DEF Hangup, OwnInv, TypeInv, TypeOK
<1>3. \A i \in Range(stack.list) : owner[i] \in Clients
                                   /\ stack.node_list[i].callback_argv \in Cookies
  BY Queued DEF OwnInv, TypeInv, Owned
<1>4. \A j \in Cookies \ {k} : conns[j].tran_fd # c
  BY <1>2 DEF OwnInv, ConnUnique
<1>5. ConnUnique' /\ ConnectedNotIdle'
  BY <1>1, <1>2, <1>4, FdAssumption DEF OwnInv, ConnUnique, ConnectedNotIdle
<1>6. Owned'
  BY <1>2 DEF OwnInv, Owned
<1>7. HandleIsOwn'
  BY <1>1, <1>2, <1>3, <1>4, FdAssumption DEF OwnInv, HandleIsOwn
<1>8. QED
  BY <1>5, <1>6, <1>7
\* A request: the slot it takes was free, and its connection had no handle.
LEMMA OwnRequest ==
    ASSUME OwnInv, NEW c \in Clients, NEW k \in Cookies,
           NEW level \in Levels \cup {UnknownStream}, Request(c, k, level)
    PROVE  (ConnUnique /\ ConnectedNotIdle /\ Owned /\ HandleIsOwn)'
<1> USE DEF Open
<1> DEFINE a == media_focus_request_(stack, level, k)
           h == a.handle
<1>1. RequestOutcome(stack, level, k, a)
  BY RequestStack DEF OwnInv, TypeInv
<1>2. /\ stack' = a.s
      /\ conns' = IF h = NULL THEN conns
                  ELSE [conns EXCEPT ![k] = media_server_set_data(conns[k], h)]
      /\ phase' = [phase EXCEPT ![c] = IF h = NULL THEN "refused" ELSE "requested"]
      /\ owner' = IF h = NULL \/ h \notin Slots THEN owner ELSE [owner EXCEPT ![h] = c]
      /\ phase[c] = "listening" /\ conns[k].tran_fd = c
  BY DEF Request
<1> HIDE DEF a
<1>3. /\ \A i \in Range(stack.list) : SameRequest(stack'.node_list[i], stack.node_list[i])
      /\ DaemonStack(stack) /\ DaemonStack(stack')
      /\ \/ /\ h = NULL
            /\ \A i \in Slots : stack'.node_list[i].client_id = stack.node_list[i].client_id
         \/ /\ h \in Slots /\ stack.node_list[h].client_id = -1 /\ h # NULL
            /\ \A i \in Slots \ {h} :
                  stack'.node_list[i].client_id = stack.node_list[i].client_id
            /\ stack'.node_list[h].client_id = h
            /\ stack'.node_list[h].callback_argv = k
         \/ h \notin Slots /\ h # NULL /\ stack' = stack
  BY <1>1, <1>2, NullAssumption, MaxSizeAssumption
  DEF RequestOutcome, OwnInv, TypeInv, Slots, Handles
<1>4. /\ \A j \in Cookies : conns'[j].tran_fd = conns[j].tran_fd
      /\ \A j \in Cookies \ {k} : conns'[j].data = conns[j].data
      /\ conns'[k].data = IF h = NULL THEN conns[k].data ELSE h
  BY <1>2, ConnFields DEF OwnInv, TypeInv, TypeOK
<1>5. /\ phase'[c] = (IF h = NULL THEN "refused" ELSE "requested")
      /\ \A d \in Clients \ {c} : phase'[d] = phase[d]
  BY <1>2 DEF OwnInv, TypeInv, TypeOK
<1>6. \A j \in Cookies \ {k} : conns[j].tran_fd # c
  BY <1>2 DEF OwnInv, ConnUnique
<1>7. conns[k].data = NULL
  BY <1>2 DEF OwnInv, HandleIsOwn
<1> HIDE DEF h
<1>8. \A i \in Slots : /\ i \in Range(stack.list) => i # h /\ i \in Range(stack'.list)
                       /\ i \in Range(stack'.list) /\ i # h => i \in Range(stack.list)
                       /\ i = h => i \in Range(stack'.list)
                       /\ i # h => owner'[i] = owner[i]
                       /\ i = h => owner'[i] = c
  <2>1. \A i \in Slots : /\ i \in Range(stack.list) <=> stack.node_list[i].client_id # -1
                         /\ i \in Range(stack'.list) <=> stack'.node_list[i].client_id # -1
                         /\ i # -1
    BY <1>3, Queued
  <2>2. owner \in [Slots -> Clients \cup {NULL}]
    BY DEF OwnInv, TypeInv, TypeOK
  <2>3. \A i \in Slots : i # NULL
    BY NullAssumption, MaxSizeAssumption DEF Slots
  <2>4. \A i \in Slots : /\ i # h => owner'[i] = owner[i]
                         /\ i = h => owner'[i] = c
    BY <1>2, <2>2, <2>3
  <2>5. QED
    BY <1>3, <2>1, <2>3, <2>4
<1>9. /\ Range(stack.list) \subseteq Slots /\ Range(stack'.list) \subseteq Slots
      /\ \A i \in Range(stack'.list) : stack'.node_list[i].callback_argv \in Cookies
  BY <1>3, Queued
<1>10. ConnUnique' /\ ConnectedNotIdle'
  BY <1>4, <1>5 DEF OwnInv, ConnUnique, ConnectedNotIdle
<1>11. Owned'
  BY <1>8, <1>9 DEF OwnInv, Owned
<1>12. ASSUME NEW j \in Cookies, NEW d \in Clients, conns'[j].tran_fd = d
       PROVE  /\ phase'[d] \in {"connected", "listening", "refused"} => conns'[j].data = NULL
              /\ phase'[d] = "requested" /\ conns'[j].data \in Slots =>
                    conns'[j].data \in Range(stack'.list) /\ owner'[conns'[j].data] = d
  <2>1. CASE j = k
    <3>1. d = c
      BY <1>2, <1>4, <1>12, <2>1
    <3>2. QED
      BY <3>1, <2>1, <1>4, <1>5, <1>7, <1>8
  <2>2. CASE j # k
    <3>1. d # c /\ conns[j].tran_fd = d /\ conns'[j].data = conns[j].data
          /\ phase'[d] = phase[d]
      BY <2>2, <1>4, <1>5, <1>6, <1>12
    <3>2. /\ phase[d] \in {"connected", "listening", "refused"} => conns[j].data = NULL
          /\ phase[d] = "requested" /\ conns[j].data \in Slots =>
                    conns[j].data \in Range(stack.list) /\ owner[conns[j].data] = d
      BY <3>1 DEF OwnInv, HandleIsOwn
    <3>3. QED
      BY <3>1, <3>2, <1>8
  <2>3. QED
    BY <2>1, <2>2
<1>13. ASSUME NEW i \in Range(stack'.list),
              conns'[stack'.node_list[i].callback_argv].tran_fd = owner'[i]
       PROVE  /\ phase'[owner'[i]] = "requested"
              /\ conns'[stack'.node_list[i].callback_argv].data = i
  <2>1. i \in Slots
    BY <1>9
  <2>2. CASE i = h
    <3>1. h \in Slots /\ h # NULL /\ stack'.node_list[h].callback_argv = k
      BY <1>3, <2>1, <2>2, NullAssumption, MaxSizeAssumption DEF Slots
    <3>2. QED
      BY <3>1, <2>1, <2>2, <1>4, <1>5, <1>8
  <2>3. CASE i # h
    <3>1. i \in Range(stack.list) /\ owner'[i] = owner[i] /\ owner[i] \in Clients
      BY <2>1, <2>3, <1>8 DEF OwnInv, Owned
    <3>2. /\ stack'.node_list[i].callback_argv = stack.node_list[i].callback_argv
          /\ stack.node_list[i].callback_argv \in Cookies
      BY <3>1, <1>3, <1>9 DEF SameRequest
    <3>3. /\ phase[owner[i]] = "requested"
          /\ conns[stack.node_list[i].callback_argv].data = i
      BY <1>4, <1>13, <3>1, <3>2 DEF OwnInv, HandleIsOwn
    <3>4. owner[i] # c
      BY <1>2, <3>3
    <3>5. stack.node_list[i].callback_argv # k
      BY <1>2, <1>4, <1>13, <3>1, <3>2, <3>4
    <3>6. QED
      BY <1>4, <1>5, <3>1, <3>2, <3>3, <3>4, <3>5
  <2>4. QED
    BY <2>2, <2>3
<1>14. HandleIsOwn'
  BY <1>12, <1>13 DEF HandleIsOwn
<1>15. QED
  BY <1>10, <1>11, <1>14
\* What an abandon removes: nothing, or exactly the requester's own focus.
LEMMA AbandonRemoves ==
    ASSUME OwnInv, NEW c \in Clients, NEW k \in Cookies, Abandon(c, k)
    PROVE  /\ DaemonStack(stack) /\ DaemonStack(stack')
           /\ \A i \in Slots : i # conns[k].data => SameRequest(stack'.node_list[i], stack.node_list[i])
           /\ conns[k].data \in Range(stack.list) =>
                 /\ stack'.node_list[conns[k].data] = FreeNode
                 /\ phase[c] = "requested" /\ owner[conns[k].data] = c
           /\ conns[k].data \notin Range(stack.list) => stack' = stack
           /\ \A i \in Slots : owner'[i] = IF stack'.node_list[i].client_id = -1 THEN NULL
                                             ELSE owner[i]
           /\ phase'[c] = "abandoned" /\ \A d \in Clients \ {c} : phase'[d] = phase[d]
<1> DEFINE h == conns[k].data
           r == media_focus_abandon_(stack, h)
<1>1. h \in Handles \cup {NULL}
  BY DEF OwnInv, TypeInv, TypeOK, ConnType
<1>2. AbandonOutcome(stack, h, r)
  <2> HIDE DEF h
  <2>1. QED
    BY <1>1, AbandonStack DEF OwnInv, TypeInv
<1>3. /\ stack' = r.s
      /\ owner' = [i \in Slots |-> IF r.s.node_list[i].client_id = -1 THEN NULL ELSE owner[i]]
      /\ phase' = [phase EXCEPT ![c] = "abandoned"]
      /\ phase[c] \in {"connected", "listening", "requested", "refused"}
      /\ conns[k].tran_fd = c
  BY DEF Abandon, media_server_get_data
<1>4. ASSUME h \in Range(stack.list)
      PROVE  phase[c] = "requested" /\ owner[h] = c
  <2>1. h \in Slots /\ h # NULL
    BY <1>4, Queued, NullAssumption, MaxSizeAssumption DEF OwnInv, TypeInv, Slots
  <2>2. phase[c] = "requested"
    BY <1>3, <2>1 DEF OwnInv, HandleIsOwn
  <2>3. QED
    BY <1>3, <2>1, <2>2 DEF OwnInv, HandleIsOwn
<1> HIDE DEF r
<1>5. phase'[c] = "abandoned" /\ \A d \in Clients \ {c} : phase'[d] = phase[d]
  BY <1>3 DEF OwnInv, TypeInv, TypeOK
<1>6. QED
  BY <1>2, <1>3, <1>4, <1>5 DEF AbandonOutcome, OwnInv, TypeInv

\* An abandon: the handle of the connection names its own client's focus.
LEMMA OwnAbandon ==
    ASSUME OwnInv, NEW c \in Clients, NEW k \in Cookies, Abandon(c, k)
    PROVE  (ConnUnique /\ ConnectedNotIdle /\ Owned /\ HandleIsOwn)'
<1> USE DEF Open
<1> DEFINE h == conns[k].data
<1>1. /\ DaemonStack(stack) /\ DaemonStack(stack')
      /\ \A i \in Slots : i # h => SameRequest(stack'.node_list[i], stack.node_list[i])
      /\ h \in Range(stack.list) => /\ stack'.node_list[h] = FreeNode
                                    /\ phase[c] = "requested" /\ owner[h] = c
      /\ h \notin Range(stack.list) => stack' = stack
      /\ \A i \in Slots : owner'[i] = IF stack'.node_list[i].client_id = -1 THEN NULL
                                        ELSE owner[i]
      /\ phase'[c] = "abandoned" /\ \A d \in Clients \ {c} : phase'[d] = phase[d]
  BY AbandonRemoves
<1>2. /\ \A j \in Cookies : conns'[j].tran_fd = conns[j].tran_fd
      /\ \A j \in Cookies \ {k} : conns'[j].data = conns[j].data
      /\ conns[k].tran_fd = c
  <2>1. conns' = [conns EXCEPT ![k] = media_server_finalize(conns[k])] /\ conns[k].tran_fd = c
    BY DEF Abandon
  <2>2. conns \in [Cookies -> ConnType(Handles)]
    BY DEF OwnInv, TypeInv, TypeOK
  <2>3. media_server_finalize(conns[k]).tran_fd = conns[k].tran_fd
    BY <2>2, ConnFields
  <2>4. QED
    BY <2>1, <2>2, <2>3
<1>3. \A j \in Cookies \ {k} : conns[j].tran_fd # c
  BY <1>2 DEF OwnInv, ConnUnique
<1>4. /\ Range(stack.list) \subseteq Slots /\ Range(stack'.list) \subseteq Slots
      /\ \A i \in Slots : /\ i \in Range(stack.list) <=> stack.node_list[i].client_id # -1
                          /\ i \in Range(stack'.list) <=> stack'.node_list[i].client_id # -1
      /\ \A i \in Range(stack'.list) : stack'.node_list[i].callback_argv \in Cookies
  <2>1. /\ Range(stack.list) \subseteq Slots
        /\ \A i \in Slots : i \in Range(stack.list) <=> stack.node_list[i].client_id # -1
    BY <1>1, Queued
  <2>2. /\ Range(stack'.list) \subseteq Slots
        /\ \A i \in Slots : i \in Range(stack'.list) <=> stack'.node_list[i].client_id # -1
        /\ \A i \in Range(stack'.list) : stack'.node_list[i].callback_argv \in Cookies
    BY <1>1, Queued
  <2>3. QED
    BY <2>1, <2>2
<1> HIDE DEF h
<1>5. \A i \in Slots : /\ i \in Range(stack.list) /\ i # h => i \in Range(stack'.list)
                       /\ i \in Range(stack'.list) => /\ i \in Range(stack.list) /\ i # h
                                                      /\ owner'[i] = owner[i]
                                                      /\ stack'.node_list[i].callback_argv =
                                                            stack.node_list[i].callback_argv
  <2>1. SUFFICES ASSUME NEW i \in Slots
                 PROVE  /\ i \in Range(stack.list) /\ i # h => i \in Range(stack'.list)
                        /\ i \in Range(stack'.list) => /\ i \in Range(stack.list) /\ i # h
                                                       /\ owner'[i] = owner[i]
                                                       /\ stack'.node_list[i].callback_argv =
                                                             stack.node_list[i].callback_argv
    OBVIOUS
  <2>2. CASE i = h
    BY <1>1, <1>4, <2>2 DEF FreeNode
  <2>3. CASE i # h
    BY <1>1, <1>4, <2>3 DEF SameRequest
  <2>4. QED
    BY <2>2, <2>3
<1>6. ConnUnique' /\ ConnectedNotIdle'
  BY <1>1, <1>2 DEF OwnInv, ConnUnique, ConnectedNotIdle
<1>7. Owned'
  BY <1>4, <1>5 DEF OwnInv, Owned
<1>8. ASSUME NEW j \in Cookies, NEW d \in Clients, conns'[j].tran_fd = d
      PROVE  /\ phase'[d] \in {"connected", "listening", "refused"} => conns'[j].data = NULL
             /\ phase'[d] = "requested" /\ conns'[j].data \in Slots =>
                   conns'[j].data \in Range(stack'.list) /\ owner'[conns'[j].data] = d
  <2>1. CASE j = k
    BY <1>1, <1>2, <1>8, <2>1
  <2>2. CASE j # k
    <3>1. d # c /\ conns[j].tran_fd = d /\ conns'[j].data = conns[j].data
          /\ phase'[d] = phase[d]
      BY <2>2, <1>1, <1>2, <1>3, <1>8
    <3>2. /\ phase[d] \in {"connected", "listening", "refused"} => conns[j].data = NULL
          /\ phase[d] = "requested" /\ conns[j].data \in Slots =>
                    conns[j].data \in Range(stack.list) /\ owner[conns[j].data] = d
      BY <3>1 DEF OwnInv, HandleIsOwn
    <3>3. phase[d] = "requested" /\ conns[j].data \in Slots => conns[j].data # h
      BY <1>1, <3>1, <3>2
    <3>4. QED
      BY <3>1, <3>2, <3>3, <1>4, <1>5
  <2>3. QED
    BY <2>1, <2>2
<1>9. ASSUME NEW i \in Range(stack'.list),
             conns'[stack'.node_list[i].callback_argv].tran_fd = owner'[i]
      PROVE  /\ phase'[owner'[i]] = "requested"
             /\ conns'[stack'.node_list[i].callback_argv].data = i
  <2>1. /\ i \in Slots /\ i \in Range(stack.list) /\ i # h
        /\ owner'[i] = owner[i] /\ owner[i] \in Clients
        /\ stack'.node_list[i].callback_argv = stack.node_list[i].callback_argv
        /\ stack.node_list[i].callback_argv \in Cookies
    BY <1>4, <1>5 DEF OwnInv, Owned
  <2>2. phase[owner[i]] = "requested" /\ conns[stack.node_list[i].callback_argv].data = i
    BY <1>2, <1>9, <2>1 DEF OwnInv, HandleIsOwn
  <2>3. stack.node_list[i].callback_argv # k
    BY <2>1, <2>2 DEF h
  <2>4. owner[i] # c
    BY <1>2, <1>3, <1>9, <2>1, <2>3
  <2>5. QED
    BY <1>1, <1>2, <2>1, <2>2, <2>3, <2>4
<1>10. HandleIsOwn'
  BY <1>8, <1>9 DEF HandleIsOwn
<1>11. QED
  BY <1>6, <1>7, <1>10

LEMMA OwnNext == OwnInv /\ [Next]_vars => OwnInv'
<1> SUFFICES ASSUME OwnInv, [Next]_vars
             PROVE  (ConnUnique /\ ConnectedNotIdle /\ Owned /\ HandleIsOwn)'
  BY TypeNext DEF OwnInv
<1>1. ASSUME NEW c \in Clients, Die(c)
      PROVE  (ConnUnique /\ ConnectedNotIdle /\ Owned /\ HandleIsOwn)'
  BY <1>1 DEF Die, OwnInv, ConnUnique, ConnectedNotIdle, Owned, HandleIsOwn
<1>2. CASE UNCHANGED vars
  BY <1>2 DEF vars, OwnInv, ConnUnique, ConnectedNotIdle, Owned, HandleIsOwn
<1>3. QED
  BY <1>1, <1>2, OwnAccept, OwnCreateNotify, OwnRequest, OwnAbandon, OwnHangup DEF Next

(* The handle kept with a connection always names the focus its own client *)
(* requested, however the slots of the stack and the entries of the        *)
(* connection table have been reused, and even when notification sockets   *)
(* fail to open and clients die.                                           *)
THEOREM HandleOwned == Spec => []HandleIsOwn
<1>1. OwnInv => HandleIsOwn
  BY DEF OwnInv
<1>2. QED
  BY <1>1, OwnInit, OwnNext, PTL DEF Spec

(* No step takes a focus from a client except its own abandon.             *)
THEOREM FocusNotStolen == Spec => OnlyOwnerLeaves
<1> DEFINE Kept == \A i \in Slots :
                      /\ stack.node_list[i].client_id = i
                      /\ stack'.node_list[i].client_id # i \/ owner'[i] # owner[i]
                      => phase[owner[i]] = "requested" /\ phase'[owner[i]] = "abandoned"
<1>1. ASSUME OwnInv, [Next]_vars PROVE Kept
  <2>1. CASE UNCHANGED <<stack, owner>>
    BY <2>1
  <2>2. ASSUME NEW c \in Clients, NEW k \in Cookies, NEW level \in Levels \cup {UnknownStream},
               Request(c, k, level)
        PROVE  Kept
    <3> DEFINE a == media_focus_request_(stack, level, k)
    <3>1. RequestOutcome(stack, level, k, a)
      BY <1>1, RequestStack DEF OwnInv, TypeInv
    <3>2. /\ stack' = a.s
          /\ owner' = IF a.handle = NULL \/ a.handle \notin Slots THEN owner
                      ELSE [owner EXCEPT ![a.handle] = c]
      BY <2>2 DEF Request
    <3> HIDE DEF a
    <3>3. owner \in [Slots -> Clients \cup {NULL}] /\ \A i \in Slots : i # -1 /\ i # NULL
      BY <1>1, NullAssumption, MaxSizeAssumption DEF OwnInv, TypeInv, TypeOK, Slots
    <3>4. \A i \in Slots : stack.node_list[i].client_id = i =>
             stack'.node_list[i].client_id = i /\ owner'[i] = owner[i]
      BY <3>1, <3>2, <3>3 DEF RequestOutcome
    <3>5. QED
      BY <3>4
  <2>3. ASSUME NEW c \in Clients, NEW k \in Cookies, Abandon(c, k)
        PROVE  Kept
    <3> DEFINE h == conns[k].data
    <3>1. /\ DaemonStack(stack)
          /\ \A i \in Slots : i # h => SameRequest(stack'.node_list[i], stack.node_list[i])
          /\ h \in Range(stack.list) => phase[c] = "requested" /\ owner[h] = c
          /\ h \notin Range(stack.list) => stack' = stack
          /\ \A i \in Slots : owner'[i] = IF stack'.node_list[i].client_id = -1 THEN NULL
                                            ELSE owner[i]
          /\ phase'[c] = "abandoned"
      BY <1>1, <2>3, AbandonRemoves
    <3>2. \A i \in Slots : i # -1
      BY MaxSizeAssumption DEF Slots
    <3> HIDE DEF h
    <3>3. QED
      BY <3>1, <3>2 DEF SameRequest
  <2>4. QED
    BY <1>1, <2>1, <2>2, <2>3
    DEF Next, vars, media_server_accept, Die, CreateNotify, Hangup
<1>2. QED
  BY <1>1, OwnInit, OwnNext, PTL DEF Spec, OnlyOwnerLeaves
-----------------------------------------------------------------------------

(***************************************************************************)
(* What the server holds of a client ends with the client.  CleanExit is   *)
(* not inductive: a socket or a queued focus could be left behind while    *)
(* its client is still connected.  The strengthening says in which phases  *)
(* of its client the server may hold either.                               *)
(***************************************************************************)

\* The phases in which a connected client may have a notification socket.
MayListen == {"listening", "requested", "refused"}

\* A notification socket belongs to the client of its entry, or to a client
\* that died and whose connection the server has seen end.
NotifyPaired ==
    \A k \in Cookies, c \in Clients : conns[k].notify_fd = c =>
        \/ conns[k].tran_fd = c /\ phase[c] \in MayListen
        \/ phase[c] = "idle" /\ c \notin alive

\* A queued focus belongs to the client of the entry its request came by, or
\* to a client that died and whose connection the server has seen end.
FocusPaired ==
    \A i \in Range(stack.list) :
        \/ /\ phase[owner[i]] = "requested"
           /\ conns[stack.node_list[i].callback_argv].tran_fd = owner[i]
        \/ phase[owner[i]] = "idle" /\ owner[i] \notin alive

\* A client has at most one queued focus.
FocusOnce == \A i, j \in Range(stack.list) : owner[i] = owner[j] => i = j

ExitInv == OwnInv /\ NotifyPaired /\ FocusPaired /\ FocusOnce

\* A request changes no socket, and every queued focus but its own stays
\* that of its client.
LEMMA RequestKeeps ==
    ASSUME OwnInv, NEW c \in Clients, NEW k \in Cookies,
           NEW level \in Levels \cup {UnknownStream}, Request(c, k, level)
    PROVE  /\ phase[c] = "listening" /\ conns[k].tran_fd = c
           /\ phase'[c] \in {"requested", "refused"}
           /\ \A d \in Clients \ {c} : phase'[d] = phase[d]
           /\ alive' = alive
           /\ \A j \in Cookies : /\ conns'[j].tran_fd = conns[j].tran_fd
                                 /\ conns'[j].notify_fd = conns[j].notify_fd
           /\ \A i \in Range(stack'.list) :
                 \/ /\ i \in Range(stack.list) /\ owner'[i] = owner[i] /\ owner[i] \in Clients
                    /\ stack'.node_list[i].callback_argv = stack.node_list[i].callback_argv
                    /\ stack.node_list[i].callback_argv \in Cookies
                 \/ /\ i \notin Range(stack.list) /\ owner'[i] = c /\ phase'[c] = "requested"
                    /\ i = media_focus_request_(stack, level, k).handle
                    /\ stack'.node_list[i].callback_argv = k
<1> DEFINE a == media_focus_request_(stack, level, k)
           h == a.handle
<1>1. RequestOutcome(stack, level, k, a)
  BY RequestStack DEF OwnInv, TypeInv
<1>2. /\ stack' = a.s
      /\ conns' = IF h = NULL THEN conns
                  ELSE [conns EXCEPT ![k] = media_server_set_data(conns[k], h)]
      /\ phase' = [phase EXCEPT ![c] = IF h = NULL THEN "refused" ELSE "requested"]
      /\ owner' = IF h = NULL \/ h \notin Slots THEN owner ELSE [owner EXCEPT ![h] = c]
      /\ phase[c] = "listening" /\ conns[k].tran_fd = c /\ alive' = alive
  BY DEF Request
<1> HIDE DEF a
<1>3. /\ \A i \in Range(stack.list) : SameRequest(stack'.node_list[i], stack.node_list[i])
      /\ DaemonStack(stack) /\ DaemonStack(stack')
      /\ \/ /\ h = NULL
            /\ \A i \in Slots : stack'.node_list[i].client_id = stack.node_list[i].client_id
         \/ /\ h \in Slots /\ stack.node_list[h].client_id = -1 /\ h # NULL
            /\ \A i \in Slots \ {h} :
                  stack'.node_list[i].client_id = stack.node_list[i].client_id
            /\ stack'.node_list[h].client_id = h
            /\ stack'.node_list[h].callback_argv = k
         \/ h \notin Slots /\ h # NULL /\ stack' = stack
  BY <1>1, <1>2, NullAssumption, MaxSizeAssumption
  DEF RequestOutcome, OwnInv, TypeInv, Slots, Handles
<1>4. \A j \in Cookies : /\ conns'[j].tran_fd = conns[j].tran_fd
                         /\ conns'[j].notify_fd = conns[j].notify_fd
  BY <1>2, ConnFields DEF OwnInv, TypeInv, TypeOK
<1>5. /\ phase'[c] = (IF h = NULL THEN "refused" ELSE "requested")
      /\ \A d \in Clients \ {c} : phase'[d] = phase[d]
  BY <1>2 DEF OwnInv, TypeInv, TypeOK
<1> HIDE DEF h
<1>6. \A i \in Slots : i # NULL /\ i # -1
  BY NullAssumption, MaxSizeAssumption DEF Slots
<1>7. /\ Range(stack.list) \subseteq Slots /\ Range(stack'.list) \subseteq Slots
      /\ \A i \in Slots : /\ i \in Range(stack.list) <=> stack.node_list[i].client_id # -1
                          /\ i \in Range(stack'.list) <=> stack'.node_list[i].client_id # -1
      /\ \A i \in Range(stack.list) : stack.node_list[i].callback_argv \in Cookies
  <2>1. /\ Range(stack.list) \subseteq Slots
        /\ \A i \in Slots : i \in Range(stack.list) <=> stack.node_list[i].client_id # -1
        /\ \A i \in Range(stack.list) : stack.node_list[i].callback_argv \in Cookies
    BY <1>3, Queued
  <2>2. /\ Range(stack'.list) \subseteq Slots
        /\ \A i \in Slots : i \in Range(stack'.list) <=> stack'.node_list[i].client_id # -1
    BY <1>3, Queued
  <2>3. QED
    BY <2>1, <2>2
<1>8. \A i \in Slots : /\ i # h => owner'[i] = owner[i]
                       /\ i = h => owner'[i] = c
  <2>1. owner \in [Slots -> Clients \cup {NULL}]
    BY DEF OwnInv, TypeInv, TypeOK
  <2>2. QED
    BY <1>2, <1>6, <2>1
<1>9. ASSUME NEW i \in Range(stack'.list)
      PROVE  \/ /\ i \in Range(stack.list) /\ owner'[i] = owner[i] /\ owner[i] \in Clients
                /\ stack'.node_list[i].callback_argv = stack.node_list[i].callback_argv
                /\ stack.node_list[i].callback_argv \in Cookies
             \/ /\ i \notin Range(stack.list) /\ owner'[i] = c /\ phase'[c] = "requested"
                /\ i = h
                /\ stack'.node_list[i].callback_argv = k
  <2>1. i \in Slots /\ i # NULL
    BY <1>6, <1>7
  <2>2. CASE i = h
    BY <2>1, <2>2, <1>3, <1>5, <1>7, <1>8
  <2>3. CASE i # h
    <3>1. i \in Range(stack.list)
      BY <2>1, <2>3, <1>3, <1>7
    <3>2. SameRequest(stack'.node_list[i], stack.node_list[i]) /\ owner[i] \in Clients
      BY <3>1, <1>3 DEF OwnInv, Owned
    <3>3. QED
      BY <2>1, <2>3, <3>1, <3>2, <1>7, <1>8 DEF SameRequest
  <2>4. QED
    BY <2>2, <2>3
<1>10. QED
  BY <1>2, <1>4, <1>5, <1>9 DEF h, a

\* An abandon closes one notification socket, its own client's, and every
\* other client's focus stays.
LEMMA AbandonKeeps ==
    ASSUME OwnInv, NEW c \in Clients, NEW k \in Cookies, Abandon(c, k)
    PROVE  /\ phase[c] # "idle" /\ conns[k].tran_fd = c /\ phase'[c] = "abandoned"
           /\ \A d \in Clients \ {c} : phase'[d] = phase[d]
           /\ alive' = alive
           /\ ~ Open(conns'[k].notify_fd) /\ conns'[k].tran_fd = conns[k].tran_fd
           /\ \A j \in Cookies \ {k} : conns'[j] = conns[j]
           /\ \A i \in Range(stack'.list) :
                 /\ i \in Range(stack.list) /\ owner'[i] = owner[i] /\ owner[i] \in Clients
                 /\ i # conns[k].data
                 /\ SameRequest(stack'.node_list[i], stack.node_list[i])
                 /\ stack.node_list[i].callback_argv \in Cookies
<1> DEFINE h == conns[k].data
<1>1. /\ DaemonStack(stack) /\ DaemonStack(stack')
      /\ \A i \in Slots : i # h => SameRequest(stack'.node_list[i], stack.node_list[i])
      /\ h \in Range(stack.list) => stack'.node_list[h] = FreeNode
      /\ h \notin Range(stack.list) => stack' = stack
      /\ \A i \in Slots : owner'[i] = IF stack'.node_list[i].client_id = -1 THEN NULL
                                        ELSE owner[i]
      /\ phase'[c] = "abandoned" /\ \A d \in Clients \ {c} : phase'[d] = phase[d]
  BY AbandonRemoves
<1>2. /\ conns' = [conns EXCEPT ![k] = media_server_finalize(conns[k])] /\ conns[k].tran_fd = c
      /\ alive' = alive /\ phase[c] # "idle"
  BY DEF Abandon
<1>3. /\ ~ Open(conns'[k].notify_fd) /\ conns'[k].tran_fd = conns[k].tran_fd
      /\ \A j \in Cookies \ {k} : conns'[j] = conns[j]
  <2>1. conns \in [Cookies -> ConnType(Handles)]
    BY DEF OwnInv, TypeInv, TypeOK
  <2>2. /\ media_server_finalize(conns[k]).tran_fd = conns[k].tran_fd
        /\ ~ Open(media_server_finalize(conns[k]).notify_fd)
    BY <2>1, ConnFields
  <2>3. QED
    BY <1>2, <2>1, <2>2
<1>4. /\ \A i \in Range(stack'.list) : i \in Slots /\ stack'.node_list[i].client_id # -1
      /\ \A i \in Slots : i \in Range(stack.list) <=> stack.node_list[i].client_id # -1
      /\ \A i \in Range(stack.list) : stack.node_list[i].callback_argv \in Cookies
  <2>1. /\ \A i \in Slots : i \in Range(stack.list) <=> stack.node_list[i].client_id # -1
        /\ \A i \in Range(stack.list) : stack.node_list[i].callback_argv \in Cookies
    BY <1>1, Queued
  <2>2. \A i \in Range(stack'.list) : i \in Slots /\ stack'.node_list[i].client_id # -1
    BY <1>1, Queued
  <2>3. QED
    BY <2>1, <2>2
<1> HIDE DEF h
<1>5. ASSUME NEW i \in Range(stack'.list)
      PROVE  /\ i \in Range(stack.list) /\ owner'[i] = owner[i] /\ owner[i] \in Clients
             /\ i # h
             /\ SameRequest(stack'.node_list[i], stack.node_list[i])
             /\ stack.node_list[i].callback_argv \in Cookies
  <2>1. i \in Slots /\ stack'.node_list[i].client_id # -1 /\ owner'[i] = owner[i]
    BY <1>1, <1>4
  <2>2. i # h
    <3>1. FreeNode.client_id = -1
      BY DEF FreeNode
    <3>2. QED
      BY <3>1, <2>1, <1>1, <1>4
  <2>3. SameRequest(stack'.node_list[i], stack.node_list[i])
    BY <1>1, <2>1, <2>2
  <2>4. i \in Range(stack.list)
    BY <1>4, <2>1, <2>3 DEF SameRequest
  <2>5. QED
    BY <1>4, <2>1, <2>2, <2>3, <2>4 DEF OwnInv, Owned
<1>6. QED
  BY <1>1, <1>2, <1>3, <1>5 DEF h

LEMMA ExitAccept ==
    ASSUME ExitInv, NEW c \in Clients, media_server_accept(c)
    PROVE  (NotifyPaired /\ FocusPaired /\ FocusOnce)'
<1>1. PICK k \in Cookies :
         /\ conns' = [conns EXCEPT ![k] = media_server_conn_init(conns[k], c)]
         /\ Available(conns[k])
  BY DEF media_server_accept, AcceptEntry
<1>2. /\ conns'[k].tran_fd = c /\ conns'[k].notify_fd = conns[k].notify_fd
      /\ \A j \in Cookies \ {k} : conns'[j] = conns[j]
  BY <1>1, ConnFields DEF ExitInv, OwnInv, TypeInv, TypeOK
<1>3. /\ phase'[c] = "connected" /\ \A d \in Clients \ {c} : phase'[d] = phase[d]
      /\ alive' = alive \cup {c}
      /\ UNCHANGED <<stack, owner>>
  BY DEF media_server_accept, ExitInv, OwnInv, TypeInv, TypeOK
<1>4. \A j \in Cookies : conns[j].tran_fd # c /\ conns[j].notify_fd # c
  BY DEF media_server_accept, Remnant
<1>5. \A i \in Range(stack.list) : owner[i] # c /\ owner[i] \in Clients
                                   /\ stack.node_list[i].callback_argv \in Cookies
  BY Queued DEF media_server_accept, Remnant, ExitInv, OwnInv, TypeInv, Owned
<1>6. \A d \in Clients : conns[k].tran_fd # d
  BY <1>1, FdAssumption DEF Available
<1>7. NotifyPaired'
  BY <1>2, <1>3, <1>4, <1>6 DEF ExitInv, NotifyPaired
<1>8. FocusPaired'
  BY <1>2, <1>3, <1>5, <1>6 DEF ExitInv, FocusPaired
<1>9. FocusOnce'
  BY <1>3 DEF ExitInv, FocusOnce
<1>10. QED
  BY <1>7, <1>8, <1>9

LEMMA ExitCreateNotify ==
    ASSUME ExitInv, NEW c \in Clients, NEW k \in Cookies, NEW ok \in BOOLEAN,
           CreateNotify(c, k, ok)
    PROVE  (NotifyPaired /\ FocusPaired /\ FocusOnce)'
<1>1. /\ \A j \in Cookies : conns'[j].tran_fd = conns[j].tran_fd
      /\ \A j \in Cookies \ {k} : conns'[j] = conns[j]
      /\ conns'[k].notify_fd \in {c, NULL}
      /\ conns[k].tran_fd = c
  BY ConnFields DEF CreateNotify, ExitInv, OwnInv, TypeInv, TypeOK
<1>2. /\ phase[c] = "connected" /\ phase'[c] = "listening"
      /\ \A d \in Clients \ {c} : phase'[d] = phase[d]
      /\ UNCHANGED <<stack, owner, alive>>
  BY DEF CreateNotify, ExitInv, OwnInv, TypeInv, TypeOK
<1>3. \A i \in Range(stack.list) : owner[i] \in Clients
                                   /\ stack.node_list[i].callback_argv \in Cookies
  BY Queued DEF ExitInv, OwnInv, TypeInv, Owned
<1>4. ASSUME NEW j \in Cookies, NEW d \in Clients, conns'[j].notify_fd = d
      PROVE  \/ conns'[j].tran_fd = d /\ phase'[d] \in MayListen
             \/ phase'[d] = "idle" /\ d \notin alive'
  <2>1. CASE j = k
    BY <1>1, <1>2, <1>4, <2>1, FdAssumption DEF MayListen
  <2>2. CASE j # k
    BY <1>1, <1>2, <1>4, <2>2 DEF ExitInv, NotifyPaired, MayListen
  <2>3. QED
    BY <2>1, <2>2
<1>5. NotifyPaired'
  BY <1>4 DEF NotifyPaired
<1>6. FocusPaired'
  BY <1>1, <1>2, <1>3 DEF ExitInv, FocusPaired
<1>7. FocusOnce'
  BY <1>2 DEF ExitInv, FocusOnce
<1>8. QED
  BY <1>5, <1>6, <1>7

LEMMA ExitRequest ==
    ASSUME ExitInv, NEW c \in Clients, NEW k \in Cookies,
           NEW level \in Levels \cup {UnknownStream}, Request(c, k, level)
    PROVE  (NotifyPaired /\ FocusPaired /\ FocusOnce)'
<1>1. /\ phase[c] = "listening" /\ conns[k].tran_fd = c
      /\ phase'[c] \in {"requested", "refused"}
      /\ \A d \in Clients \ {c} : phase'[d] = phase[d]
      /\ alive' = alive
      /\ \A j \in Cookies : /\ conns'[j].tran_fd = conns[j].tran_fd
                            /\ conns'[j].notify_fd = conns[j].notify_fd
      /\ \A i \in Range(stack'.list) :
            \/ /\ i \in Range(stack.list) /\ owner'[i] = owner[i] /\ owner[i] \in Clients
               /\ stack'.node_list[i].callback_argv = stack.node_list[i].callback_argv
               /\ stack.node_list[i].callback_argv \in Cookies
            \/ /\ i \notin Range(stack.list) /\ owner'[i] = c /\ phase'[c] = "requested"
               /\ i = media_focus_request_(stack, level, k).handle
               /\ stack'.node_list[i].callback_argv = k
  BY RequestKeeps DEF ExitInv
<1>2. \A i \in Range(stack.list) : owner[i] # c
  BY <1>1 DEF ExitInv, FocusPaired
<1>3. NotifyPaired'
  BY <1>1 DEF ExitInv, NotifyPaired, MayListen
<1>4. FocusPaired'
  BY <1>1, <1>2 DEF ExitInv, FocusPaired
<1>5. FocusOnce'
  BY <1>1, <1>2 DEF ExitInv, FocusOnce
<1>6. QED
  BY <1>3, <1>4, <1>5

LEMMA ExitAbandon ==
    ASSUME ExitInv, NEW c \in Clients, NEW k \in Cookies, Abandon(c, k)
    PROVE  (NotifyPaired /\ FocusPaired /\ FocusOnce)'
<1>1. /\ phase[c] # "idle" /\ conns[k].tran_fd = c /\ phase'[c] = "abandoned"
      /\ \A d \in Clients \ {c} : phase'[d] = phase[d]
      /\ alive' = alive
      /\ ~ Open(conns'[k].notify_fd) /\ conns'[k].tran_fd = conns[k].tran_fd
      /\ \A j \in Cookies \ {k} : conns'[j] = conns[j]
      /\ \A i \in Range(stack'.list) :
            /\ i \in Range(stack.list) /\ owner'[i] = owner[i] /\ owner[i] \in Clients
            /\ i # conns[k].data
            /\ SameRequest(stack'.node_list[i], stack.node_list[i])
            /\ stack.node_list[i].callback_argv \in Cookies
  BY AbandonKeeps DEF ExitInv
<1>2. \A j \in Cookies \ {k} : conns[j].tran_fd # c
  BY <1>1 DEF ExitInv, OwnInv, ConnUnique, Open
<1>3. NotifyPaired'
  BY <1>1, <1>2 DEF ExitInv, NotifyPaired, Open
<1>4. ASSUME NEW i \in Range(stack'.list)
      PROVE  owner[i] # c
  <2>1. SUFFICES ASSUME owner[i] = c PROVE FALSE
    OBVIOUS
  <2>2. i \in Range(stack.list) /\ i # conns[k].data
        /\ stack.node_list[i].callback_argv \in Cookies
    BY <1>1
  <2>3. conns[stack.node_list[i].callback_argv].tran_fd = c
    BY <1>1, <2>1, <2>2 DEF ExitInv, FocusPaired
  <2>4. stack.node_list[i].callback_argv = k
    BY <1>2, <2>2, <2>3
  <2>5. conns[k].data = i
    BY <2>1, <2>2, <2>3, <2>4 DEF ExitInv, OwnInv, HandleIsOwn
  <2>6. QED
    BY <2>2, <2>5
<1>5. FocusPaired'
  BY <1>1, <1>4 DEF ExitInv, FocusPaired, SameRequest
<1>6. FocusOnce'
  BY <1>1 DEF ExitInv, FocusOnce
<1>7. QED
  BY <1>3, <1>5, <1>6

LEMMA ExitDie ==
    ASSUME ExitInv, NEW c \in Clients, Die(c)
    PROVE  (NotifyPaired /\ FocusPaired /\ FocusOnce)'
BY DEF Die, ExitInv, NotifyPaired, FocusPaired, FocusOnce

LEMMA ExitHangup ==
    ASSUME ExitInv, NEW c \in Clients, NEW k \in Cookies, Hangup(c, k)
    PROVE  (NotifyPaired /\ FocusPaired /\ FocusOnce)'
<1>1. /\ conns'[k].notify_fd = conns[k].notify_fd
      /\ \A j \in Cookies \ {k} : conns'[j] = conns[j]
  BY ConnFields DEF Hangup, ExitInv, OwnInv, TypeInv, TypeOK
<1>2. /\ conns[k].tran_fd = c /\ phase'[c] = "idle"
      /\ \A d \in Clients \ {c} : phase'[d] = phase[d]
      /\ UNCHANGED <<stack, owner, alive>>
      /\ c \in alive => phase[c] \in {"connected", "abandoned"}
  BY DEF Hangup, ExitInv, OwnInv, TypeInv, TypeOK
<1>3. \A i \in Range(stack.list) : owner[i] \in Clients
                                   /\ stack.node_list[i].callback_argv \in Cookies
  BY Queued DEF ExitInv, OwnInv, TypeInv, Owned
<1>4. NotifyPaired'
  BY <1>1, <1>2 DEF ExitInv, NotifyPaired, MayListen
<1>5. FocusPaired'
  BY <1>1, <1>2, <1>3 DEF ExitInv, FocusPaired
<1>6. FocusOnce'
  BY <1>2 DEF ExitInv, FocusOnce
<1>7. QED
  BY <1>4, <1>5, <1>6

LEMMA ExitInit == Init => ExitInv
<1> SUFFICES ASSUME Init PROVE ExitInv
  OBVIOUS
<1>1. stack.list = <<>> /\ Range(stack.list) = {}
  BY DEF Init, app_focus_stack_init, Range
<1>2. \A k \in Cookies : conns[k].notify_fd = NULL
  BY DEF Init, ZeroConn
<1>3. QED
  BY <1>1, <1>2, OwnInit, FdAssumption DEF ExitInv, NotifyPaired, FocusPaired, FocusOnce

LEMMA ExitNext == ExitInv /\ [Next]_vars => ExitInv'
<1> SUFFICES ASSUME ExitInv, [Next]_vars
             PROVE  (NotifyPaired /\ FocusPaired /\ FocusOnce)'
  BY OwnNext DEF ExitInv
<1>1. CASE UNCHANGED vars
  BY <1>1 DEF vars, ExitInv, NotifyPaired, FocusPaired, FocusOnce
<1>2. QED
  BY <1>1, ExitAccept, ExitCreateNotify, ExitRequest, ExitAbandon, ExitDie, ExitHangup
  DEF Next

(* What a live client leaves behind by abandoning and hanging up is        *)
(* nothing: no connection entry, no notification socket and no focus of it *)
(* stays with the server, so that its name may be used again.  This holds  *)
(* in every order of the clients' steps, also when notification sockets    *)
(* fail to open and other clients die.                                     *)
THEOREM ExitLeavesNothing == Spec => []CleanExit
<1>1. ExitInv => CleanExit
  <2> SUFFICES ASSUME ExitInv, NEW c \in alive, phase[c] = "idle", Remnant(c)
               PROVE  FALSE
    BY DEF CleanExit
  <2>1. c \in Clients
    BY DEF ExitInv, OwnInv, TypeInv, TypeOK
  <2>2. \A k \in Cookies : conns[k].tran_fd # c
    BY <2>1 DEF ExitInv, OwnInv, ConnectedNotIdle
  <2>3. \A k \in Cookies : conns[k].notify_fd # c
    BY <2>1, <2>2 DEF ExitInv, NotifyPaired
  <2>4. PICK i \in Slots : stack.node_list[i].client_id = i /\ owner[i] = c
    BY <2>2, <2>3 DEF Remnant
  <2>5. i \in Range(stack.list)
    BY <2>4, Queued DEF ExitInv, OwnInv, TypeInv
  <2>6. QED
    BY <2>4, <2>5 DEF ExitInv, FocusPaired
<1>2. QED
  BY <1>1, ExitInit, ExitNext, PTL DEF Spec
-----------------------------------------------------------------------------

(***************************************************************************)
(* Whom a queued focus notifies.  Nothing tells a client that the server   *)
(* could not connect back to it, so the rest is about servers that can.    *)
(***************************************************************************)

\* A client that asked for a notification socket has one.
Heard ==
    \A k \in Cookies, c \in Clients :
        conns[k].tran_fd = c /\ phase[c] \in MayListen => conns[k].notify_fd = c

\* CookieBelongs, slot by slot.
CookieOwned ==
    \A i \in Range(stack.list) :
        LET conn == conns[stack.node_list[i].callback_argv]
        IN  /\ conn.tran_fd \in {owner[i], CLOSED}
            /\ conn.notify_fd = owner[i]

CookieInv == ExitInv /\ Heard /\ CookieOwned

LEMMA CookieAccept ==
    ASSUME CookieInv, NEW c \in Clients, media_server_accept(c)
    PROVE  (Heard /\ CookieOwned)'
<1>1. PICK k \in Cookies :
         /\ conns' = [conns EXCEPT ![k] = media_server_conn_init(conns[k], c)]
         /\ Available(conns[k])
  BY DEF media_server_accept, AcceptEntry
<1>2. /\ conns'[k].tran_fd = c /\ \A j \in Cookies \ {k} : conns'[j] = conns[j]
  BY <1>1, ConnFields DEF CookieInv, ExitInv, OwnInv, TypeInv, TypeOK
<1>3. /\ phase'[c] = "connected" /\ \A d \in Clients \ {c} : phase'[d] = phase[d]
      /\ UNCHANGED <<stack, owner>>
  BY DEF media_server_accept, CookieInv, ExitInv, OwnInv, TypeInv, TypeOK
<1>4. \A j \in Cookies : conns[j].tran_fd # c
  BY DEF media_server_accept, Remnant
<1>5. Heard'
  BY <1>2, <1>3, <1>4 DEF CookieInv, Heard, MayListen
<1>6. \A i \in Range(stack.list) : owner[i] \in Clients
                                   /\ stack.node_list[i].callback_argv \in Cookies
  BY Queued DEF CookieInv, ExitInv, OwnInv, TypeInv, Owned
<1>7. \A i \in Range(stack.list) : stack.node_list[i].callback_argv # k
  BY <1>1, <1>6, FdAssumption DEF Available, Open, CookieInv, CookieOwned
<1>8. CookieOwned'
  BY <1>2, <1>3, <1>6, <1>7 DEF CookieInv, CookieOwned
<1>9. QED
  BY <1>5, <1>8

LEMMA CookieCreateNotify ==
    ASSUME CookieInv, ~ NotifyMayFail, NEW c \in Clients, NEW k \in Cookies,
           NEW ok \in BOOLEAN, CreateNotify(c, k, ok)
    PROVE  (Heard /\ CookieOwned)'
<1>1. /\ \A j \in Cookies : conns'[j].tran_fd = conns[j].tran_fd
      /\ \A j \in Cookies \ {k} : conns'[j] = conns[j]
      /\ conns'[k].notify_fd = c
      /\ conns[k].tran_fd = c
  BY ConnFields DEF CreateNotify, CookieInv, ExitInv, OwnInv, TypeInv, TypeOK
<1>2. /\ phase[c] = "connected" /\ phase'[c] = "listening"
      /\ \A d \in Clients \ {c} : phase'[d] = phase[d]
      /\ UNCHANGED <<stack, owner>>
  BY DEF CreateNotify, CookieInv, ExitInv, OwnInv, TypeInv, TypeOK
<1>3. \A i \in Range(stack.list) : owner[i] \in Clients
                                   /\ stack.node_list[i].callback_argv \in Cookies
  BY Queued DEF CookieInv, ExitInv, OwnInv, TypeInv, Owned
<1>4. \A j \in Cookies \ {k} : conns[j].tran_fd # c
  BY <1>1 DEF CookieInv, ExitInv, OwnInv, ConnUnique, Open
<1>5. Heard'
  BY <1>1, <1>2, <1>4 DEF CookieInv, Heard
<1>6. \A i \in Range(stack.list) : stack.node_list[i].callback_argv # k
  <2>1. SUFFICES ASSUME NEW i \in Range(stack.list), stack.node_list[i].callback_argv = k
                 PROVE  FALSE
    OBVIOUS
  <2>2. owner[i] = c
    BY <1>1, <1>3, <2>1, FdAssumption DEF CookieInv, CookieOwned
  <2>3. QED
    BY <1>2, <2>1, <2>2 DEF CookieInv, ExitInv, FocusPaired
<1>7. CookieOwned'
  BY <1>1, <1>2, <1>3, <1>6 DEF CookieInv, CookieOwned
<1>8. QED
  BY <1>5, <1>7

LEMMA CookieRequest ==
    ASSUME CookieInv, NEW c \in Clients, NEW k \in Cookies,
           NEW level \in Levels \cup {UnknownStream}, Request(c, k, level)
    PROVE  (Heard /\ CookieOwned)'
<1>1. /\ phase[c] = "listening" /\ conns[k].tran_fd = c
      /\ phase'[c] \in {"requested", "refused"}
      /\ \A d \in Clients \ {c} : phase'[d] = phase[d]
      /\ \A j \in Cookies : /\ conns'[j].tran_fd = conns[j].tran_fd
                            /\ conns'[j].notify_fd = conns[j].notify_fd
      /\ \A i \in Range(stack'.list) :
            \/ /\ i \in Range(stack.list) /\ owner'[i] = owner[i] /\ owner[i] \in Clients
               /\ stack'.node_list[i].callback_argv = stack.node_list[i].callback_argv
               /\ stack.node_list[i].callback_argv \in Cookies
            \/ owner'[i] = c /\ stack'.node_list[i].callback_argv = k
  BY RequestKeeps DEF CookieInv, ExitInv
<1>2. conns[k].notify_fd = c
  BY <1>1 DEF CookieInv, Heard, MayListen
<1>3. Heard'
  BY <1>1, <1>2 DEF CookieInv, Heard, MayListen
<1>4. CookieOwned'
  BY <1>1, <1>2 DEF CookieInv, CookieOwned
<1>5. QED
  BY <1>3, <1>4

\* The queued focuses that stay are those of other entries.
LEMMA AbandonElsewhere ==
    ASSUME CookieInv, NEW c \in Clients, NEW k \in Cookies, Abandon(c, k),
           NEW i \in Range(stack'.list)
    PROVE  stack.node_list[i].callback_argv # k
<1>1. SUFFICES ASSUME stack.node_list[i].callback_argv = k PROVE FALSE
  OBVIOUS
<1>2. /\ conns[k].tran_fd = c /\ i \in Range(stack.list) /\ i # conns[k].data
      /\ owner[i] \in Clients
  BY AbandonKeeps DEF CookieInv, ExitInv
<1>3. owner[i] = c
  BY <1>1, <1>2, FdAssumption DEF CookieInv, CookieOwned
<1>4. conns[k].data = i
  BY <1>1, <1>2, <1>3 DEF CookieInv, ExitInv, OwnInv, HandleIsOwn
<1>5. QED
  BY <1>2, <1>4

LEMMA CookieAbandon ==
    ASSUME CookieInv, NEW c \in Clients, NEW k \in Cookies, Abandon(c, k)
    PROVE  (Heard /\ CookieOwned)'
<1>1. /\ conns[k].tran_fd = c /\ phase'[c] = "abandoned"
      /\ \A d \in Clients \ {c} : phase'[d] = phase[d]
      /\ conns'[k].tran_fd = conns[k].tran_fd
      /\ \A j \in Cookies \ {k} : conns'[j] = conns[j]
      /\ \A i \in Range(stack'.list) :
            /\ i \in Range(stack.list) /\ owner'[i] = owner[i]
            /\ SameRequest(stack'.node_list[i], stack.node_list[i])
            /\ stack.node_list[i].callback_argv \in Cookies
  BY AbandonKeeps DEF CookieInv, ExitInv
<1>2. \A i \in Range(stack'.list) : stack.node_list[i].callback_argv # k
  BY AbandonElsewhere
<1>3. Heard'
  BY <1>1 DEF CookieInv, Heard, MayListen
<1>4. CookieOwned'
  BY <1>1, <1>2 DEF CookieInv, CookieOwned, SameRequest
<1>5. QED
  BY <1>3, <1>4

LEMMA CookieDie ==
    ASSUME CookieInv, NEW c \in Clients, Die(c)
    PROVE  (Heard /\ CookieOwned)'
BY DEF Die, CookieInv, Heard, CookieOwned

LEMMA CookieHangup ==
    ASSUME CookieInv, NEW c \in Clients, NEW k \in Cookies, Hangup(c, k)
    PROVE  (Heard /\ CookieOwned)'
<1>1. /\ conns'[k].tran_fd = CLOSED /\ conns'[k].notify_fd = conns[k].notify_fd
      /\ \A j \in Cookies \ {k} : conns'[j] = conns[j]
  BY ConnFields DEF Hangup, CookieInv, ExitInv, OwnInv, TypeInv, TypeOK
<1>2. /\ conns[k].tran_fd = c /\ phase'[c] = "idle"
      /\ \A d \in Clients \ {c} : phase'[d] = phase[d]
      /\ UNCHANGED <<stack, owner>>
  BY DEF Hangup, CookieInv, ExitInv, OwnInv, TypeInv, TypeOK
<1>3. \A i \in Range(stack.list) : stack.node_list[i].callback_argv \in Cookies
  BY Queued DEF CookieInv, ExitInv, OwnInv, TypeInv
<1>4. Heard'
  BY <1>1, <1>2, FdAssumption DEF CookieInv, Heard, MayListen
<1>5. CookieOwned'
  BY <1>1, <1>2, <1>3 DEF CookieInv, CookieOwned
<1>6. QED
  BY <1>4, <1>5

LEMMA CookieInit == Init => CookieInv
<1> SUFFICES ASSUME Init PROVE CookieInv
  OBVIOUS
<1>1. stack.list = <<>> /\ Range(stack.list) = {}
  BY DEF Init, app_focus_stack_init, Range
<1>2. QED
  BY <1>1, ExitInit, FdAssumption DEF Init, ZeroConn, CookieInv, Heard, CookieOwned

LEMMA CookieNext == ~ NotifyMayFail /\ CookieInv /\ [Next]_vars => CookieInv'
<1> SUFFICES ASSUME ~ NotifyMayFail, CookieInv, [Next]_vars
             PROVE  (Heard /\ CookieOwned)'
  BY ExitNext DEF CookieInv
<1>1. CASE UNCHANGED vars
  BY <1>1 DEF vars, CookieInv, Heard, CookieOwned
<1>2. QED
  BY <1>1, CookieAccept, CookieCreateNotify, CookieRequest, CookieAbandon, CookieDie,
     CookieHangup
  DEF Next

(* As long as the server can connect back to its clients, a queued focus   *)
(* notifies the client that requested it and no other: the entry its       *)
(* cookie points to is not handed to a new client while the focus is       *)
(* queued, although the requester may have died in the meantime.           *)
THEOREM CookieKept == ~ NotifyMayFail => (Spec => []CookieBelongs)
<1> SUFFICES ASSUME ~ NotifyMayFail PROVE Spec => []CookieBelongs
  OBVIOUS
<1>1. CookieInv => CookieBelongs
  <2> SUFFICES ASSUME CookieInv, NEW j \in DOMAIN stack.list
               PROVE  LET conn == conns[Entry(j).callback_argv]
                      IN  /\ conn.tran_fd \in {OwnerOf(j), CLOSED}
                          /\ conn.notify_fd = OwnerOf(j)
    BY DEF CookieBelongs
  <2>1. stack.list[j] \in Range(stack.list)
    BY DEF Range
  <2>2. QED
    BY <2>1 DEF CookieInv, CookieOwned, Entry, OwnerOf
<1>2. CookieInv /\ [Next]_vars => CookieInv'
  BY CookieNext
<1>3. QED
  BY <1>1, <1>2, CookieInit, PTL DEF Spec
-----------------------------------------------------------------------------

(***************************************************************************)
(* What the callbacks of one operation say, and to whom.                   *)
(***************************************************************************)

\* The passive suggestion to the focus in slot i under the top of s.
Passive(s, i) ==
    IF i = s.list[1] THEN MEDIA_FOCUS_PLAY
    ELSE pas_inter[<<TopNode(s).focus_level, s.node_list[i].focus_level>>]

\* The callbacks tell every focus of S, and only these, the passive
\* suggestion that is right in s.
Spread(s, S, calls) ==
    /\ \A j \in DOMAIN calls : calls[j] # NULL =>
          \E i \in S :
             /\ calls[j].req.callback_argv = s.node_list[i].callback_argv
             /\ media_focus_play_arbitrate(calls[j].cur, calls[j].req) = Passive(s, i)
    /\ \A i \in S : \E j \in DOMAIN calls :
          calls[j] # NULL /\ calls[j].req.callback_argv = s.node_list[i].callback_argv

\* A callback is not the NULL of a skipped one.
LEMMA CallNotNull ==
    ASSUME NEW x \in FID, NEW y \in FID
    PROVE  /\ Call(x, y) \in CallType /\ Call(x, y) # NULL
           /\ Call(x, y).cur = x /\ Call(x, y).req = y
BY CallAssumption DEF Call, CallType, FID

\* The two halves of what an abandon sends.
LEMMA SpreadConcat ==
    ASSUME NEW s, NEW S, NEW T, NEW c1 \in Seq(CallType), NEW c2 \in Seq(CallType),
           Spread(s, S, c1), Spread(s, T, c2)
    PROVE  Spread(s, S \cup T, c1 \o c2)
<1> DEFINE cc == c1 \o c2
<1>1. /\ DOMAIN c1 = 1 .. Len(c1) /\ Len(c1) \in Nat
      /\ DOMAIN c2 = 1 .. Len(c2) /\ Len(c2) \in Nat
      /\ DOMAIN cc = 1 .. Len(c1) + Len(c2)
      /\ \A j \in 1 .. Len(c1) : cc[j] = c1[j]
      /\ \A j \in 1 .. Len(c2) : cc[Len(c1) + j] = c2[j]
  OBVIOUS
<1> HIDE DEF cc
<1>2. ASSUME NEW j \in DOMAIN cc
      PROVE  \/ j \in DOMAIN c1 /\ cc[j] = c1[j]
             \/ \E i \in DOMAIN c2 : cc[j] = c2[i]
  <2>1. CASE j <= Len(c1)
    BY <1>1, <2>1
  <2>2. CASE j > Len(c1)
    <3>1. j - Len(c1) \in DOMAIN c2 /\ Len(c1) + (j - Len(c1)) = j
      BY <1>1, <2>2
    <3>2. QED
      BY <3>1, <1>1
  <2>3. QED
    BY <2>1, <2>2, <1>1
<1>3. /\ \A j \in DOMAIN c1 : \E i \in DOMAIN cc : cc[i] = c1[j]
      /\ \A j \in DOMAIN c2 : \E i \in DOMAIN cc : cc[i] = c2[j]
  <2>1. \A j \in DOMAIN c1 : j \in DOMAIN cc /\ cc[j] = c1[j]
    BY <1>1
  <2>2. \A j \in DOMAIN c2 : Len(c1) + j \in DOMAIN cc /\ cc[Len(c1) + j] = c2[j]
    BY <1>1
  <2>3. QED
    BY <2>1, <2>2
<1>4. ASSUME NEW j \in DOMAIN cc, cc[j] # NULL
      PROVE  \E i \in S \cup T :
                /\ cc[j].req.callback_argv = s.node_list[i].callback_argv
                /\ media_focus_play_arbitrate(cc[j].cur, cc[j].req) = Passive(s, i)
  BY <1>2, <1>4 DEF Spread
<1>5. ASSUME NEW i \in S \cup T
      PROVE  \E j \in DOMAIN cc :
                cc[j] # NULL /\ cc[j].req.callback_argv = s.node_list[i].callback_argv
  BY <1>3 DEF Spread
<1>6. QED
  BY <1>4, <1>5 DEF Spread, cc

\* The callbacks of a broadcast go to every focus below the top.
LEMMA BroadcastSpread ==
    ASSUME NEW s, DaemonStack(s)
    PROVE  Spread(s, Range(s.list) \ {s.list[1]},
                  app_focus_stack_top_change_broadcast(s, NONBLOCK_CALLBACK_FLAG).calls)
<1> DEFINE calls == app_focus_stack_top_change_broadcast(s, NONBLOCK_CALLBACK_FLAG).calls
           S     == Range(s.list) \ {s.list[1]}
<1>1. /\ s.list \in Seq(Slots) /\ DOMAIN s.list = 1 .. Len(s.list) /\ Len(s.list) \in Nat
      /\ s.node_list \in [Slots -> FID] /\ s.cur_size = Len(s.list)
      /\ \A j \in 1 .. Len(s.list) : s.list[j] \in Slots
  BY StackFacts DEF DaemonStack
<1>2. /\ IsInjective(s.list)
      /\ \A j \in DOMAIN s.list : s.node_list[s.list[j]].focus_state =
            IF j = 1 THEN APP_FOCUS_STATE_STACK_TOP ELSE APP_FOCUS_STATE_STACK_UNDER
  BY ShapeFacts DEF DaemonStack, ST
<1>3. CASE s.cur_size < 2
  <2>1. calls = <<>>
    BY <1>3 DEF app_focus_stack_top_change_broadcast, Result
  <2>2. \A j \in DOMAIN s.list : j = 1
    BY <1>1, <1>3
  <2>3. S = {}
    BY <2>2 DEF Range
  <2> HIDE DEF S, calls
  <2>4. DOMAIN calls = {}
    BY <2>1
  <2>5. Spread(s, S, calls)
    BY <2>3, <2>4 DEF Spread
  <2>6. QED
    BY <2>5 DEF S, calls
<1>4. CASE ~ (s.cur_size < 2)
  <2>1. calls = [j \in 1 .. Len(s.list) |->
                    IF s.node_list[s.list[j]].focus_state = APP_FOCUS_STATE_STACK_TOP THEN NULL
                    ELSE Call(TopNode(s), s.node_list[s.list[j]])]
    BY <1>1, <1>4 DEF app_focus_stack_top_change_broadcast, Result, NONBLOCK_CALLBACK_FLAG
  <2>2. 1 \in 1 .. Len(s.list) /\ TopNode(s) \in FID /\ TopNode(s) = s.node_list[s.list[1]]
    BY <1>1, <1>4 DEF TopNode
  <2>3. ASSUME NEW j \in 1 .. Len(s.list)
        PROVE  /\ s.list[j] = s.list[1] <=> j = 1
               /\ calls[j] = IF j = 1 THEN NULL ELSE Call(TopNode(s), s.node_list[s.list[j]])
               /\ j # 1 => Call(TopNode(s), s.node_list[s.list[j]]) # NULL
    <3>1. s.list[j] = s.list[1] <=> j = 1
      BY <1>1, <1>2, <2>2 DEF IsInjective
    <3>2. calls[j] = IF j = 1 THEN NULL ELSE Call(TopNode(s), s.node_list[s.list[j]])
      BY <1>1, <1>2, <2>1
      DEF APP_FOCUS_STATE_STACK_TOP, APP_FOCUS_STATE_STACK_UNDER
    <3>3. Call(TopNode(s), s.node_list[s.list[j]]) # NULL
      BY <1>1, <2>2, CallNotNull
    <3>4. QED
      BY <3>1, <3>2, <3>3
  <2>4. DOMAIN calls = 1 .. Len(s.list)
    BY <2>1
  <2> HIDE DEF calls
  <2>5. \A i \in S : \E j \in 1 .. Len(s.list) : j # 1 /\ s.list[j] = i
    BY <1>1 DEF Range
  <2>6. ASSUME NEW j \in 1 .. Len(s.list), calls[j] # NULL
        PROVE  \E i \in S :
                  /\ calls[j].req.callback_argv = s.node_list[i].callback_argv
                  /\ media_focus_play_arbitrate(calls[j].cur, calls[j].req) = Passive(s, i)
    <3> DEFINE i == s.list[j]
    <3>1. j # 1 /\ i \in S
      <4>1. i \in Range(s.list)
        BY <1>1 DEF Range
      <4>2. QED
        BY <4>1, <2>3, <2>6
    <3>2. calls[j].cur = TopNode(s) /\ calls[j].req = s.node_list[i]
      BY <3>1, <1>1, <2>2, <2>3, CallNotNull
    <3>3. s.node_list[i].focus_state = APP_FOCUS_STATE_STACK_UNDER
      BY <3>1, <1>1, <1>2
    <3>4. media_focus_play_arbitrate(TopNode(s), s.node_list[i]) = Passive(s, i)
      BY <3>1, <3>3
      DEF media_focus_play_arbitrate, Passive, APP_FOCUS_STATE_STACK_TOP,
          APP_FOCUS_STATE_STACK_UNDER
    <3>5. QED
      BY <3>1, <3>2, <3>4
  <2>7. ASSUME NEW i \in S
        PROVE  \E j \in 1 .. Len(s.list) :
                  calls[j] # NULL /\ calls[j].req.callback_argv = s.node_list[i].callback_argv
    <3>1. PICK j \in 1 .. Len(s.list) : j # 1 /\ s.list[j] = i
      BY <2>5
    <3>2. calls[j] # NULL /\ calls[j].req = s.node_list[i]
      BY <3>1, <1>1, <2>2, <2>3, CallNotNull
    <3>3. QED
      BY <3>2
  <2>8. Spread(s, S, calls)
    BY <2>4, <2>6, <2>7 DEF Spread
  <2>9. QED
    BY <2>8 DEF calls
<1>5. QED
  BY <1>3, <1>4

\* A push makes the new focus the top; the broadcast that follows it goes to
\* the focuses that were queued before.
LEMMA PushSpread ==
    ASSUME NEW s, DaemonStack(s), NEW v \in FID, v.client_id \in Slots,
           ~ app_focus_stack_is_full(s), s.node_list[v.client_id].client_id = -1,
           DaemonStack(app_focus_stack_push(s, v, BLOCK_CALLBACK_FLAG).s)
    PROVE  LET r     == app_focus_stack_push(s, v, BLOCK_CALLBACK_FLAG).s
               calls == app_focus_stack_top_change_broadcast(r, NONBLOCK_CALLBACK_FLAG).calls
           IN  /\ r.list[1] = v.client_id
               /\ Spread(r, Range(s.list), calls)
               /\ app_focus_stack_is_empty(s) => Range(s.list) = {}
<1> DEFINE r     == app_focus_stack_push(s, v, BLOCK_CALLBACK_FLAG).s
           slot  == v.client_id
           calls == app_focus_stack_top_change_broadcast(r, NONBLOCK_CALLBACK_FLAG).calls
<1>1. slot # -1
  BY MaxSizeAssumption DEF Slots
<1>2. r.list = InsertAfter(s.list, 0, slot)
  BY <1>1 DEF app_focus_stack_push, Result
<1>3. /\ s.list \in Seq(Slots) /\ Len(s.list) \in Nat /\ s.cur_size = Len(s.list)
      /\ DOMAIN s.list = 1 .. Len(s.list)
  BY StackFacts DEF DaemonStack
<1>4. \A i \in Slots : s.node_list[i].client_id = IF i \in Range(s.list) THEN i ELSE -1
  BY ShapeFacts DEF DaemonStack, ST
<1>5. IsInjective(s.list) /\ slot \notin Range(s.list)
  BY <1>1, <1>4, ShapeFacts DEF DaemonStack, ST
<1>6. 0 \in 0 .. Len(s.list)
  BY <1>3
<1>7. /\ Range(InsertAfter(s.list, 0, slot)) = Range(s.list) \cup {slot}
      /\ InsertAfter(s.list, 0, slot)[1] = slot
  <2>1. Range(InsertAfter(s.list, 0, slot)) = Range(s.list) \cup {slot}
    BY <1>3, <1>5, <1>6, InsertAfterRange
  <2>2. InsertAfter(s.list, 0, slot)[1] = slot
    BY <1>3 DEF InsertAfter
  <2>3. QED
    BY <2>1, <2>2
<1>8. r.list[1] = slot /\ Range(r.list) \ {r.list[1]} = Range(s.list)
  BY <1>2, <1>5, <1>7
<1>9. Spread(r, Range(r.list) \ {r.list[1]}, calls)
  <2>1. DaemonStack(r)
    OBVIOUS
  <2> HIDE DEF r
  <2>2. QED
    BY <2>1, BroadcastSpread
<1>10. app_focus_stack_is_empty(s) => Range(s.list) = {}
  BY <1>3 DEF app_focus_stack_is_empty, Range
<1>11. QED
  BY <1>8, <1>9, <1>10

\* An insertion leaves the top where it is.
LEMMA InsertKeepsTop ==
    ASSUME NEW s, DaemonStack(s), ~ app_focus_stack_is_full(s),
           ~ app_focus_stack_is_empty(s), NEW index \in Int,
           NEW v \in FID, v.client_id \in Slots, s.node_list[v.client_id].client_id = -1
    PROVE  LET r == app_focus_stack_insert(s, v, index)
           IN  /\ 1 \in DOMAIN s.list
               /\ r.ret >= 0 => r.s.list[1] = s.list[1]
               /\ r.ret < 0 => r.s.list = s.list
<1> DEFINE r    == app_focus_stack_insert(s, v, index)
           slot == v.client_id
           nl0  == [s.node_list EXCEPT ![slot] = v]
<1>1. /\ s.list \in Seq(Slots) /\ Len(s.list) \in Nat /\ s.cur_size = Len(s.list)
      /\ DOMAIN s.list = 1 .. Len(s.list) /\ s.node_list \in [Slots -> FID]
  BY StackFacts DEF DaemonStack
<1>2. slot # -1 /\ 1 \in 1 .. Len(s.list)
  BY <1>1, MaxSizeAssumption DEF Slots, app_focus_stack_is_empty
<1>3. CASE index \in 1 .. Len(s.list)
  <2>1. r.s.list = InsertAfter(s.list, index, slot) /\ r.ret = 0
    BY <1>2, <1>3 DEF app_focus_stack_insert, Result
  <2>2. index \in 0 .. Len(s.list) /\ 1 \in 1 .. Len(s.list) + 1 /\ 1 <= index
    BY <1>1, <1>3
  <2>3. InsertAfter(s.list, index, slot)[1] = s.list[1]
    BY <1>1, <2>2 DEF InsertAfter
  <2>4. QED
    BY <1>1, <1>2, <2>1, <2>3
<1>4. CASE index \notin 1 .. Len(s.list)
  <2>1. /\ r.s = app_focus_node_list_remove([s EXCEPT !.node_list = nl0], slot)
        /\ r.ret = ENOENT
    BY <1>2, <1>4 DEF app_focus_stack_insert, Result
  <2>2. r.s.list = s.list
    BY <2>1 DEF app_focus_node_list_remove
  <2>3. QED
    BY <1>1, <1>2, <2>1, <2>2 DEF ENOENT
<1>5. QED
  BY <1>3, <1>4

\* What a request sends, and what it answers: it is refused, or it becomes
\* the top and everyone else is told, or it is queued under the same top with
\* the answer of the matrix, or it is answered STOP.
RequestTells(s, level, a) ==
    \/ a.handle = NULL /\ a.calls = <<>> /\ a.s.list = s.list
    \/ /\ a.handle \in Slots /\ a.s.list[1] = a.handle /\ a.suggestion = MEDIA_FOCUS_PLAY
       /\ Spread(a.s, Range(s.list), a.calls)
    \/ /\ a.handle \in Slots /\ a.calls = <<>>
       /\ 1 \in DOMAIN s.list /\ a.s.list[1] = s.list[1]
       /\ a.s.node_list[a.handle].focus_level = level
       /\ a.suggestion = pro_inter[<<level, TopNode(s).focus_level>>]
       /\ a.suggestion \in {MEDIA_FOCUS_PLAY_BUT_SILENT, MEDIA_FOCUS_PLAY_WITH_DUCK}
    \/ /\ a.handle \notin Slots \cup {NULL} /\ a.s = s /\ a.calls = <<>>
       /\ a.suggestion = MEDIA_FOCUS_STOP

LEMMA RequestSpread ==
    ASSUME NEW s, DaemonStack(s), NEW level \in Levels \cup {UnknownStream},
           NEW cookie \in Cookies
    PROVE  RequestTells(s, level, media_focus_request_(s, level, cookie))
<1> DEFINE a        == media_focus_request_(s, level, cookie)
           valid_id == app_focus_free_client_id(s)
           new_id   == [client_id |-> valid_id, focus_level |-> level, thread_id |-> Daemon,
                        focus_state |-> APP_FOCUS_STATE_STACK_QUIT, callback_argv |-> cookie]
           empty    == app_focus_stack_is_empty(s)
           ret      == IF empty THEN MEDIA_FOCUS_PLAY
                       ELSE pro_inter[<<level, TopNode(s).focus_level>>]
           pushed   == app_focus_stack_push(s, new_id, BLOCK_CALLBACK_FLAG)
           spread   == app_focus_stack_top_change_broadcast(pushed.s, NONBLOCK_CALLBACK_FLAG)
           inserted == media_focus_focus_id_insert(s, new_id)
<1>1. /\ app_focus_stack_useless_clear(s, {Daemon}, NONBLOCK_CALLBACK_FLAG).s = s
      /\ app_focus_stack_useless_clear(s, {Daemon}, NONBLOCK_CALLBACK_FLAG).calls = <<>>
  <2>1. \A j \in DOMAIN s.list : s.node_list[s.list[j]].thread_id \in {Daemon}
    BY DEF DaemonStack, Range
  <2>2. app_focus_stack_useless_clear(s, {Daemon}, NONBLOCK_CALLBACK_FLAG) = Result(s, <<>>, 0)
    BY <2>1, ClearNothing
  <2>3. QED
    BY <2>2 DEF Result
<1>2. CASE level = UnknownStream
  <2>1. a.s = s /\ a.handle = NULL /\ a.calls = <<>>
    BY <1>2 DEF media_focus_request_, Answer
  <2>2. QED
    BY <2>1 DEF RequestTells
<1>3. CASE level # UnknownStream /\ valid_id < 0
  <2>1. a.s = s /\ a.handle = NULL /\ a.calls = <<>>
    BY <1>1, <1>3 DEF media_focus_request_, Answer
  <2>2. QED
    BY <2>1 DEF RequestTells
<1>4. CASE level # UnknownStream /\ ~ (valid_id < 0)
  <2>1. valid_id \in Slots \cup {ENODATA}
    BY FreeClientIdType
  <2>2. valid_id >= 0
    BY <2>1, <1>4, MaxSizeAssumption DEF Slots, ENODATA
  <2>3. /\ valid_id \in Slots /\ s.node_list[valid_id].client_id = -1
        /\ ~ app_focus_stack_is_full(s)
    BY <2>2, FreeClientId
  <2> HIDE DEF valid_id
  <2>4. new_id \in FID /\ new_id.client_id = valid_id /\ new_id.focus_level = level
    BY <1>4, <2>3 DEF FID, FocusIds, FocusState
  <2>5. RequestOutcome(s, level, cookie, a)
    BY RequestStack
  <2>6. CASE ret = MEDIA_FOCUS_PLAY
    <3>1. /\ a.s = pushed.s /\ a.handle = valid_id /\ a.suggestion = MEDIA_FOCUS_PLAY
          /\ a.calls = <<>> \o (IF empty THEN <<>> ELSE spread.calls)
      BY <1>1, <1>4, <2>6 DEF media_focus_request_, Answer, valid_id
    <3>2. DaemonStack(pushed.s)
      <4> HIDE DEF a, pushed
      <4>1. QED
        BY <2>5, <3>1 DEF RequestOutcome
    <3>3. /\ pushed.s.list[1] = valid_id
          /\ Spread(pushed.s, Range(s.list), spread.calls)
          /\ empty => Range(s.list) = {}
      <4> HIDE DEF new_id
      <4>1. QED
        BY <2>3, <2>4, <3>2, PushSpread
    <3>4. a.calls \in Seq(CallType)
      <4> HIDE DEF a
      <4>1. QED
        BY <2>5 DEF RequestOutcome
    <3>5. spread.calls \in Seq(CallType)
      <4>1. NONBLOCK_CALLBACK_FLAG \in Int
        BY DEF NONBLOCK_CALLBACK_FLAG
      <4> HIDE DEF pushed
      <4>2. QED
        BY <3>2, <4>1, BroadcastCalls DEF DaemonStack
    <3> HIDE DEF a, pushed, spread, empty
    <3>6. Spread(a.s, Range(s.list), a.calls)
      <4>1. CASE empty
        <5>1. a.calls = <<>> /\ DOMAIN a.calls = {}
          BY <3>1, <4>1
        <5>2. QED
          BY <5>1, <3>3, <4>1 DEF Spread
      <4>2. CASE ~ empty
        <5>1. a.calls = spread.calls
          BY <3>1, <3>5, <4>2
        <5>2. QED
          BY <5>1, <3>1, <3>3
      <4>3. QED
        BY <4>1, <4>2
    <3>7. QED
      BY <2>3, <3>1, <3>3, <3>6 DEF RequestTells, a
  <2>7. CASE ret # MEDIA_FOCUS_PLAY
             /\ ret \in {MEDIA_FOCUS_PLAY_BUT_SILENT, MEDIA_FOCUS_PLAY_WITH_DUCK}
    <3>1. /\ a.s = inserted.s /\ a.calls = <<>>
          /\ a.handle = IF inserted.ret < 0 THEN NULL ELSE valid_id
          /\ inserted.ret < 0 \/ a.suggestion = ret
      BY <1>1, <1>4, <2>7 DEF media_focus_request_, Answer, valid_id
    <3>2. ~ empty
      BY <2>7
    <3>3. PICK index \in Int : inserted = app_focus_stack_insert(s, new_id, index)
      BY InsertResult DEF DaemonStack
    <3> HIDE DEF inserted
    <3>4. /\ 1 \in DOMAIN s.list
          /\ inserted.ret < 0 => inserted.s.list = s.list
          /\ inserted.ret \in Int
      <4> HIDE DEF new_id
      <4>1. /\ 1 \in DOMAIN s.list
            /\ inserted.ret < 0 => inserted.s.list = s.list
        BY <2>3, <2>4, <3>2, <3>3, InsertKeepsTop
      <4>2. inserted.ret \in {0, ENOENT}
        BY <2>3, <2>4, <3>2, <3>3, ZeroLevel, InsertShape DEF ST, FID, DaemonStack
      <4>3. QED
        BY <4>1, <4>2 DEF ENOENT
    <3>5. ASSUME ~ (inserted.ret < 0)
          PROVE  /\ inserted.s.list[1] = s.list[1]
                 /\ inserted.s.node_list[valid_id].focus_level = level
      <4> HIDE DEF new_id
      <4>1. inserted.s.list[1] = s.list[1]
        BY <2>3, <2>4, <3>2, <3>3, <3>4, <3>5, InsertKeepsTop
      <4>2. \/ SameRequest(inserted.s.node_list[valid_id], new_id)
            \/ inserted.ret = ENOENT
        BY SMTT(60), <2>3, <2>4, <3>2, <3>3, ZeroLevel, InsertShape DEF ST, FID, DaemonStack
      <4>3. QED
        BY <2>4, <3>5, <4>1, <4>2 DEF SameRequest, ENOENT
    <3>6. CASE inserted.ret < 0
      BY <3>1, <3>4, <3>6 DEF RequestTells
    <3>7. CASE ~ (inserted.ret < 0)
      <4>1. ret = pro_inter[<<level, TopNode(s).focus_level>>]
        BY <3>2
      <4> HIDE DEF a, ret
      <4>2. RequestTells(s, level, a)
        BY <2>3, <2>7, <3>1, <3>4, <3>5, <3>7, <4>1 DEF RequestTells
      <4>3. QED
        BY <4>2 DEF a
    <3>8. QED
      BY <3>6, <3>7
  <2>8. CASE ret # MEDIA_FOCUS_PLAY
             /\ ret \notin {MEDIA_FOCUS_PLAY_BUT_SILENT, MEDIA_FOCUS_PLAY_WITH_DUCK}
    <3>1. /\ a.s = s /\ a.handle = StopId(valid_id) /\ a.suggestion = MEDIA_FOCUS_STOP
          /\ a.calls = <<>>
      BY <1>1, <1>4, <2>8 DEF media_focus_request_, Answer, valid_id
    <3>2. StopId(valid_id) \notin Slots \cup {NULL}
      BY <2>3, MaxSizeAssumption, NullAssumption DEF StopId, Slots
    <3>3. QED
      BY <3>1, <3>2 DEF RequestTells
  <2>9. QED
    BY <2>6, <2>7, <2>8
<1>5. QED
  BY <1>2, <1>3, <1>4

\* A node of which the focus state is changed.
LEMMA StateChanged ==
    ASSUME NEW x \in FID, NEW state \in FocusState
    PROVE  /\ [x EXCEPT !.focus_state = state] \in FID
           /\ [x EXCEPT !.focus_state = state].focus_state = state
           /\ [x EXCEPT !.focus_state = state].callback_argv = x.callback_argv
BY DEF FID, FocusIds

\* A pop hands the top to the next focus, and tells that focus to play.
LEMMA PopSpread ==
    ASSUME NEW s, DaemonStack(s), ~ app_focus_stack_is_empty(s)
    PROVE  LET p == app_focus_stack_pop(s, NONBLOCK_CALLBACK_FLAG)
           IN  Spread(p.s, Range(p.s.list) \cap {p.s.list[1]}, p.calls)
<1> DEFINE p     == app_focus_stack_pop(s, NONBLOCK_CALLBACK_FLAG)
           value == [s.node_list[s.list[1]] EXCEPT !.focus_state = APP_FOCUS_STATE_STACK_QUIT]
           nl    == [s.node_list EXCEPT ![s.list[2]].focus_state = APP_FOCUS_STATE_STACK_TOP]
           S     == Range(p.s.list) \cap {p.s.list[1]}
<1>1. /\ s.list \in Seq(Slots) /\ Len(s.list) \in Nat /\ s.cur_size = Len(s.list)
      /\ DOMAIN s.list = 1 .. Len(s.list) /\ s.node_list \in [Slots -> FID]
      /\ \A j \in 1 .. Len(s.list) : s.list[j] \in Slots
  BY StackFacts DEF DaemonStack
<1>2. IsInjective(s.list) /\ Len(s.list) # 0
  BY <1>1, ShapeFacts DEF DaemonStack, ST, app_focus_stack_is_empty
<1>3. p.s.list = DeleteAt(s.list, 1)
  BY DEF app_focus_stack_pop, app_focus_node_list_remove, Result
<1>4. CASE s.cur_size = 1
  <2>1. p.calls = <<>>
    BY <1>4 DEF app_focus_stack_pop, Result
  <2>2. DOMAIN p.s.list = {}
    BY <1>1, <1>3, <1>4 DEF DeleteAt
  <2>3. S = {}
    BY <2>2 DEF Range
  <2> HIDE DEF p, S
  <2>4. DOMAIN p.calls = {}
    BY <2>1
  <2>5. Spread(p.s, S, p.calls)
    BY <2>3, <2>4 DEF Spread
  <2>6. QED
    BY <2>5 DEF p, S
<1>5. CASE s.cur_size # 1
  <2>1. 1 \in 1 .. Len(s.list) /\ 2 \in 1 .. Len(s.list) /\ 1 \in 1 .. Len(s.list) - 1
    <3>1. \A n \in Nat : n # 0 /\ n # 1 => 1 \in 1 .. n /\ 2 \in 1 .. n /\ 1 \in 1 .. n - 1
      OBVIOUS
    <3>2. QED
      BY <1>1, <1>2, <1>5, <3>1
  <2>2. /\ s.list[1] \in Slots /\ s.list[2] \in Slots /\ s.list[1] # s.list[2]
    BY <1>1, <1>2, <2>1 DEF IsInjective
  <2>3. p.s.list[1] = s.list[2]
    BY <1>1, <1>3, <2>1 DEF DeleteAt
  <2>4. S \subseteq {s.list[2]}
    BY <2>3
  <2>5. s.list[2] \in S
    <3>1. 1 \in DOMAIN p.s.list
      BY <1>1, <1>3, <2>1 DEF DeleteAt
    <3>2. QED
      BY <2>3, <3>1 DEF Range
  <2>6. p.calls = app_focus_stack_change_callback(value, nl[s.list[2]], NONBLOCK_CALLBACK_FLAG)
    BY <1>5 DEF app_focus_stack_pop, Result
  <2>7. value \in FID
    <3>1. APP_FOCUS_STATE_STACK_QUIT \in FocusState /\ s.node_list[s.list[1]] \in FID
      BY <1>1, <2>2 DEF FocusState
    <3>2. QED
      BY <3>1, StateChanged
  <2>8. /\ nl[s.list[2]] \in FID
        /\ nl[s.list[2]].focus_state = APP_FOCUS_STATE_STACK_TOP
        /\ nl[s.list[2]].callback_argv = s.node_list[s.list[2]].callback_argv
    <3>1. APP_FOCUS_STATE_STACK_TOP \in FocusState /\ s.node_list[s.list[2]] \in FID
      BY <1>1, <2>2 DEF FocusState
    <3>2. nl[s.list[2]] = [s.node_list[s.list[2]] EXCEPT !.focus_state = APP_FOCUS_STATE_STACK_TOP]
      BY <1>1, <2>2
    <3> HIDE DEF nl
    <3>3. QED
      BY <3>1, <3>2, StateChanged
  <2>9. SameRequest(p.s.node_list[s.list[2]], s.node_list[s.list[2]])
    <3>1. NONBLOCK_CALLBACK_FLAG \in Int
      BY DEF NONBLOCK_CALLBACK_FLAG
    <3>2. \A i \in Slots \ {s.list[1]} : SameRequest(p.s.node_list[i], s.node_list[i])
      BY <3>1, ZeroLevel, PopShape DEF DaemonStack, ST
    <3> HIDE DEF p
    <3>3. QED
      BY <2>2, <3>2
  <2> DEFINE req == nl[s.list[2]]
  <2>10. req \in FID /\ req.focus_state = APP_FOCUS_STATE_STACK_TOP
         /\ req.callback_argv = p.s.node_list[s.list[2]].callback_argv
    BY <2>8, <2>9 DEF SameRequest
  <2>11. p.calls = app_focus_stack_change_callback(value, req, NONBLOCK_CALLBACK_FLAG)
    BY <2>6
  <2> HIDE DEF p, value, nl, req, S
  <2>12. p.calls = <<Call(value, req)>>
    BY <2>11 DEF app_focus_stack_change_callback, NONBLOCK_CALLBACK_FLAG
  <2>13. DOMAIN p.calls = {1} /\ p.calls[1] # NULL /\ p.calls[1].cur = value
         /\ p.calls[1].req = req
    BY <2>7, <2>10, <2>12, CallNotNull
  <2>14. media_focus_play_arbitrate(value, req) = MEDIA_FOCUS_PLAY
    BY <2>10
    DEF media_focus_play_arbitrate, APP_FOCUS_STATE_STACK_TOP, APP_FOCUS_STATE_STACK_UNDER
  <2>15. Passive(p.s, s.list[2]) = MEDIA_FOCUS_PLAY
    BY <2>3 DEF Passive
  <2>16. Spread(p.s, S, p.calls)
    BY <2>4, <2>5, <2>10, <2>13, <2>14, <2>15 DEF Spread
  <2>17. QED
    BY <2>16 DEF p, S
<1>6. QED
  BY <1>4, <1>5

\* A deletion under the top leaves the top, and tells nobody.
LEMMA DeleteKeepsTop ==
    ASSUME NEW s, DaemonStack(s), ~ app_focus_stack_is_empty(s), NEW id,
           TopNode(s).client_id # id
    PROVE  LET r == app_focus_stack_delete(s, id, NONBLOCK_CALLBACK_FLAG)
           IN  r.s.list[1] = s.list[1] /\ r.calls = <<>>
<1> DEFINE r  == app_focus_stack_delete(s, id, NONBLOCK_CALLBACK_FLAG)
           at == PositionOf(s, id)
           found == {j \in DOMAIN s.list : s.node_list[s.list[j]].client_id = id}
<1>1. /\ s.list \in Seq(Slots) /\ Len(s.list) \in Nat /\ s.cur_size = Len(s.list)
      /\ DOMAIN s.list = 1 .. Len(s.list)
  BY StackFacts DEF DaemonStack
<1>2. CASE at = 0
  <2>1. r.s = s /\ r.calls = <<>>
    BY <1>2 DEF app_focus_stack_delete, Result
  <2>2. QED
    BY <2>1
<1>3. CASE at # 0
  <2>1. found # {} /\ at = Min(found)
    BY <1>3 DEF PositionOf
  <2>2. at \in found
    <3>1. found \subseteq Nat
      BY <1>1
    <3>2. QED
      BY <2>1, <3>1, MinNat
  <2>3. at \in 1 .. Len(s.list) /\ at # 1
    BY <1>1, <2>2 DEF TopNode
  <2>4. r.s.list = DeleteAt(s.list, at) /\ r.calls = <<>>
    <3> DEFINE q == app_focus_node_list_remove(s, s.node_list[s.list[at]].client_id)
    <3>1. r = Result([q EXCEPT !.list = DeleteAt(s.list, at), !.cur_size = s.cur_size - 1],
                     <<>>, 0)
      BY <1>3 DEF app_focus_stack_delete
    <3>2. q \in [node_list : {q.node_list}, list : {s.list}, cur_size : {s.cur_size}]
      BY DEF app_focus_node_list_remove, DaemonStack, ST, StackType
    <3> HIDE DEF q, at, r
    <3>3. QED
      BY <3>1, <3>2 DEF Result
  <2> HIDE DEF at, r
  <2>5. DeleteAt(s.list, at)[1] = s.list[1]
    BY <1>1, <2>3 DEF DeleteAt
  <2>6. QED
    BY <2>4, <2>5 DEF r
<1>4. QED
  BY <1>2, <1>3

\* What an abandon sends: nothing, with the top where it was, or, when the
\* top left, to every focus that is still queued.
AbandonTells(s, r) ==
    \/ r.calls = <<>> /\ r.s.list[1] = s.list[1]
    \/ Spread(r.s, Range(r.s.list), r.calls)

LEMMA AbandonSpread ==
    ASSUME NEW s, DaemonStack(s), NEW handle \in Handles \cup {NULL}
    PROVE  AbandonTells(s, media_focus_abandon_(s, handle))
<1> DEFINE a       == media_focus_abandon_(s, handle)
           deleted == app_focus_stack_delete(s, handle, NONBLOCK_CALLBACK_FLAG)
           spread  == app_focus_stack_top_change_broadcast(deleted.s, NONBLOCK_CALLBACK_FLAG)
<1>1. /\ app_focus_stack_useless_clear(s, {Daemon}, NONBLOCK_CALLBACK_FLAG).s = s
      /\ app_focus_stack_useless_clear(s, {Daemon}, NONBLOCK_CALLBACK_FLAG).calls = <<>>
  <2>1. \A j \in DOMAIN s.list : s.node_list[s.list[j]].thread_id \in {Daemon}
    BY DEF DaemonStack, Range
  <2>2. app_focus_stack_useless_clear(s, {Daemon}, NONBLOCK_CALLBACK_FLAG) = Result(s, <<>>, 0)
    BY <2>1, ClearNothing
  <2>3. QED
    BY <2>2 DEF Result
<1>2. CASE handle = NULL \/ app_focus_stack_is_empty(s)
  <2>1. a.s = s /\ a.calls = <<>>
    BY <1>1, <1>2 DEF media_focus_abandon_, Result
  <2>2. QED
    BY <2>1 DEF AbandonTells
<1>3. CASE handle # NULL /\ ~ app_focus_stack_is_empty(s) /\ TopNode(s).client_id # handle
  <2>1. a.s = deleted.s /\ a.calls = <<>> \o deleted.calls
    BY <1>1, <1>3 DEF media_focus_abandon_, Result
  <2>2. deleted.s.list[1] = s.list[1] /\ deleted.calls = <<>>
    BY <1>3, DeleteKeepsTop
  <2>3. a.calls = <<>>
    BY <2>1, <2>2
  <2> HIDE DEF a, deleted
  <2>4. AbandonTells(s, a)
    BY <2>1, <2>2, <2>3 DEF AbandonTells
  <2>5. QED
    BY <2>4 DEF a
<1>4. CASE handle # NULL /\ ~ app_focus_stack_is_empty(s) /\ TopNode(s).client_id = handle
  <2> DEFINE p == app_focus_stack_pop(s, NONBLOCK_CALLBACK_FLAG)
  <2>1. a.s = deleted.s /\ a.calls = <<>> \o deleted.calls \o spread.calls
    BY <1>1, <1>4 DEF media_focus_abandon_, Result
  <2>2. deleted = p
    BY <1>4 DEF app_focus_stack_delete
  <2>3. Spread(p.s, Range(p.s.list) \cap {p.s.list[1]}, p.calls)
    BY <1>4, PopSpread
  <2>4. NONBLOCK_CALLBACK_FLAG \in Int
    BY DEF NONBLOCK_CALLBACK_FLAG
  <2>5. deleted.calls \in Seq(CallType)
    BY <2>4, DeleteCalls DEF DaemonStack
  <2>6. AbandonOutcome(s, handle, a)
    BY AbandonStack
  <2> HIDE DEF p, deleted, a
  <2>7. DaemonStack(deleted.s)
    BY <2>1, <2>6 DEF AbandonOutcome
  <2>8. /\ Spread(deleted.s, Range(deleted.s.list) \ {deleted.s.list[1]}, spread.calls)
        /\ spread.calls \in Seq(CallType)
    BY <2>4, <2>7, BroadcastSpread, BroadcastCalls DEF DaemonStack
  <2> HIDE DEF spread
  <2>9. a.calls = deleted.calls \o spread.calls
    BY <2>1, <2>5, <2>8
  <2>10. Spread(deleted.s, (Range(deleted.s.list) \cap {deleted.s.list[1]})
                             \cup (Range(deleted.s.list) \ {deleted.s.list[1]}), a.calls)
    BY <2>2, <2>3, <2>5, <2>8, <2>9, SpreadConcat
  <2>11. (Range(deleted.s.list) \cap {deleted.s.list[1]})
            \cup (Range(deleted.s.list) \ {deleted.s.list[1]}) = Range(deleted.s.list)
    OBVIOUS
  <2>12. AbandonTells(s, a)
    BY <2>1, <2>10, <2>11 DEF AbandonTells
  <2>13. QED
    BY <2>12 DEF a
<1>5. QED
  BY <1>2, <1>3, <1>4

\* The clients told: each owner of a focus of S what is right for its focus,
\* nobody else anything.
LEMMA SpreadTells ==
    ASSUME NEW s, NEW S, NEW calls \in Seq(CallType), Spread(s, S, calls),
           NEW t \in [Clients -> Suggestions \cup {NULL}], NEW cs, NEW own,
           \A i \in S : /\ own[i] \in Clients
                        /\ cs[s.node_list[i].callback_argv].notify_fd = own[i],
           \A i, j \in S : own[i] = own[j] => i = j
    PROVE  /\ \A i \in S : media_focus_notify_cb(t, cs, calls)[own[i]] = Passive(s, i)
           /\ \A c \in Clients : (\A i \in S : own[i] # c) =>
                 media_focus_notify_cb(t, cs, calls)[c] = t[c]
<1> DEFINE mine(c) == {j \in DOMAIN calls :
                         /\ calls[j] # NULL
                         /\ c \in media_server_notify(cs[calls[j].req.callback_argv])}
           u       == media_focus_notify_cb(t, cs, calls)
<1>1. \A c \in Clients :
         u[c] = IF mine(c) = {} THEN t[c]
                ELSE media_focus_play_arbitrate(calls[Max(mine(c))].cur, calls[Max(mine(c))].req)
  BY DEF media_focus_notify_cb
<1>2. ASSUME NEW c \in Clients, NEW j \in mine(c)
      PROVE  \E i \in S : own[i] = c /\ media_focus_play_arbitrate(calls[j].cur, calls[j].req)
                                           = Passive(s, i)
  <2>1. PICK i \in S : /\ calls[j].req.callback_argv = s.node_list[i].callback_argv
                       /\ media_focus_play_arbitrate(calls[j].cur, calls[j].req) = Passive(s, i)
    BY <1>2 DEF Spread
  <2>2. c \in media_server_notify(cs[s.node_list[i].callback_argv])
    BY <1>2, <2>1
  <2>3. c = own[i]
    BY <2>1, <2>2 DEF media_server_notify
  <2>4. QED
    BY <2>1, <2>3
<1>3. \A c \in Clients : mine(c) # {} => Max(mine(c)) \in mine(c)
  <2>1. Len(calls) \in Nat /\ DOMAIN calls = 1 .. Len(calls)
    OBVIOUS
  <2>2. \A c \in Clients : mine(c) \subseteq 1 .. Len(calls)
    BY <2>1
  <2>3. QED
    BY <2>1, <2>2, MaxPosition
<1>4. ASSUME NEW i \in S
      PROVE  mine(own[i]) # {}
  <2>1. PICK j \in DOMAIN calls :
           calls[j] # NULL /\ calls[j].req.callback_argv = s.node_list[i].callback_argv
    BY DEF Spread
  <2>2. own[i] \in media_server_notify(cs[calls[j].req.callback_argv])
    BY <2>1 DEF media_server_notify, Open
  <2>3. QED
    BY <2>1, <2>2
<1> HIDE DEF mine, u
<1>5. ASSUME NEW i \in S
      PROVE  u[own[i]] = Passive(s, i)
  <2>1. own[i] \in Clients
    OBVIOUS
  <2> DEFINE m == Max(mine(own[i]))
  <2>2. m \in mine(own[i])
    BY <1>3, <1>4, <2>1
  <2>3. u[own[i]] = media_focus_play_arbitrate(calls[m].cur, calls[m].req)
    BY <1>1, <1>4, <2>1
  <2> HIDE DEF m
  <2>4. PICK j \in S : own[j] = own[i] /\ media_focus_play_arbitrate(calls[m].cur, calls[m].req)
                                             = Passive(s, j)
    BY <1>2, <2>1, <2>2
  <2>5. i = j
    BY <2>4
  <2>6. QED
    BY <2>3, <2>4, <2>5
<1>6. ASSUME NEW c \in Clients, \A i \in S : own[i] # c
      PROVE  u[c] = t[c]
  BY <1>1, <1>2, <1>6
<1>7. QED
  BY <1>5, <1>6 DEF u

\* Without a callback nobody is told anything.
LEMMA QuietTells ==
    ASSUME NEW t \in [Clients -> Suggestions \cup {NULL}], NEW cs
    PROVE  media_focus_notify_cb(t, cs, <<>>) = t
<1>1. DOMAIN <<>> = {}
  OBVIOUS
<1>2. media_focus_notify_cb(t, cs, <<>>) = [c \in Clients |-> t[c]]
  BY <1>1 DEF media_focus_notify_cb
<1>3. QED
  BY <1>2
-----------------------------------------------------------------------------

(***************************************************************************)
(* What the clients were last told.  That everyone has been told what is   *)
(* right for it rests on who is told: a client owns at most one queued     *)
(* focus, its cookie reaches it, and a client answered STOP owns none.     *)
(***************************************************************************)

\* Due, slot by slot.
DueTo(s, i) ==
    {Passive(s, i)} \cup
        (IF i = s.list[1] THEN {}
         ELSE {pro_inter[<<s.node_list[i].focus_level, TopNode(s).focus_level>>]} \cap
                  {MEDIA_FOCUS_PLAY_BUT_SILENT, MEDIA_FOCUS_PLAY_WITH_DUCK})

ToldRight == \A i \in Range(stack.list) : told[owner[i]] \in DueTo(stack, i)

ToldInv == CookieInv /\ ToldRight /\ StopIsFinal

\* The level of the top is that of a queued request.
LEMMA SameTopSameDue ==
    ASSUME NEW s, DaemonStack(s), NEW r, r.list[1] = s.list[1], 1 \in DOMAIN s.list,
           \A i \in Range(s.list) : SameRequest(r.node_list[i], s.node_list[i]),
           NEW i \in Range(s.list)
    PROVE  DueTo(r, i) = DueTo(s, i)
<1>1. s.list[1] \in Range(s.list)
  BY DEF Range
<1>2. TopNode(r).focus_level = TopNode(s).focus_level
  BY <1>1 DEF TopNode, SameRequest
<1>3. r.node_list[i].focus_level = s.node_list[i].focus_level
  BY DEF SameRequest
<1>4. QED
  BY <1>2, <1>3 DEF DueTo, Passive

\* A list that is not empty has a top.
LEMMA HasTop ==
    ASSUME NEW s, DaemonStack(s), NEW i \in Range(s.list)
    PROVE  1 \in DOMAIN s.list
<1>1. DOMAIN s.list = 1 .. Len(s.list) /\ Len(s.list) \in Nat
  BY StackFacts DEF DaemonStack
<1>2. PICK j \in DOMAIN s.list : s.list[j] = i
  BY DEF Range
<1>3. QED
  BY <1>1, <1>2

\* A client answered STOP owns no queued focus.
LEMMA StopOwnsNothing ==
    ASSUME ExitInv, NEW k \in Cookies, NEW c \in Clients,
           conns[k].tran_fd = c, phase[c] = "requested", conns[k].data \notin Slots
    PROVE  \A i \in Range(stack.list) : owner[i] # c
<1> SUFFICES ASSUME NEW i \in Range(stack.list), owner[i] = c PROVE FALSE
  OBVIOUS
<1>1. /\ i \in Slots
      /\ stack.node_list[i].callback_argv \in Cookies
  BY Queued DEF ExitInv, OwnInv, TypeInv
<1>2. conns[stack.node_list[i].callback_argv].tran_fd = c
  BY DEF ExitInv, FocusPaired
<1>3. stack.node_list[i].callback_argv = k
  BY <1>1, <1>2 DEF ExitInv, OwnInv, ConnUnique, Open
<1>4. conns[k].data = i
  BY <1>2, <1>3 DEF ExitInv, OwnInv, HandleIsOwn
<1>5. QED
  BY <1>1, <1>4

\* A request, up to its callbacks: the three ways its own client is told.
LEMMA RequestTold ==
    ASSUME ToldInv, NEW c \in Clients, NEW k \in Cookies,
           NEW level \in Levels \cup {UnknownStream}, Request(c, k, level)
    PROVE  (ToldRight /\ StopIsFinal)'
<1> DEFINE a == media_focus_request_(stack, level, k)
           h == a.handle
           u == media_focus_notify_cb(told, conns, a.calls)
<1>1. RequestOutcome(stack, level, k, a) /\ RequestTells(stack, level, a)
  BY RequestStack, RequestSpread DEF ToldInv, CookieInv, ExitInv, OwnInv, TypeInv
<1>2. /\ stack' = a.s
      /\ conns' = IF h = NULL THEN conns
                  ELSE [conns EXCEPT ![k] = media_server_set_data(conns[k], h)]
      /\ phase' = [phase EXCEPT ![c] = IF h = NULL THEN "refused" ELSE "requested"]
      /\ told' = [u EXCEPT ![c] = IF h = NULL THEN @ ELSE a.suggestion]
  BY DEF Request
<1>3. /\ phase[c] = "listening" /\ conns[k].tran_fd = c
      /\ \A d \in Clients \ {c} : phase'[d] = phase[d]
      /\ \A j \in Cookies : /\ conns'[j].tran_fd = conns[j].tran_fd
                            /\ conns'[j].notify_fd = conns[j].notify_fd
      /\ \A i \in Range(stack'.list) :
            \/ /\ i \in Range(stack.list) /\ owner'[i] = owner[i] /\ owner[i] \in Clients
               /\ stack'.node_list[i].callback_argv = stack.node_list[i].callback_argv
               /\ stack.node_list[i].callback_argv \in Cookies
            \/ i \notin Range(stack.list) /\ owner'[i] = c /\ i = h
  BY RequestKeeps DEF ToldInv, CookieInv, ExitInv
<1> HIDE DEF a
<1>4. told \in [Clients -> Suggestions \cup {NULL}] /\ conns \in [Cookies -> ConnType(Handles)]
      /\ DaemonStack(stack) /\ DaemonStack(stack')
  BY <1>1, <1>2 DEF ToldInv, CookieInv, ExitInv, OwnInv, TypeInv, TypeOK, RequestOutcome
<1>5. \A i \in Range(stack.list) : SameRequest(stack'.node_list[i], stack.node_list[i])
  BY <1>1, <1>2 DEF RequestOutcome
<1>6. \A i \in Range(stack.list) : owner[i] # c /\ owner[i] \in Clients
  BY <1>3 DEF ToldInv, CookieInv, ExitInv, FocusPaired, OwnInv, Owned
<1>7. a.calls \in Seq(CallType)
  BY <1>1 DEF RequestOutcome
<1>8. /\ \A i \in Range(stack.list) : /\ owner[i] \in Clients
                                      /\ conns[stack'.node_list[i].callback_argv].notify_fd
                                            = owner[i]
      /\ \A i, j \in Range(stack.list) : owner[i] = owner[j] => i = j
  BY <1>5, <1>6 DEF ToldInv, CookieInv, CookieOwned, ExitInv, FocusOnce, SameRequest
<1>9. u \in [Clients -> Suggestions \cup {NULL}]
  BY <1>4, <1>7, NotifyType
<1>10. /\ Spread(stack', Range(stack.list), a.calls) =>
              /\ \A i \in Range(stack.list) : u[owner[i]] = Passive(stack', i)
              /\ \A d \in Clients : (\A i \in Range(stack.list) : owner[i] # d) => u[d] = told[d]
       /\ a.calls = <<>> => u = told
  <2>1. ASSUME Spread(stack', Range(stack.list), a.calls)
        PROVE  /\ \A i \in Range(stack.list) : u[owner[i]] = Passive(stack', i)
               /\ \A d \in Clients : (\A i \in Range(stack.list) : owner[i] # d) => u[d] = told[d]
    <3> DEFINE r == stack'
               S == Range(stack.list)
    <3>1. Spread(r, S, a.calls)
      BY <2>1
    <3>2. /\ \A i \in S : /\ owner[i] \in Clients
                          /\ conns[r.node_list[i].callback_argv].notify_fd = owner[i]
          /\ \A i, j \in S : owner[i] = owner[j] => i = j
      BY <1>8
    <3> HIDE DEF r, S
    <3>3. /\ \A i \in S : u[owner[i]] = Passive(r, i)
          /\ \A d \in Clients : (\A i \in S : owner[i] # d) => u[d] = told[d]
      BY <3>1, <3>2, <1>4, <1>7, SpreadTells
    <3>4. QED
      BY <3>3 DEF r, S
  <2>2. a.calls = <<>> => u = told
    BY <1>4, QuietTells
  <2>3. QED
    BY <2>1, <2>2
<1>11. /\ \A d \in Clients \ {c} : told'[d] = u[d]
       /\ h # NULL => told'[c] = a.suggestion
  BY <1>2, <1>9
<1>12. /\ \A j \in Cookies \ {k} : conns'[j] = conns[j]
       /\ conns'[k].data = IF h = NULL THEN conns[k].data ELSE h
       /\ phase'[c] = IF h = NULL THEN "refused" ELSE "requested"
  <2>1. media_server_set_data(conns[k], h).data = h
    BY <1>4, ConnFields
  <2>2. phase \in [Clients -> Phases]
    BY DEF ToldInv, CookieInv, ExitInv, OwnInv, TypeInv, TypeOK
  <2>3. QED
    BY <1>2, <1>4, <2>1, <2>2
<1> HIDE DEF u, h
<1>13. \A d \in Clients : (\A i \in Range(stack.list) : owner[i] # d) => u[d] = told[d]
  <2>1. a.calls = <<>> \/ Spread(a.s, Range(stack.list), a.calls)
    BY <1>1 DEF RequestTells
  <2>2. QED
    BY <2>1, <1>2, <1>10
<1>14. StopIsFinal'
  <2> SUFFICES ASSUME NEW j \in Cookies, NEW d \in Clients,
                      conns'[j].tran_fd = d, phase'[d] = "requested", conns'[j].data \notin Slots
               PROVE  told'[d] = MEDIA_FOCUS_STOP
    BY DEF StopIsFinal
  <2>1. CASE d = c
    <3>1. j = k
      BY <1>3, <2>1 DEF ToldInv, CookieInv, ExitInv, OwnInv, ConnUnique, Open
    <3>2. h # NULL /\ h \notin Slots
      BY <1>12, <2>1, <3>1
    <3>3. a.suggestion = MEDIA_FOCUS_STOP
      BY <1>1, <3>2 DEF RequestTells, h
    <3>4. QED
      BY <1>11, <2>1, <3>2, <3>3
  <2>2. CASE d # c
    <3>1. j # k /\ conns[j].tran_fd = d /\ conns[j].data = conns'[j].data
          /\ phase[d] = "requested"
      BY <1>3, <1>12, <2>2
    <3>2. told[d] = MEDIA_FOCUS_STOP
      BY <3>1 DEF ToldInv, StopIsFinal
    <3>3. \A i \in Range(stack.list) : owner[i] # d
      BY <3>1, StopOwnsNothing DEF ToldInv, CookieInv
    <3>4. QED
      BY <1>11, <1>13, <2>2, <3>2, <3>3
  <2>3. QED
    BY <2>1, <2>2
<1>15. ToldRight'
  <2> SUFFICES ASSUME NEW i \in Range(stack'.list)
               PROVE  told'[owner'[i]] \in DueTo(stack', i)
    BY DEF ToldRight
  <2>1. CASE i \in Range(stack.list)
    <3>1. owner'[i] = owner[i] /\ owner[i] \in Clients \ {c} /\ told'[owner'[i]] = u[owner[i]]
      BY <1>3, <1>6, <1>11, <2>1
    <3>2. CASE a.calls = <<>> /\ stack'.list[1] = stack.list[1]
      <4>1. told'[owner'[i]] = told[owner[i]] /\ told[owner[i]] \in DueTo(stack, i)
        BY <1>10, <2>1, <3>1, <3>2 DEF ToldInv, ToldRight
      <4>2. 1 \in DOMAIN stack.list
        BY <1>4, <2>1, HasTop
      <4> DEFINE r == stack'
      <4>3. r.list[1] = stack.list[1] /\ \A n \in Range(stack.list) :
                                            SameRequest(r.node_list[n], stack.node_list[n])
        BY <1>5, <3>2
      <4> HIDE DEF r
      <4>4. DueTo(r, i) = DueTo(stack, i)
        BY <1>4, <2>1, <4>2, <4>3, SameTopSameDue
      <4>5. QED
        BY <4>1, <4>4 DEF r
    <3>3. CASE Spread(stack', Range(stack.list), a.calls)
      BY <1>10, <2>1, <3>1, <3>3 DEF DueTo
    <3>4. QED
      BY <1>1, <1>2, <3>2, <3>3 DEF RequestTells
  <2>2. CASE i \notin Range(stack.list)
    <3>1. owner'[i] = c /\ i = h
      BY <1>3, <2>2
    <3>2. i \in Slots /\ h # NULL
      <4>1. Range(stack'.list) \subseteq Slots
        BY <1>4, Queued
      <4>2. QED
        BY <3>1, <4>1, NullAssumption, MaxSizeAssumption DEF Slots
    <3>3. told'[owner'[i]] = a.suggestion
      BY <1>11, <3>1, <3>2
    <3>4. CASE stack'.list[1] = h /\ a.suggestion = MEDIA_FOCUS_PLAY
      BY <3>1, <3>3, <3>4 DEF DueTo, Passive
    <3>5. CASE /\ 1 \in DOMAIN stack.list /\ stack'.list[1] = stack.list[1]
               /\ stack'.node_list[h].focus_level = level
               /\ a.suggestion = pro_inter[<<level, TopNode(stack).focus_level>>]
               /\ a.suggestion \in {MEDIA_FOCUS_PLAY_BUT_SILENT, MEDIA_FOCUS_PLAY_WITH_DUCK}
      <4>1. stack.list[1] \in Range(stack.list)
        BY <3>5 DEF Range
      <4>2. i # stack'.list[1]
        BY <2>2, <3>5, <4>1
      <4>3. stack'.node_list[stack'.list[1]].focus_level = TopNode(stack).focus_level
        BY <1>5, <3>5, <4>1 DEF TopNode, SameRequest
      <4>4. QED
        BY <3>1, <3>3, <3>5, <4>2, <4>3 DEF DueTo, TopNode
    <3>6. a.handle \in Slots
      BY <3>1, <3>2 DEF h
    <3>7. QED
      BY <1>1, <1>2, <2>2, <3>2, <3>4, <3>5, <3>6 DEF RequestTells, h
  <2>3. QED
    BY <2>1, <2>2
<1>16. QED
  BY <1>14, <1>15

\* An abandon: the focuses that stay are told what is right under the new
\* top, or nothing under the old one.
LEMMA AbandonTold ==
    ASSUME ToldInv, NEW c \in Clients, NEW k \in Cookies, Abandon(c, k)
    PROVE  (ToldRight /\ StopIsFinal)'
<1> DEFINE handle == conns[k].data
           a      == media_focus_abandon_(stack, handle)
           S      == Range(stack'.list)
<1>1. handle \in Handles \cup {NULL}
  BY DEF ToldInv, CookieInv, ExitInv, OwnInv, TypeInv, TypeOK, ConnType
<1>2. AbandonOutcome(stack, handle, a) /\ AbandonTells(stack, a)
  <2> HIDE DEF handle
  <2>1. QED
    BY <1>1, AbandonStack, AbandonSpread DEF ToldInv, CookieInv, ExitInv, OwnInv, TypeInv
<1>3. stack' = a.s /\ told' = media_focus_notify_cb(told, conns', a.calls)
  BY DEF Abandon, media_server_get_data
<1>4. /\ conns[k].tran_fd = c /\ phase'[c] = "abandoned"
      /\ \A d \in Clients \ {c} : phase'[d] = phase[d]
      /\ conns'[k].tran_fd = conns[k].tran_fd
      /\ \A j \in Cookies \ {k} : conns'[j] = conns[j]
      /\ \A i \in Range(stack'.list) :
            /\ i \in Range(stack.list) /\ owner'[i] = owner[i] /\ owner[i] \in Clients
            /\ SameRequest(stack'.node_list[i], stack.node_list[i])
            /\ stack.node_list[i].callback_argv \in Cookies
  BY AbandonKeeps DEF ToldInv, CookieInv, ExitInv
<1>5. \A i \in Range(stack'.list) : stack.node_list[i].callback_argv # k
  BY AbandonElsewhere DEF ToldInv
<1> HIDE DEF a
<1>6. /\ told \in [Clients -> Suggestions \cup {NULL}] /\ a.calls \in Seq(CallType)
      /\ DaemonStack(stack) /\ DaemonStack(stack')
  BY <1>2, <1>3 DEF ToldInv, CookieInv, ExitInv, OwnInv, TypeInv, TypeOK, AbandonOutcome
<1>7. /\ \A i \in Range(stack'.list) :
            /\ owner[i] \in Clients
            /\ conns'[stack'.node_list[i].callback_argv].notify_fd = owner[i]
      /\ \A i, j \in Range(stack'.list) : owner[i] = owner[j] => i = j
  BY <1>4, <1>5 DEF ToldInv, CookieInv, CookieOwned, ExitInv, FocusOnce, SameRequest
<1>8. /\ Spread(stack', S, a.calls) =>
              /\ \A i \in S : told'[owner[i]] = Passive(stack', i)
              /\ \A d \in Clients : (\A i \in S : owner[i] # d) => told'[d] = told[d]
      /\ a.calls = <<>> => told' = told
  <2> DEFINE r  == stack'
             cs == conns'
             u  == media_focus_notify_cb(told, cs, a.calls)
  <2>1. told' = u
    BY <1>3
  <2>2. ASSUME Spread(r, S, a.calls)
        PROVE  /\ \A i \in S : u[owner[i]] = Passive(r, i)
               /\ \A d \in Clients : (\A i \in S : owner[i] # d) => u[d] = told[d]
    <3>1. /\ \A i \in S : /\ owner[i] \in Clients
                          /\ cs[r.node_list[i].callback_argv].notify_fd = owner[i]
          /\ \A i, j \in S : owner[i] = owner[j] => i = j
      BY <1>7
    <3> HIDE DEF r, S, cs
    <3>2. QED
      BY <2>2, <3>1, <1>6, SpreadTells
  <2>3. a.calls = <<>> => u = told
    <3> HIDE DEF cs
    <3>1. QED
      BY <1>6, QuietTells
  <2> HIDE DEF u
  <2>4. QED
    BY <2>1, <2>2, <2>3
<1>9. \A d \in Clients : (\A i \in Range(stack.list) : owner[i] # d) => told'[d] = told[d]
  <2>1. a.calls = <<>> \/ Spread(stack', S, a.calls)
    BY <1>2, <1>3 DEF AbandonTells
  <2>2. QED
    BY <1>4, <1>8, <2>1
<1>10. StopIsFinal'
  <2> SUFFICES ASSUME NEW j \in Cookies, NEW d \in Clients,
                      conns'[j].tran_fd = d, phase'[d] = "requested", conns'[j].data \notin Slots
               PROVE  told'[d] = MEDIA_FOCUS_STOP
    BY DEF StopIsFinal
  <2>1. d # c
    BY <1>4
  <2>2. j # k
    BY <1>4, <2>1
  <2>3. conns[j].tran_fd = d /\ conns[j].data \notin Slots /\ phase[d] = "requested"
    BY <1>4, <2>1, <2>2
  <2>4. told[d] = MEDIA_FOCUS_STOP
    BY <2>3 DEF ToldInv, StopIsFinal
  <2>5. \A i \in Range(stack.list) : owner[i] # d
    BY <2>3, StopOwnsNothing DEF ToldInv, CookieInv
  <2>6. QED
    BY <1>9, <2>4, <2>5
<1>11. ToldRight'
  <2> SUFFICES ASSUME NEW i \in Range(stack'.list)
               PROVE  told'[owner'[i]] \in DueTo(stack', i)
    BY DEF ToldRight
  <2>1. owner'[i] = owner[i] /\ i \in Range(stack.list)
    BY <1>4
  <2>2. CASE Spread(stack', S, a.calls)
    BY <1>8, <2>1, <2>2 DEF DueTo
  <2>3. CASE a.calls = <<>> /\ stack'.list[1] = stack.list[1]
    <3>1. told'[owner[i]] = told[owner[i]] /\ told[owner[i]] \in DueTo(stack, i)
      BY <1>8, <2>1, <2>3 DEF ToldInv, ToldRight
    <3>2. 1 \in DOMAIN stack.list /\ 1 \in DOMAIN stack'.list
      <4>1. 1 \in DOMAIN stack.list
        BY <1>6, <2>1, HasTop
      <4> DEFINE r == stack'
      <4>2. DaemonStack(r) /\ i \in Range(r.list)
        BY <1>6
      <4> HIDE DEF r
      <4>3. 1 \in DOMAIN r.list
        BY <4>2, HasTop
      <4>4. QED
        BY <4>1, <4>3 DEF r
    <3>3. stack'.list[1] \in Range(stack'.list)
      BY <3>2 DEF Range
    <3>4. /\ stack'.node_list[i].focus_level = stack.node_list[i].focus_level
          /\ stack'.node_list[stack'.list[1]].focus_level
                = stack.node_list[stack.list[1]].focus_level
      BY <1>4, <2>3, <3>3 DEF SameRequest
    <3>5. DueTo(stack', i) = DueTo(stack, i)
      BY <2>3, <3>4 DEF DueTo, Passive, TopNode
    <3>6. QED
      BY <2>1, <3>1, <3>5
  <2>4. QED
    BY <1>2, <1>3, <2>2, <2>3 DEF AbandonTells
<1>12. QED
  BY <1>10, <1>11

LEMMA ToldInit == Init => ToldInv
<1> SUFFICES ASSUME Init PROVE ToldInv
  OBVIOUS
<1>1. stack.list = <<>> /\ Range(stack.list) = {}
  BY DEF Init, app_focus_stack_init, Range
<1>2. QED
  BY <1>1, CookieInit DEF Init, ToldInv, ToldRight, StopIsFinal

LEMMA ToldNext == ~ NotifyMayFail /\ ToldInv /\ [Next]_vars => ToldInv'
<1> SUFFICES ASSUME ToldInv, [Next]_vars
             PROVE  (ToldRight /\ StopIsFinal)'
  BY CookieNext DEF ToldInv
<1>1. ASSUME NEW c \in Clients, media_server_accept(c)
      PROVE  (ToldRight /\ StopIsFinal)'
  <2>1. PICK k \in Cookies :
           conns' = [conns EXCEPT ![k] = media_server_conn_init(conns[k], c)]
    BY <1>1 DEF media_server_accept, AcceptEntry
  <2>2. conns'[k].tran_fd = c /\ \A j \in Cookies \ {k} : conns'[j] = conns[j]
    BY <2>1, ConnFields DEF ToldInv, CookieInv, ExitInv, OwnInv, TypeInv, TypeOK
  <2>3. /\ phase'[c] = "connected"
        /\ \A d \in Clients \ {c} : phase'[d] = phase[d] /\ told'[d] = told[d]
        /\ UNCHANGED <<stack, owner>>
    BY <1>1 DEF media_server_accept, ToldInv, CookieInv, ExitInv, OwnInv, TypeInv, TypeOK
  <2>4. \A i \in Range(stack.list) : owner[i] \in Clients \ {c}
    BY <1>1, Queued
    DEF media_server_accept, Remnant, ToldInv, CookieInv, ExitInv, OwnInv, TypeInv, Owned
  <2>5. ToldRight'
    BY <2>3, <2>4 DEF ToldInv, ToldRight
  <2>6. StopIsFinal'
    BY <2>2, <2>3 DEF ToldInv, StopIsFinal
  <2>7. QED
    BY <2>5, <2>6
<1>2. ASSUME NEW c \in Clients, NEW k \in Cookies, NEW ok \in BOOLEAN, CreateNotify(c, k, ok)
      PROVE  (ToldRight /\ StopIsFinal)'
  <2>1. \A j \in Cookies : conns'[j].tran_fd = conns[j].tran_fd /\ conns'[j].data = conns[j].data
    BY <1>2, ConnFields DEF CreateNotify, ToldInv, CookieInv, ExitInv, OwnInv, TypeInv, TypeOK
  <2>2. /\ phase'[c] = "listening" /\ \A d \in Clients \ {c} : phase'[d] = phase[d]
        /\ UNCHANGED <<stack, owner, told>>
    BY <1>2 DEF CreateNotify, ToldInv, CookieInv, ExitInv, OwnInv, TypeInv, TypeOK
  <2>3. QED
    BY <2>1, <2>2 DEF ToldInv, ToldRight, StopIsFinal
<1>3. ASSUME NEW c \in Clients, NEW k \in Cookies, Hangup(c, k)
      PROVE  (ToldRight /\ StopIsFinal)'
  <2>1. /\ conns'[k].tran_fd = CLOSED /\ \A j \in Cookies \ {k} : conns'[j] = conns[j]
    BY <1>3, ConnFields DEF Hangup, ToldInv, CookieInv, ExitInv, OwnInv, TypeInv, TypeOK
  <2>2. /\ phase'[c] = "idle" /\ \A d \in Clients \ {c} : phase'[d] = phase[d]
        /\ UNCHANGED <<stack, owner, told>>
    BY <1>3 DEF Hangup, ToldInv, CookieInv, ExitInv, OwnInv, TypeInv, TypeOK
  <2>3. QED
    BY <2>1, <2>2, FdAssumption DEF ToldInv, ToldRight, StopIsFinal
<1>4. ASSUME NEW c \in Clients, Die(c)
      PROVE  (ToldRight /\ StopIsFinal)'
  BY <1>4 DEF Die, ToldInv, ToldRight, StopIsFinal
<1>5. CASE UNCHANGED vars
  BY <1>5 DEF vars, ToldInv, ToldRight, StopIsFinal
<1>6. QED
  BY <1>1, <1>2, <1>3, <1>4, <1>5, RequestTold, AbandonTold DEF Next

\* What ToldRight says slot by slot, position by position.
LEMMA ToldDue == ToldInv => Arbitrated
<1> SUFFICES ASSUME ToldInv, NEW j \in DOMAIN stack.list
             PROVE  told[OwnerOf(j)] \in Due(j)
  BY DEF Arbitrated
<1>1. DOMAIN stack.list = 1 .. Len(stack.list) /\ Len(stack.list) \in Nat
  BY StackFacts DEF ToldInv, CookieInv, ExitInv, OwnInv, TypeInv, DaemonStack
<1>2. 1 \in DOMAIN stack.list /\ IsInjective(stack.list)
  BY <1>1, ShapeFacts DEF ToldInv, CookieInv, ExitInv, OwnInv, TypeInv, DaemonStack, ST
<1>3. stack.list[j] = stack.list[1] <=> j = 1
  BY <1>2 DEF IsInjective
<1>4. stack.list[j] \in Range(stack.list)
  BY DEF Range
<1>5. told[OwnerOf(j)] \in DueTo(stack, stack.list[j])
  BY <1>4 DEF ToldInv, ToldRight, OwnerOf
<1>6. DueTo(stack, stack.list[j]) = Due(j)
  BY <1>3 DEF DueTo, Due, Passive, Entry, TopNode
<1>7. QED
  BY <1>5, <1>6

(* After every request and every abandon the client of each queued focus   *)
(* has last been told what the interaction matrix says about it under the  *)
(* focus that is now the top: no change of the top leaves a client with    *)
(* the suggestion of a former one.                                         *)
THEOREM EveryoneTold == ~ NotifyMayFail => (Spec => []Arbitrated)
<1> SUFFICES ASSUME ~ NotifyMayFail PROVE Spec => []Arbitrated
  OBVIOUS
<1>1. ToldInv /\ [Next]_vars => ToldInv'
  BY ToldNext
<1>2. QED
  BY <1>1, ToldDue, ToldInit, PTL DEF Spec

(* A client whose request was answered STOP is left alone: no later        *)
(* request or abandon of another client makes the server tell it anything. *)
THEOREM StoppedStays == ~ NotifyMayFail => (Spec => []StopIsFinal)
<1> SUFFICES ASSUME ~ NotifyMayFail PROVE Spec => []StopIsFinal
  OBVIOUS
<1>1. ToldInv => StopIsFinal
  BY DEF ToldInv
<1>2. ToldInv /\ [Next]_vars => ToldInv'
  BY ToldNext
<1>3. QED
  BY <1>1, <1>2, ToldInit, PTL DEF Spec
-----------------------------------------------------------------------------

(***************************************************************************)
(* What the applications heard.  The answer and the suggestions come by    *)
(* two sockets; the invariant says what a client will have heard last when *)
(* it has read both.                                                       *)
(***************************************************************************)

\* Callback n of an operation reaches client c.
Reaches(cs, calls, c, n) ==
    /\ calls[n] # NULL
    /\ c \in media_server_notify(cs[calls[n].req.callback_argv])

Told(calls, n) == media_focus_play_arbitrate(calls[n].cur, calls[n].req)

\* The recursive function of Notified, up to callback m.
Sending(cs, calls, c, m, q) ==
    q = [n \in 0 .. m |-> IF n = 0 THEN <<>>
                          ELSE IF Reaches(cs, calls, c, n)
                          THEN Append(q[n - 1], Told(calls, n))
                          ELSE q[n - 1]]

\* The function exists, so that it satisfies its equation.
LEMMA SendingExists ==
    ASSUME NEW cs, NEW calls, NEW c, NEW m \in Nat
    PROVE  \E q : Sending(cs, calls, c, m, q)
<1> DEFINE S == {n \in Nat : ~ \E q : Sending(cs, calls, c, n, q)}
<1>1. SUFFICES ASSUME S # {} PROVE FALSE
  OBVIOUS
<1>2. PICK n \in S : \A y \in S : n <= y
  BY <1>1, MinNat
<1>3. CASE n = 0
  <2> DEFINE q == [k \in 0 .. 0 |-> <<>>]
  <2>1. Sending(cs, calls, c, 0, q)
    BY DEF Sending
  <2>2. QED
    BY <1>3, <2>1
<1>4. CASE n # 0
  <2>1. n - 1 \in Nat /\ n - 1 \notin S
    BY <1>2, <1>4
  <2>2. PICK r : Sending(cs, calls, c, n - 1, r)
    BY <2>1
  <2> DEFINE last == IF Reaches(cs, calls, c, n) THEN Append(r[n - 1], Told(calls, n))
                     ELSE r[n - 1]
             q    == [k \in 0 .. n |-> IF k = n THEN last ELSE r[k]]
  <2>3. \A k \in 0 .. n - 1 : r[k] = IF k = 0 THEN <<>>
                                     ELSE IF Reaches(cs, calls, c, k)
                                     THEN Append(r[k - 1], Told(calls, k))
                                     ELSE r[k - 1]
    BY <2>2 DEF Sending
  <2>4. ASSUME NEW k \in 0 .. n
        PROVE  q[k] = IF k = 0 THEN <<>>
                      ELSE IF Reaches(cs, calls, c, k)
                      THEN Append(q[k - 1], Told(calls, k))
                      ELSE q[k - 1]
    <3>1. CASE k = n
      <4>1. q[k] = last /\ q[k - 1] = r[n - 1]
        BY <3>1, <1>4, <1>2
      <4>2. QED
        BY <4>1, <3>1, <1>4
    <3>2. CASE k # n
      <4>1. k \in 0 .. n - 1 /\ q[k] = r[k]
        BY <3>2
      <4>2. k # 0 => q[k - 1] = r[k - 1]
        BY <4>1
      <4> HIDE DEF q
      <4>3. QED
        BY <4>1, <4>2, <2>3
    <3>3. QED
      BY <3>1, <3>2
  <2>5. q = [k \in 0 .. n |-> q[k]]
    OBVIOUS
  <2> HIDE DEF q
  <2>6. Sending(cs, calls, c, n, q)
    BY <2>4, <2>5 DEF Sending
  <2>7. QED
    BY <2>6
<1>5. QED
  BY <1>3, <1>4

\* Notified is the value of such a function.
LEMMA NotifiedSent ==
    ASSUME NEW cs, NEW calls \in Seq(CallType), NEW c
    PROVE  \E q : Sending(cs, calls, c, Len(calls), q) /\ Notified(cs, calls, c) = q[Len(calls)]
<1> DEFINE F(q) == q = [n \in 0 .. Len(calls) |->
                           IF n = 0 THEN <<>>
                           ELSE IF /\ calls[n] # NULL
                                   /\ c \in media_server_notify(cs[calls[n].req.callback_argv])
                           THEN Append(q[n - 1],
                                       media_focus_play_arbitrate(calls[n].cur, calls[n].req))
                           ELSE q[n - 1]]
           q0   == CHOOSE q : F(q)
<1>1. Notified(cs, calls, c) = q0[Len(calls)]
  BY DEF Notified
<1>2. Len(calls) \in Nat
  OBVIOUS
<1>3. PICK r : Sending(cs, calls, c, Len(calls), r)
  BY <1>2, SendingExists
<1>4. F(r)
  BY <1>3 DEF Sending, Reaches, Told
<1> HIDE DEF F
<1>5. F(q0)
  BY <1>4
<1>6. Sending(cs, calls, c, Len(calls), q0)
  <2> HIDE DEF q0
  <2>1. QED
    BY <1>5 DEF F, Sending, Reaches, Told
<1>7. QED
  BY <1>1, <1>6

\* What has been sent up to callback m: nothing if none of them reaches the
\* client, and otherwise last what the last that does says.
SentSo(cs, calls, c, m, sent) ==
    /\ sent \in Seq(Suggestions)
    /\ \/ sent = <<>> /\ \A n \in 1 .. m : ~ Reaches(cs, calls, c, n)
       \/ \E n \in 1 .. m :
             /\ Reaches(cs, calls, c, n)
             /\ \A k \in 1 .. m : Reaches(cs, calls, c, k) => k <= n
             /\ sent # <<>> /\ sent[Len(sent)] = Told(calls, n)

LEMMA SendingSends ==
    ASSUME NEW cs, NEW calls \in Seq(CallType), NEW c, NEW q,
           Sending(cs, calls, c, Len(calls), q)
    PROVE  \A m \in 0 .. Len(calls) : SentSo(cs, calls, c, m, q[m])
<1> DEFINE S == {m \in 0 .. Len(calls) : ~ SentSo(cs, calls, c, m, q[m])}
<1>1. SUFFICES ASSUME S # {} PROVE FALSE
  OBVIOUS
<1>2. Len(calls) \in Nat /\ S \subseteq Nat
  OBVIOUS
<1>3. PICK m \in S : \A y \in S : m <= y
  BY <1>1, <1>2, MinNat
<1>4. q[m] = IF m = 0 THEN <<>>
             ELSE IF Reaches(cs, calls, c, m) THEN Append(q[m - 1], Told(calls, m))
             ELSE q[m - 1]
  BY DEF Sending
<1>5. CASE m = 0
  <2>1. q[m] = <<>> /\ <<>> \in Seq(Suggestions)
    BY <1>4, <1>5
  <2>2. \A n \in 1 .. m : FALSE
    BY <1>5
  <2>3. SentSo(cs, calls, c, m, q[m])
    BY <2>1, <2>2 DEF SentSo
  <2>4. QED
    BY <2>3
<1>6. CASE m # 0
  <2>1. m \in 1 .. Len(calls) /\ m - 1 \in 0 .. Len(calls) /\ m - 1 \notin S
    BY <1>2, <1>3, <1>6
  <2>2. SentSo(cs, calls, c, m - 1, q[m - 1])
    BY <2>1
  <2>3. CASE Reaches(cs, calls, c, m)
    <3>1. calls[m] \in [cur : FID, req : FID]
      BY <2>1, <2>3 DEF Reaches, CallType
    <3>2. Told(calls, m) \in Suggestions
      BY <3>1, ArbitrateType DEF Told
    <3> DEFINE e == Told(calls, m)
               p == q[m - 1]
    <3>3. q[m] = Append(p, e) /\ p \in Seq(Suggestions) /\ e \in Suggestions
      BY <1>4, <1>6, <2>2, <2>3, <3>2 DEF SentSo
    <3> HIDE DEF e, p
    <3>4. /\ q[m] \in Seq(Suggestions) /\ Len(q[m]) = Len(p) + 1 /\ Len(p) \in Nat
          /\ q[m][Len(q[m])] = e
      BY <3>3
    <3>5. q[m] # <<>>
      BY <3>4
    <3>6. SentSo(cs, calls, c, m, q[m])
      BY <2>1, <2>3, <3>4, <3>5 DEF SentSo, e
    <3>7. QED
      BY <3>6
  <2>4. CASE ~ Reaches(cs, calls, c, m)
    <3>1. q[m] = q[m - 1]
      BY <1>4, <1>6, <2>4
    <3>2. \A n \in 1 .. m : n \in 1 .. m - 1 \/ n = m
      BY <2>1
    <3>3. \A n \in 1 .. m - 1 : n \in 1 .. m
      BY <2>1
    <3>4. SentSo(cs, calls, c, m, q[m - 1])
      BY <2>2, <2>4, <3>2, <3>3 DEF SentSo
    <3>5. QED
      BY <3>1, <3>4
  <2>5. QED
    BY <2>3, <2>4
<1>7. QED
  BY <1>5, <1>6

\* A client is sent nothing, and then the server's record of what it told it
\* stays, or what it is sent last is that record.
LEMMA NotifiedLast ==
    ASSUME NEW t, NEW cs, NEW calls \in Seq(CallType), NEW c \in Clients
    PROVE  /\ Notified(cs, calls, c) \in Seq(Suggestions)
           /\ (Notified(cs, calls, c) = <<>>) =>
                 media_focus_notify_cb(t, cs, calls)[c] = t[c]
           /\ (Notified(cs, calls, c) # <<>>) =>
                 Notified(cs, calls, c)[Len(Notified(cs, calls, c))]
                    = media_focus_notify_cb(t, cs, calls)[c]
<1> DEFINE sent == Notified(cs, calls, c)
           mine == {j \in DOMAIN calls :
                      /\ calls[j] # NULL
                      /\ c \in media_server_notify(cs[calls[j].req.callback_argv])}
           told1 == media_focus_notify_cb(t, cs, calls)[c]
<1>1. Len(calls) \in Nat /\ DOMAIN calls = 1 .. Len(calls)
  OBVIOUS
<1>2. mine = {j \in 1 .. Len(calls) : Reaches(cs, calls, c, j)}
  BY <1>1 DEF Reaches
<1>3. told1 = IF mine = {} THEN t[c] ELSE Told(calls, Max(mine))
  BY DEF media_focus_notify_cb, Told
<1>4. SentSo(cs, calls, c, Len(calls), sent)
  <2>1. PICK q : Sending(cs, calls, c, Len(calls), q) /\ sent = q[Len(calls)]
    BY NotifiedSent
  <2>2. Len(calls) \in 0 .. Len(calls)
    BY <1>1
  <2> HIDE DEF sent
  <2>3. SentSo(cs, calls, c, Len(calls), q[Len(calls)])
    BY <2>1, <2>2, SendingSends
  <2>4. QED
    BY <2>1, <2>3
<1> HIDE DEF sent, mine, told1
<1>5. CASE sent = <<>> /\ \A n \in 1 .. Len(calls) : ~ Reaches(cs, calls, c, n)
  BY <1>2, <1>3, <1>4, <1>5 DEF SentSo, sent, told1
<1>6. ASSUME NEW n \in 1 .. Len(calls),
             Reaches(cs, calls, c, n),
             \A k \in 1 .. Len(calls) : Reaches(cs, calls, c, k) => k <= n,
             sent # <<>>, sent[Len(sent)] = Told(calls, n)
      PROVE  sent[Len(sent)] = told1
  <2>1. n \in mine /\ mine \subseteq 1 .. Len(calls) /\ \A k \in mine : k <= n
    BY <1>2, <1>6
  <2>2. \A x \in mine : (\A y \in mine : x >= y) => x = n
    BY <2>1, <1>1
  <2>3. \A y \in mine : n >= y
    BY <2>1, <1>1
  <2>4. Max(mine) = n
    BY <2>1, <2>2, <2>3 DEF Max
  <2>5. QED
    BY <1>3, <1>6, <2>1, <2>4
<1>7. QED
  BY <1>4, <1>5, <1>6 DEF SentSo, sent, told1

\* The focuses of S notify their owners, and c is none of them.
Elsewhere(s, S, cs, own, c) ==
    \A i \in S : cs[s.node_list[i].callback_argv].notify_fd = own[i] /\ own[i] # c

\* At most the focuses of S are told.
SpreadAtMost(s, S, calls) == calls = <<>> \/ Spread(s, S, calls)

\* Nobody but the owners of the focuses told is sent anything.
LEMMA SpreadElsewhere ==
    ASSUME NEW s, NEW S, NEW calls \in Seq(CallType), SpreadAtMost(s, S, calls),
           NEW cs, NEW own, NEW c \in Clients, Elsewhere(s, S, cs, own, c)
    PROVE  Notified(cs, calls, c) = <<>>
<1>1. PICK q : Sending(cs, calls, c, Len(calls), q) /\ Notified(cs, calls, c) = q[Len(calls)]
  BY NotifiedSent
<1>2. Len(calls) \in Nat /\ DOMAIN calls = 1 .. Len(calls)
  OBVIOUS
<1>3. SentSo(cs, calls, c, Len(calls), q[Len(calls)])
  BY <1>1, <1>2, SendingSends
<1>4. ASSUME NEW n \in 1 .. Len(calls), Reaches(cs, calls, c, n)
      PROVE  FALSE
  <2>1. calls # <<>>
    BY <1>2
  <2>2. PICK i \in S : calls[n].req.callback_argv = s.node_list[i].callback_argv
    BY <1>2, <1>4, <2>1 DEF SpreadAtMost, Spread, Reaches
  <2>3. c \in media_server_notify(cs[s.node_list[i].callback_argv])
    BY <1>4, <2>2 DEF Reaches
  <2>4. c = own[i]
    BY <2>2, <2>3 DEF media_server_notify, Elsewhere
  <2>5. QED
    BY <2>2, <2>4 DEF Elsewhere
<1>5. QED
  BY <1>1, <1>3, <1>4 DEF SentSo

\* A socket that held "old" holds f after n was sent: n is empty and nothing
\* changed, or f ends with what the client "is" told.
Arrived(f, old, n, was, is) ==
    /\ n = <<>> => f = old /\ is = was
    /\ n # <<>> => f # <<>> /\ f[Len(f)] = is

\* A client's socket after an operation that lost nothing of it: it holds what
\* it held and what is sent, and ends with what the client was told last.
LEMMA DeliveredLast ==
    ASSUME NEW t, NEW cs, NEW calls \in Seq(CallType), NEW c \in Clients,
           NEW old \in Seq(Suggestions), NEW q, q = old \o Notified(cs, calls, c)
    PROVE  /\ Fits(q) \in Seq(Suggestions)
           /\ Len(q) <= NotifyQueue =>
                 Arrived(Fits(q), old, Notified(cs, calls, c), t[c],
                         media_focus_notify_cb(t, cs, calls)[c])
<1> DEFINE n == Notified(cs, calls, c)
<1>1. /\ n \in Seq(Suggestions)
      /\ n = <<>> => media_focus_notify_cb(t, cs, calls)[c] = t[c]
      /\ n # <<>> => n[Len(n)] = media_focus_notify_cb(t, cs, calls)[c]
  BY NotifiedLast
<1> HIDE DEF n
<1>2. q \in Seq(Suggestions) /\ Len(q) = Len(old) + Len(n) /\ Len(old) \in Nat /\ Len(n) \in Nat
  BY <1>1 DEF n
<1> DEFINE T == {NotifyQueue, Len(q)}
           m == Min(T)
<1>3. m \in T /\ \A y \in T : m <= y
  <2>1. T \subseteq Nat /\ T # {}
    BY <1>2, NotifyQueueAssumption
  <2> HIDE DEF T
  <2>2. QED
    BY <2>1, MinNat
<1>4. Fits(q) = SubSeq(q, 1, m)
  BY DEF Fits
<1> HIDE DEF m
<1>5. Fits(q) \in Seq(Suggestions)
  BY <1>2, <1>3, <1>4, NotifyQueueAssumption
<1>6. Len(q) <= NotifyQueue => Fits(q) = q
  <2>1. Len(q) <= NotifyQueue => m = Len(q)
    BY <1>2, <1>3, NotifyQueueAssumption
  <2>2. SubSeq(q, 1, Len(q)) = q
    BY <1>2
  <2>3. QED
    BY <1>4, <2>1, <2>2
<1>7. n = <<>> => q = old
  BY DEF n
<1>8. n # <<>> => q # <<>> /\ q[Len(q)] = n[Len(n)]
  <2>1. n # <<>> => Len(n) >= 1
    BY <1>1
  <2>2. \A j \in 1 .. Len(n) : q[Len(old) + j] = n[j]
    BY <1>1 DEF n
  <2>3. n # <<>> => q[Len(old) + Len(n)] = n[Len(n)]
    BY <1>2, <2>1, <2>2
  <2>4. n # <<>> => q # <<>>
    BY <1>2, <2>1
  <2>5. QED
    BY <1>2, <2>3, <2>4
<1>9. QED
  BY <1>1, <1>5, <1>6, <1>7, <1>8 DEF n, Arrived

\* What c will have heard last when it has read what lies on its sockets.
WillHear(c) ==
    IF events[c] # <<>> THEN events[c][Len(events[c])]
    ELSE IF reply[c] # NULL THEN reply[c] ELSE heard[c]

SocketsTyped ==
    /\ DOMAIN reply = Clients /\ DOMAIN heard = Clients
    /\ events \in [Clients -> Seq(Suggestions)]

\* A client that has not requested and owns no focus is told nothing.
Untold ==
    \A c \in Clients :
        /\ phase[c] \in {"idle", "connected", "listening"}
        /\ \A i \in Range(stack.list) : owner[i] # c
        => events[c] = <<>> /\ reply[c] = NULL

\* What a client will have heard last is what the server told it last.
TellsLast ==
    \A c \in Clients \ (overtaken \cup lost) : phase[c] = "requested" => WillHear(c) = told[c]

RpcInv == ToldInv /\ SocketsTyped /\ Untold /\ TellsLast

\* One client's part of a delivery.
Delivered(c, cs, calls, u) ==
    /\ events'[c] \in Seq(Suggestions)
    /\ c \notin lost' => Arrived(events'[c], events[c], Notified(cs, calls, c), told[c], u[c])

\* media_server_notify on every socket an operation reaches.
LEMMA DeliverSends ==
    ASSUME SocketsTyped, NEW calls \in Seq(CallType), NEW cs, Deliver(cs, calls)
    PROVE  /\ events' \in [Clients -> Seq(Suggestions)]
           /\ lost \subseteq lost'
           /\ \A c \in Clients :
                 /\ Delivered(c, cs, calls, media_focus_notify_cb(told, cs, calls))
                 /\ events[c] = <<>> /\ Notified(cs, calls, c) = <<>> => events'[c] = <<>>
<1> DEFINE q(c) == events[c] \o Notified(cs, calls, c)
<1>1. /\ events' = [c \in Clients |-> Fits(q(c))]
      /\ lost' = lost \cup {c \in Clients : Len(q(c)) > NotifyQueue}
  BY DEF Deliver
<1>2. ASSUME NEW c \in Clients
      PROVE  /\ Fits(q(c)) \in Seq(Suggestions)
             /\ Len(q(c)) \in Nat
             /\ Len(q(c)) <= NotifyQueue =>
                   Arrived(Fits(q(c)), events[c], Notified(cs, calls, c), told[c],
                           media_focus_notify_cb(told, cs, calls)[c])
             /\ events[c] = <<>> /\ Notified(cs, calls, c) = <<>> => Len(q(c)) <= NotifyQueue
  <2>1. events[c] \in Seq(Suggestions)
    BY DEF SocketsTyped
  <2>2. PICK x : x = q(c)
    OBVIOUS
  <2>3. Notified(cs, calls, c) \in Seq(Suggestions)
    BY NotifiedLast
  <2>4. Len(x) \in Nat
    BY <2>1, <2>2, <2>3
  <2>5. events[c] = <<>> /\ Notified(cs, calls, c) = <<>> => Len(x) <= NotifyQueue
    BY <2>1, <2>2, NotifyQueueAssumption
  <2>6. x = events[c] \o Notified(cs, calls, c)
    BY <2>2
  <2>7. /\ Fits(x) \in Seq(Suggestions)
        /\ Len(x) <= NotifyQueue =>
              Arrived(Fits(x), events[c], Notified(cs, calls, c), told[c],
                      media_focus_notify_cb(told, cs, calls)[c])
    BY <2>1, <2>6, DeliveredLast
  <2> HIDE DEF q
  <2>8. QED
    BY <2>2, <2>4, <2>5, <2>7
<1> HIDE DEF q
<1>3. ASSUME NEW c \in Clients
      PROVE  /\ Delivered(c, cs, calls, media_focus_notify_cb(told, cs, calls))
             /\ events[c] = <<>> /\ Notified(cs, calls, c) = <<>> => events'[c] = <<>>
  <2>1. events'[c] = Fits(q(c)) /\ (c \notin lost' => Len(q(c)) <= NotifyQueue)
    BY <1>1, <1>2, NotifyQueueAssumption
  <2>2. Delivered(c, cs, calls, media_focus_notify_cb(told, cs, calls))
    BY <1>2, <2>1 DEF Delivered
  <2>3. events[c] = <<>> /\ Notified(cs, calls, c) = <<>> => events'[c] = <<>>
    BY <1>2, <2>1 DEF Arrived
  <2>4. QED
    BY <2>2, <2>3
<1>4. events' \in [Clients -> Seq(Suggestions)]
  BY <1>1, <1>2
<1>5. QED
  BY <1>1, <1>3, <1>4

\* A request: its own client has the answer, nothing else, and every other
\* client what it had and what it was sent.
LEMMA HearRequest ==
    ASSUME RpcInv, NEW c \in Clients, NEW k \in Cookies,
           NEW level \in Levels \cup {UnknownStream}, RpcRequest(c, k, level)
    PROVE  (SocketsTyped /\ Untold /\ TellsLast)'
<1> DEFINE a == media_focus_request_(stack, level, k)
           h == a.handle
           u == media_focus_notify_cb(told, conns, a.calls)
<1>1. /\ Request(c, k, level) /\ Deliver(conns, a.calls)
      /\ reply' = [reply EXCEPT ![c] = a.suggestion]
      /\ heard' = heard /\ overtaken' = overtaken
  BY DEF RpcRequest
<1>2. RequestOutcome(stack, level, k, a) /\ RequestTells(stack, level, a)
  BY RequestStack, RequestSpread DEF RpcInv, ToldInv, CookieInv, ExitInv, OwnInv, TypeInv
<1>3. /\ phase[c] = "listening"
      /\ \A d \in Clients \ {c} : phase'[d] = phase[d]
      /\ phase'[c] \in {"requested", "refused"}
      /\ \A i \in Range(stack'.list) :
            \/ i \in Range(stack.list) /\ owner'[i] = owner[i]
            \/ i \notin Range(stack.list) /\ owner'[i] = c
  BY <1>1, RequestKeeps DEF RpcInv, ToldInv, CookieInv, ExitInv
<1>4. /\ stack' = a.s
      /\ phase' = [phase EXCEPT ![c] = IF h = NULL THEN "refused" ELSE "requested"]
      /\ told' = [u EXCEPT ![c] = IF h = NULL THEN @ ELSE a.suggestion]
  BY <1>1 DEF Request
<1> HIDE DEF a
<1>5. /\ a.calls \in Seq(CallType) /\ told \in [Clients -> Suggestions \cup {NULL}]
      /\ phase \in [Clients -> Phases]
  BY <1>2 DEF RequestOutcome, RpcInv, ToldInv, CookieInv, ExitInv, OwnInv, TypeInv, TypeOK
<1>6. u \in [Clients -> Suggestions \cup {NULL}]
  BY <1>5, NotifyType
<1>7. /\ events' \in [Clients -> Seq(Suggestions)] /\ lost \subseteq lost'
      /\ \A d \in Clients :
            /\ Delivered(d, conns, a.calls, u)
            /\ events[d] = <<>> /\ Notified(conns, a.calls, d) = <<>> => events'[d] = <<>>
  BY <1>1, <1>5, DeliverSends DEF RpcInv
<1>8. /\ \A i \in Range(stack.list) : SameRequest(stack'.node_list[i], stack.node_list[i])
      /\ a.calls = <<>> \/ Spread(stack', Range(stack.list), a.calls)
  BY <1>2, <1>4 DEF RequestOutcome, RequestTells
<1>9. ASSUME NEW d \in Clients, \A i \in Range(stack.list) : owner[i] # d
      PROVE  Notified(conns, a.calls, d) = <<>>
  <2>1. \A i \in Range(stack.list) : conns[stack'.node_list[i].callback_argv].notify_fd = owner[i]
    BY <1>8 DEF RpcInv, ToldInv, CookieInv, CookieOwned, SameRequest
  <2>2. PICK r : r = stack'
    OBVIOUS
  <2> DEFINE S == Range(stack.list)
  <2>3. SpreadAtMost(r, S, a.calls) /\ Elsewhere(r, S, conns, owner, d)
    BY <1>8, <1>9, <2>1, <2>2 DEF SpreadAtMost, Elsewhere
  <2> HIDE DEF S
  <2>4. PICK calls \in Seq(CallType) : calls = a.calls
    BY <1>5
  <2>5. Notified(conns, calls, d) = <<>>
    BY <2>3, <2>4, SpreadElsewhere
  <2>6. QED
    BY <2>4, <2>5
<1>10. \A i \in Range(stack.list) : owner[i] # c
  BY <1>3 DEF RpcInv, ToldInv, CookieInv, ExitInv, FocusPaired
<1>11. events'[c] = <<>>
  BY <1>3, <1>7, <1>9, <1>10 DEF RpcInv, Untold
<1>12. h # NULL => a.suggestion # NULL
  BY <1>2, NullAssumption
  DEF RequestTells, h, MEDIA_FOCUS_PLAY, MEDIA_FOCUS_STOP, MEDIA_FOCUS_PLAY_BUT_SILENT,
      MEDIA_FOCUS_PLAY_WITH_DUCK
<1>13. /\ reply'[c] = a.suggestion /\ \A d \in Clients \ {c} : reply'[d] = reply[d]
       /\ \A d \in Clients \ {c} : told'[d] = u[d]
       /\ h # NULL => told'[c] = a.suggestion
       /\ phase'[c] = IF h = NULL THEN "refused" ELSE "requested"
  BY <1>1, <1>4, <1>5, <1>6 DEF RpcInv, SocketsTyped
<1>14. SocketsTyped'
  BY <1>1, <1>7 DEF RpcInv, SocketsTyped
<1> HIDE DEF h, u
<1>15. Untold'
  <2> SUFFICES ASSUME NEW d \in Clients,
                      phase'[d] \in {"idle", "connected", "listening"},
                      \A i \in Range(stack'.list) : owner'[i] # d
               PROVE  events'[d] = <<>> /\ reply'[d] = NULL
    BY DEF Untold
  <2>1. d # c
    BY <1>3
  <2>2. \A i \in Range(stack.list) : i \in Range(stack'.list) /\ owner'[i] = owner[i]
    <3>1. ASSUME NEW i \in Range(stack.list) PROVE i \in Range(stack'.list)
      <4>1. DaemonStack(stack) /\ DaemonStack(stack')
        BY <1>2, <1>4 DEF RpcInv, ToldInv, CookieInv, ExitInv, OwnInv, TypeInv, RequestOutcome
      <4>2. i \in Slots /\ stack.node_list[i].client_id # -1
        BY <4>1, Queued
      <4>3. stack'.node_list[i].client_id # -1
        BY <1>8, <4>2 DEF SameRequest
      <4>4. QED
        BY <4>1, <4>2, <4>3, Queued
    <3>2. QED
      BY <1>3, <3>1
  <2>3. \A i \in Range(stack.list) : owner[i] # d
    BY <2>2
  <2>4. events[d] = <<>> /\ reply[d] = NULL
    BY <1>3, <2>1, <2>3 DEF RpcInv, Untold
  <2>5. QED
    BY <1>7, <1>9, <1>13, <2>1, <2>3, <2>4
<1>16. TellsLast'
  <2> SUFFICES ASSUME NEW d \in Clients \ (overtaken' \cup lost'), phase'[d] = "requested"
               PROVE  WillHear(d)' = told'[d]
    BY DEF TellsLast
  <2>1. CASE d = c
    BY <1>11, <1>12, <1>13, <2>1 DEF WillHear
  <2>2. CASE d # c
    <3>1. phase[d] = "requested" /\ d \notin overtaken \cup lost
      BY <1>1, <1>3, <1>7, <2>2
    <3>2. WillHear(d) = told[d]
      BY <3>1 DEF RpcInv, TellsLast
    <3>3. told'[d] = u[d] /\ reply'[d] = reply[d] /\ heard'[d] = heard[d]
      BY <1>1, <1>13, <2>2
    <3>4. Delivered(d, conns, a.calls, u) /\ d \notin lost'
      BY <1>7
    <3>5. CASE Notified(conns, a.calls, d) = <<>>
      BY <3>2, <3>3, <3>4, <3>5 DEF Delivered, Arrived, WillHear
    <3>6. CASE Notified(conns, a.calls, d) # <<>>
      BY <3>3, <3>4, <3>6 DEF Delivered, Arrived, WillHear
    <3>7. QED
      BY <3>5, <3>6
  <2>3. QED
    BY <2>1, <2>2
<1>17. QED
  BY <1>14, <1>15, <1>16

\* An abandon: the other clients have what they had and what they were sent.
LEMMA HearAbandon ==
    ASSUME RpcInv, NEW c \in Clients, NEW k \in Cookies, RpcAbandon(c, k)
    PROVE  (SocketsTyped /\ Untold /\ TellsLast)'
<1> DEFINE handle == conns[k].data
           a      == media_focus_abandon_(stack, handle)
           S      == Range(stack'.list)
<1>1. /\ Abandon(c, k) /\ Deliver(conns', a.calls)
      /\ reply' = reply /\ heard' = heard /\ overtaken' = overtaken
  BY DEF RpcAbandon, media_server_get_data
<1>2. AbandonOutcome(stack, handle, a) /\ AbandonTells(stack, a)
  <2>1. handle \in Handles \cup {NULL}
    BY DEF RpcInv, ToldInv, CookieInv, ExitInv, OwnInv, TypeInv, TypeOK, ConnType
  <2> HIDE DEF handle
  <2>2. QED
    BY <2>1, AbandonStack, AbandonSpread DEF RpcInv, ToldInv, CookieInv, ExitInv, OwnInv, TypeInv
<1>3. stack' = a.s /\ told' = media_focus_notify_cb(told, conns', a.calls)
  BY <1>1 DEF Abandon, media_server_get_data
<1>4. /\ phase'[c] = "abandoned" /\ \A d \in Clients \ {c} : phase'[d] = phase[d]
      /\ \A j \in Cookies \ {k} : conns'[j] = conns[j]
      /\ \A i \in S : /\ i \in Range(stack.list) /\ owner'[i] = owner[i]
                     /\ SameRequest(stack'.node_list[i], stack.node_list[i])
                     /\ stack.node_list[i].callback_argv \in Cookies
  BY <1>1, AbandonKeeps DEF RpcInv, ToldInv, CookieInv, ExitInv
<1>5. \A i \in S : stack.node_list[i].callback_argv # k
  BY <1>1, AbandonElsewhere DEF RpcInv, ToldInv
<1>6. \A i \in Range(stack.list) : i \in S \/ owner[i] = c
  <2> SUFFICES ASSUME NEW i \in Range(stack.list), i \notin S PROVE owner[i] = c
    OBVIOUS
  <2>1. /\ DaemonStack(stack) /\ DaemonStack(stack')
        /\ \A n \in Slots : n # handle => SameRequest(stack'.node_list[n], stack.node_list[n])
        /\ handle \in Range(stack.list) => owner[handle] = c
    BY <1>1, AbandonRemoves DEF RpcInv, ToldInv, CookieInv, ExitInv
  <2>2. i \in Slots /\ stack.node_list[i].client_id # -1
    BY <2>1, Queued
  <2>3. stack'.node_list[i].client_id = -1
    BY <2>1, <2>2, Queued
  <2>4. i = handle
    BY <2>1, <2>2, <2>3 DEF SameRequest
  <2>5. QED
    BY <2>1, <2>4
<1> HIDE DEF a, handle
<1>7. /\ a.calls \in Seq(CallType)
      /\ a.calls = <<>> \/ Spread(stack', S, a.calls)
  BY <1>2, <1>3 DEF AbandonOutcome, AbandonTells
<1>8. \A i \in S : conns'[stack'.node_list[i].callback_argv].notify_fd = owner[i]
  BY <1>4, <1>5 DEF RpcInv, ToldInv, CookieInv, CookieOwned, SameRequest
<1>9. PICK calls \in Seq(CallType) : calls = a.calls
  BY <1>7
<1>10. PICK cs : cs = conns'
  OBVIOUS
<1>11. told' = media_focus_notify_cb(told, cs, calls)
  BY <1>3, <1>9, <1>10
<1>12. Deliver(cs, calls)
  BY <1>1, <1>9, <1>10 DEF Deliver
<1>13. /\ events' \in [Clients -> Seq(Suggestions)] /\ lost \subseteq lost'
       /\ \A d \in Clients :
             /\ Delivered(d, cs, calls, media_focus_notify_cb(told, cs, calls))
             /\ events[d] = <<>> /\ Notified(cs, calls, d) = <<>> => events'[d] = <<>>
  BY <1>12, DeliverSends DEF RpcInv
<1>14. ASSUME NEW d \in Clients, \A i \in S : owner[i] # d
       PROVE  Notified(cs, calls, d) = <<>>
  <2>1. PICK r : r = stack'
    OBVIOUS
  <2>2. SpreadAtMost(r, S, calls) /\ Elsewhere(r, S, cs, owner, d)
    BY <1>7, <1>8, <1>9, <1>10, <1>14, <2>1 DEF SpreadAtMost, Elsewhere
  <2> HIDE DEF S
  <2>3. QED
    BY <2>2, SpreadElsewhere
<1>15. SocketsTyped'
  BY <1>1, <1>13 DEF RpcInv, SocketsTyped
<1>16. Untold'
  <2> SUFFICES ASSUME NEW d \in Clients,
                      phase'[d] \in {"idle", "connected", "listening"},
                      \A i \in S : owner'[i] # d
               PROVE  events'[d] = <<>> /\ reply'[d] = NULL
    BY DEF Untold
  <2>1. d # c /\ phase[d] = phase'[d]
    BY <1>4
  <2>2. \A i \in S : owner[i] # d
    BY <1>4
  <2>3. \A i \in Range(stack.list) : owner[i] # d
    BY <1>6, <2>1, <2>2
  <2>4. events[d] = <<>> /\ reply[d] = NULL
    BY <2>1, <2>3 DEF RpcInv, Untold
  <2>5. QED
    BY <1>1, <1>13, <1>14, <2>2, <2>4
<1>17. TellsLast'
  <2> SUFFICES ASSUME NEW d \in Clients \ (overtaken' \cup lost'), phase'[d] = "requested"
               PROVE  WillHear(d)' = told'[d]
    BY DEF TellsLast
  <2>1. d # c /\ phase[d] = "requested" /\ d \notin overtaken \cup lost
    BY <1>1, <1>4, <1>13
  <2>2. WillHear(d) = told[d]
    BY <2>1 DEF RpcInv, TellsLast
  <2>3. Delivered(d, cs, calls, media_focus_notify_cb(told, cs, calls)) /\ d \notin lost'
    BY <1>13
  <2>4. Arrived(events'[d], events[d], Notified(cs, calls, d), told[d], told'[d])
    BY <1>11, <2>3 DEF Delivered
  <2>5. CASE Notified(cs, calls, d) = <<>>
    BY <1>1, <2>2, <2>4, <2>5 DEF Arrived, WillHear
  <2>6. CASE Notified(cs, calls, d) # <<>>
    BY <2>4, <2>6 DEF Arrived, WillHear
  <2>7. QED
    BY <2>5, <2>6
<1>18. QED
  BY <1>15, <1>16, <1>17

\* The other steps of the server touch no socket of a client that has
\* requested; a hangup drops what its own client has not read.
LEMMA HearElse ==
    ASSUME RpcInv, NEW c \in Clients,
           \/ RpcAccept(c)
           \/ RpcDie(c)
           \/ \E k \in Cookies, ok \in BOOLEAN : RpcCreateNotify(c, k, ok)
           \/ \E k \in Cookies : RpcHangup(c, k)
    PROVE  (SocketsTyped /\ Untold /\ TellsLast)'
<1>1. phase \in [Clients -> Phases] /\ told \in [Clients -> Suggestions \cup {NULL}]
  BY DEF RpcInv, ToldInv, CookieInv, ExitInv, OwnInv, TypeInv, TypeOK
<1>2. CASE RpcAccept(c)
  <2>1. /\ UNCHANGED <<stack, owner>> /\ UNCHANGED rpc_vars
        /\ phase[c] = "idle" /\ phase'[c] = "connected"
        /\ \A d \in Clients \ {c} : phase'[d] = phase[d] /\ told'[d] = told[d]
    BY <1>1, <1>2 DEF RpcAccept, media_server_accept
  <2>2. SocketsTyped'
    BY <2>1 DEF RpcInv, SocketsTyped, rpc_vars
  <2>3. Untold'
    BY <2>1 DEF RpcInv, Untold, rpc_vars
  <2>4. TellsLast'
    BY <2>1 DEF RpcInv, TellsLast, WillHear, rpc_vars
  <2>5. QED
    BY <2>2, <2>3, <2>4
<1>3. CASE RpcDie(c)
  BY <1>3 DEF RpcDie, Die, RpcInv, SocketsTyped, Untold, TellsLast, WillHear, rpc_vars
<1>4. ASSUME NEW k \in Cookies, NEW ok \in BOOLEAN, RpcCreateNotify(c, k, ok)
      PROVE  (SocketsTyped /\ Untold /\ TellsLast)'
  <2>1. /\ UNCHANGED <<stack, owner, told>> /\ UNCHANGED rpc_vars
        /\ phase[c] = "connected" /\ phase'[c] = "listening"
        /\ \A d \in Clients \ {c} : phase'[d] = phase[d]
    BY <1>1, <1>4 DEF RpcCreateNotify, CreateNotify
  <2>2. SocketsTyped'
    BY <2>1 DEF RpcInv, SocketsTyped, rpc_vars
  <2>3. Untold'
    BY <2>1 DEF RpcInv, Untold, rpc_vars
  <2>4. TellsLast'
    BY <2>1 DEF RpcInv, TellsLast, WillHear, rpc_vars
  <2>5. QED
    BY <2>2, <2>3, <2>4
<1>5. ASSUME NEW k \in Cookies, RpcHangup(c, k)
      PROVE  (SocketsTyped /\ Untold /\ TellsLast)'
  <2>1. /\ UNCHANGED <<stack, owner, told>>
        /\ phase'[c] = "idle" /\ \A d \in Clients \ {c} : phase'[d] = phase[d]
    BY <1>1, <1>5 DEF RpcHangup, Hangup
  <2>2. /\ reply' = [reply EXCEPT ![c] = NULL] /\ events' = [events EXCEPT ![c] = <<>>]
        /\ heard' = [heard EXCEPT ![c] = NULL]
        /\ overtaken' = overtaken \ {c} /\ lost' = lost \ {c}
    BY <1>5 DEF RpcHangup
  <2>3. SocketsTyped'
    BY <2>2 DEF RpcInv, SocketsTyped
  <2>4. /\ reply'[c] = NULL /\ events'[c] = <<>>
        /\ \A d \in Clients \ {c} : /\ reply'[d] = reply[d] /\ events'[d] = events[d]
                                   /\ heard'[d] = heard[d]
    BY <2>2 DEF RpcInv, SocketsTyped
  <2>5. Untold'
    BY <2>1, <2>4 DEF RpcInv, Untold
  <2>6. TellsLast'
    BY <2>1, <2>2, <2>4 DEF RpcInv, TellsLast, WillHear
  <2>7. QED
    BY <2>3, <2>5, <2>6
<1>6. QED
  BY <1>2, <1>3, <1>4, <1>5

\* The answer is read: it is what was told last, or a suggestion follows it.
LEMMA HearReply ==
    ASSUME RpcInv, NEW c \in Clients, ReadReply(c)
    PROVE  (SocketsTyped /\ Untold /\ TellsLast)'
<1>1. /\ UNCHANGED <<vars, events, overtaken, lost>> /\ reply[c] # NULL
      /\ reply' = [reply EXCEPT ![c] = NULL]
      /\ heard' = [heard EXCEPT ![c] = IF reply[c] < 0 THEN @ ELSE reply[c]]
  BY DEF ReadReply
<1>2. SocketsTyped'
  BY <1>1 DEF RpcInv, SocketsTyped
<1>3. /\ reply'[c] = NULL /\ heard'[c] = IF reply[c] < 0 THEN heard[c] ELSE reply[c]
      /\ \A d \in Clients \ {c} : reply'[d] = reply[d] /\ heard'[d] = heard[d]
  BY <1>1 DEF RpcInv, SocketsTyped
<1>4. Untold'
  BY <1>1, <1>3 DEF RpcInv, Untold, vars
<1>5. TellsLast'
  <2> SUFFICES ASSUME NEW d \in Clients \ (overtaken \cup lost), phase[d] = "requested"
               PROVE  WillHear(d)' = told[d]
    BY <1>1 DEF TellsLast, vars
  <2>1. WillHear(d) = told[d]
    BY DEF RpcInv, TellsLast
  <2>2. CASE d = c /\ events[c] = <<>>
    <3>1. reply[c] = told[c]
      BY <1>1, <2>1, <2>2 DEF WillHear
    <3>2. told[c] \in Suggestions
      BY <1>1, <3>1 DEF RpcInv, ToldInv, CookieInv, ExitInv, OwnInv, TypeInv, TypeOK
    <3>3. ~ (reply[c] < 0)
      BY <3>1, <3>2
      DEF Suggestions, MEDIA_FOCUS_PLAY, MEDIA_FOCUS_STOP, MEDIA_FOCUS_PAUSE,
          MEDIA_FOCUS_PLAY_BUT_SILENT, MEDIA_FOCUS_PLAY_WITH_DUCK, MEDIA_FOCUS_PLAY_WITH_KEEP
    <3>4. QED
      BY <1>1, <1>3, <2>2, <3>1, <3>3 DEF WillHear
  <2>3. CASE d # c \/ events[c] # <<>>
    BY <1>1, <1>3, <2>1, <2>3 DEF WillHear
  <2>4. QED
    BY <2>2, <2>3
<1>6. QED
  BY <1>2, <1>4, <1>5

\* A suggestion is read: the last one is what was told last, unless the
\* answer is still to come, and then the client is marked as overtaken.
LEMMA HearEvent ==
    ASSUME RpcInv, NEW c \in Clients, ReadEvent(c)
    PROVE  (SocketsTyped /\ Untold /\ TellsLast)'
<1>1. /\ UNCHANGED <<vars, reply, lost>> /\ events[c] # <<>>
      /\ events' = [events EXCEPT ![c] = Tail(@)]
      /\ heard' = [heard EXCEPT ![c] = Head(events[c])]
      /\ overtaken' = IF reply[c] # NULL THEN overtaken \cup {c} ELSE overtaken
  BY DEF ReadEvent
<1>2. events[c] \in Seq(Suggestions) /\ Tail(events[c]) \in Seq(Suggestions)
  BY <1>1 DEF RpcInv, SocketsTyped
<1>3. SocketsTyped'
  BY <1>1, <1>2 DEF RpcInv, SocketsTyped
<1>4. /\ events'[c] = Tail(events[c]) /\ heard'[c] = Head(events[c])
      /\ \A d \in Clients \ {c} : events'[d] = events[d] /\ heard'[d] = heard[d]
  BY <1>1 DEF RpcInv, SocketsTyped
<1>5. Untold'
  BY <1>1, <1>4 DEF RpcInv, Untold, vars
<1>6. TellsLast'
  <2> SUFFICES ASSUME NEW d \in Clients \ (overtaken' \cup lost), phase[d] = "requested"
               PROVE  WillHear(d)' = told[d]
    BY <1>1 DEF TellsLast, vars
  <2>1. WillHear(d) = told[d]
    BY <1>1 DEF RpcInv, TellsLast
  <2>2. CASE d = c
    <3>1. reply[c] = NULL /\ told[c] = events[c][Len(events[c])]
      BY <1>1, <2>1, <2>2 DEF WillHear
    <3>2. PICK e \in Seq(Suggestions) : e = events[c]
      BY <1>2
    <3>3. /\ Tail(e) = <<>> => Head(e) = e[Len(e)]
          /\ Tail(e) # <<>> => Tail(e)[Len(Tail(e))] = e[Len(e)]
      <4>1. Len(e) \in Nat \ {0} /\ Head(e) = e[1]
        BY <1>1, <3>2
      <4>2. Len(Tail(e)) = Len(e) - 1 /\ \A n \in 1 .. Len(e) - 1 : Tail(e)[n] = e[n + 1]
        BY <4>1
      <4>3. CASE Len(e) = 1
        <5>1. Len(Tail(e)) = 0
          BY <4>2, <4>3
        <5>2. Tail(e) = <<>>
          BY <1>1, <3>2, <5>1, HeadTailProperties, EmptySeq
        <5>3. QED
          BY <4>1, <4>3, <5>2
      <4>4. CASE Len(e) # 1
        <5>1. Len(e) - 1 \in 1 .. Len(e) - 1 /\ Tail(e) # <<>>
          BY <4>1, <4>2, <4>4
        <5>2. Tail(e)[Len(e) - 1] = e[(Len(e) - 1) + 1]
          BY <4>2, <5>1
        <5>3. QED
          BY <4>1, <4>2, <5>1, <5>2
      <4>5. QED
        BY <4>3, <4>4
    <3>4. QED
      BY <1>1, <1>4, <2>2, <3>1, <3>2, <3>3 DEF WillHear
  <2>3. CASE d # c
    BY <1>1, <1>4, <2>1, <2>3 DEF WillHear
  <2>4. QED
    BY <2>2, <2>3
<1>7. QED
  BY <1>3, <1>5, <1>6

LEMMA HearInit == RpcInit => RpcInv
<1> SUFFICES ASSUME RpcInit PROVE RpcInv
  OBVIOUS
<1>1. <<>> \in Seq(Suggestions)
  OBVIOUS
<1>2. SocketsTyped
  BY <1>1 DEF RpcInit, SocketsTyped
<1>3. Untold /\ TellsLast
  BY DEF RpcInit, Init, Untold, TellsLast
<1>4. QED
  BY <1>2, <1>3, ToldInit DEF RpcInit, RpcInv

\* Every step of the sockets is one of the arbiter, or leaves it alone.
LEMMA RpcStep == [RpcNext]_all_vars => [Next]_vars
BY DEF RpcNext, Next, all_vars, vars, RpcAccept, RpcDie, ReadReply, ReadEvent,
       RpcCreateNotify, RpcRequest, RpcAbandon, RpcHangup

LEMMA HearNext == ~ NotifyMayFail /\ RpcInv /\ [RpcNext]_all_vars => RpcInv'
<1> SUFFICES ASSUME ~ NotifyMayFail, RpcInv, [RpcNext]_all_vars PROVE RpcInv'
  OBVIOUS
<1>1. ToldInv'
  BY RpcStep, ToldNext DEF RpcInv
<1>2. CASE UNCHANGED all_vars
  BY <1>1, <1>2 DEF all_vars, RpcInv, SocketsTyped, Untold, TellsLast, WillHear
<1>3. CASE RpcNext
  <2>1. (SocketsTyped /\ Untold /\ TellsLast)'
    BY <1>3, HearRequest, HearAbandon, HearElse, HearReply, HearEvent DEF RpcNext
  <2>2. QED
    BY <1>1, <2>1 DEF RpcInv
<1>4. QED
  BY <1>2, <1>3

(* An application that has read all it was sent has last heard what is     *)
(* due to its focus under the current top of the stack, although answers   *)
(* and suggestions come by two sockets, the second of which may be full:   *)
(* only an answer read after a later suggestion, or a suggestion that was  *)
(* dropped, leaves it with something else.                                 *)
THEOREM HearsCurrent == ~ NotifyMayFail => (RpcSpec => []HeardIsCurrent)
<1> SUFFICES ASSUME ~ NotifyMayFail PROVE RpcSpec => []HeardIsCurrent
  OBVIOUS
<1>1. RpcInv => HeardIsCurrent
  <2> SUFFICES ASSUME RpcInv, Quiet, NEW j \in DOMAIN stack.list,
                      OwnerOf(j) \in alive \ (overtaken \cup lost),
                      phase[OwnerOf(j)] = "requested",
                      conns[Entry(j).callback_argv].notify_fd = OwnerOf(j)
               PROVE  heard[OwnerOf(j)] \in Due(j)
    BY DEF HeardIsCurrent
  <2>1. Arbitrated
    BY ToldDue DEF RpcInv
  <2>2. told[OwnerOf(j)] \in Due(j)
    BY <2>1 DEF Arbitrated
  <2>3. alive \subseteq Clients
    BY DEF RpcInv, ToldInv, CookieInv, ExitInv, OwnInv, TypeInv, TypeOK
  <2>4. WillHear(OwnerOf(j)) = told[OwnerOf(j)]
    BY <2>3 DEF RpcInv, TellsLast
  <2>5. WillHear(OwnerOf(j)) = heard[OwnerOf(j)]
    BY DEF Quiet, WillHear
  <2>6. QED
    BY <2>2, <2>4, <2>5
<1>2. RpcInv /\ [RpcNext]_all_vars => RpcInv'
  BY HearNext
<1>3. QED
  BY <1>1, <1>2, HearInit, PTL DEF RpcSpec
=============================================================================
