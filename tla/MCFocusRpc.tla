----------------------------- MODULE MCFocusRpc -----------------------------
(***************************************************************************)
(* FocusRpc for TLC, with the streams of MCMediaFocus, of which none plays *)
(* undiminished under a top.                                               *)
(***************************************************************************)
EXTENDS FocusRpc, MCMediaFocus

RpcClients == {c1, c2}

RpcSymmetry == Permutations(RpcClients)
=============================================================================
