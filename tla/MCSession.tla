----------------------------- MODULE MCSession -----------------------------
(***************************************************************************)
(* Constants of the session models for TLC: titles of one word, or also of *)
(* two; two controllees that are alike.                                    *)
(***************************************************************************)
EXTENDS TLC

CONSTANTS e1, e2

MCControllees == {e1, e2}

MCWords == {"a", "b", "(null)"}

TwoWords == {<<"a">>, <<"a", "b">>}

Symmetry == Permutations(MCControllees)
=============================================================================
