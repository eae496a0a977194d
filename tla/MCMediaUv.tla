------------------------------ MODULE MCMediaUv ------------------------------
EXTENDS MediaUv

\* A server at once, after one that refuses or after one that is not there,
\* and none at all.
MCWorlds == {<<"accepts">>, <<"refuses", "accepts">>, <<"absent">>, <<"refuses">>}
=============================================================================
