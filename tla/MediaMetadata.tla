---------------------------- MODULE MediaMetadata ----------------------------
(***************************************************************************)
(* utils/media_metadata.c: the metadata of a session and the text form in  *)
(* which it travels.                                                       *)
(*                                                                         *)
(* A field whose flag is not set is NULL.  Of the numbers only the state   *)
(* is kept, the other three are treated alike.  A text is a sequence of    *)
(* words: media_metadata_unserialize reads title and artist with "%s\t%s", *)
(* and both the %s and the tab stop at any white space.                    *)
(***************************************************************************)
EXTENDS MediaDefs, Sequences

CONSTANTS States,  \* playing states; positive when the controllee plays
          Words,
          Titles,  \* texts, each a sequence of at least one word
          Artists

ASSUME StatesAssumption == States \subseteq Int
ASSUME TextsAssumption ==
    /\ Titles \cup Artists \subseteq Seq(Words) \ {<<>>}
    /\ "(null)" \in Words /\ NULL \notin Seq(Words)

Metadata ==
    [state : States \cup {NULL}, title : Titles \cup {NULL}, artist : Artists \cup {NULL}]

media_metadata_init == [state |-> NULL, title |-> NULL, artist |-> NULL]

media_metadata_update(data, diff) ==
    [f \in DOMAIN data |-> IF diff[f] = NULL THEN data[f] ELSE diff[f]]

\* "%s" of a text; a null pointer prints as one word.
Printed(text) == IF text = NULL THEN <<"(null)">> ELSE text

media_metadata_serialize(data) ==
    [flags |-> {f \in DOMAIN data : data[f] # NULL},
     state |-> IF data.state = NULL THEN 0 ELSE data.state,
     words |-> Printed(data.title) \o Printed(data.artist)]

\* A mutant: the flags are not looked at.
UnserializeAll(str) ==
    [state |-> str.state, title |-> <<str.words[1]>>, artist |-> <<str.words[2]>>]

\* The title is the first word after the numbers, the artist the second.
media_metadata_unserialize(str) ==
    [state  |-> IF "state" \in str.flags THEN str.state ELSE NULL,
     title  |-> IF "title" \in str.flags THEN <<str.words[1]>> ELSE NULL,
     artist |-> IF "artist" \in str.flags THEN <<str.words[2]>> ELSE NULL]
=============================================================================
