---------------------------- MODULE FocusConfig ----------------------------
(***************************************************************************)
(* server/media_focus.c: how media_focus_create reads media_focus.conf,    *)
(* the file with the streams and how they interact, which are num,         *)
(* pro_inter and pas_inter of MediaFocus.                                  *)
(*                                                                         *)
(* A line is the sequence of what commas separate in it, without spaces.   *)
(* A cell of the matrix is a pair of numbers, <<pro_inter, pas_inter>>; it *)
(* is anything else when the text between the commas is not of that form.  *)
(***************************************************************************)
EXTENDS Naturals, Sequences
LOCAL INSTANCE SequencesExt

CONSTANT Malformed  \* text between commas that has no business there

\* focus->num, focus->streams, focus->matrix and index; "ok" is that no line
\* was refused.  Cells that were not written are memory from malloc.
Focus0 == [num |-> 0, streams |-> <<>>, matrix |-> <<>>, ok |-> TRUE]
Refused(focus) == [focus EXCEPT !.ok = FALSE]

\* Letters and digits, and nothing empty between or after the commas.
media_focus_valid_line_check(line) == Malformed \notin {line[i] : i \in DOMAIN line}

\* A line that is neither a comment nor begins with "Stream", or with the first
\* letters of it, is a row; its name is not looked at.
media_focus_line_identity(line) ==
    CASE line # <<>> /\ line[1] = "#" -> "JUMP"
      [] line # <<>> /\ line[1] # "#" /\ Len(line) > 1 /\ media_focus_valid_line_check(line) ->
             IF line[1] = "Stream" THEN "STREAM_TYPE" ELSE "STREAM_NUM"
      [] OTHER -> "EINVAL"

media_focus_streams_init(focus, names) ==
    [focus EXCEPT !.num = Len(names), !.streams = names]

media_focus_divided_by_colon(cell) == cell \in Nat \X Nat

\* A line adds its cells where the last one ended.  It may have fewer than
\* focus->num, or one more; what is left over is counted after the write.
media_focus_matrix_init(focus, cells) ==
    IF /\ focus.num > 0 /\ Len(cells) <= focus.num + 1
       /\ \A i \in DOMAIN cells : media_focus_divided_by_colon(cells[i])
    THEN [focus EXCEPT !.matrix = @ \o cells]
    ELSE Refused(focus)

ReadLine(focus, line) ==
    LET kind == media_focus_line_identity(line)
    IN  CASE ~ focus.ok \/ kind = "JUMP" -> focus
          [] focus.ok /\ kind = "STREAM_TYPE" -> media_focus_streams_init(focus, Tail(line))
          [] focus.ok /\ kind = "STREAM_NUM" -> media_focus_matrix_init(focus, Tail(line))
          [] OTHER -> Refused(focus)

media_focus_create(file) == FoldLeft(ReadLine, Focus0, file)

\* The cell the arbiter looks up in the row of one stream and the column of
\* another.
Cell(focus, row, col) == focus.matrix[row * focus.num + col + 1]

-----------------------------------------------------------------------------
(* What the file means: after the line of the streams one line for each of *)
(* them, in that order, with one cell for each of them.                    *)

Rows(file) == SelectSeq(file, LAMBDA line : line # <<>> /\ line[1] \notin {"#", "Stream"})

WellFormed(file) ==
    \E n \in 1 .. Len(file) :
       /\ file[n] # <<>> /\ file[n][1] = "Stream"
       /\ \A i \in DOMAIN file :
             /\ file[i] # <<>> /\ Malformed \notin Range(file[i])
             /\ i < n => file[i][1] = "#"
             /\ i > n => file[i][1] # "Stream"
       /\ [i \in DOMAIN Rows(file) |-> Rows(file)[i][1]] = Tail(file[n])
       /\ Len(file[n]) > 1
       /\ \A i \in DOMAIN Rows(file) :
             Len(Rows(file)[i]) = Len(file[n]) /\ \A j \in 2 .. Len(file[n]) : Rows(file)[i][j] \in Nat \X Nat

\* A well-formed file is read as it is written.
ReadAsWritten(file) ==
    LET focus == media_focus_create(file)
    IN  WellFormed(file) =>
           /\ focus.ok /\ focus.num = Len(Rows(file))
           /\ \A row, col \in 0 .. focus.num - 1 :
                 Cell(focus, row, col) = Rows(file)[row + 1][col + 2]
=============================================================================
