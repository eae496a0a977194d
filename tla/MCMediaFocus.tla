---------------------------- MODULE MCMediaFocus ----------------------------
(***************************************************************************)
(* Instances of MediaFocus for TLC.  Three streams: an alarm (0), which    *)
(* takes the focus from everybody, music (1), which is stopped by an alarm *)
(* and shares with nobody, and a notification (2), which plays ducked or   *)
(* silent under the other two and is refused under another notification    *)
(* (position 0 of the stack is not available to an insertion).             *)
(***************************************************************************)
EXTENDS MediaFocus, TLC

CONSTANTS c1, c2, c3

MCClients == {c1, c2, c3}

\* media_focus.conf of this instance.
MCFile ==
    << <<"#">>,
       <<"Stream", "Alarm", "Music", "Notification">>,
       <<"Alarm",
         <<MEDIA_FOCUS_PLAY, MEDIA_FOCUS_STOP>>, <<MEDIA_FOCUS_PLAY, MEDIA_FOCUS_PAUSE>>,
         <<MEDIA_FOCUS_PLAY, MEDIA_FOCUS_STOP>>>>,
       <<"Music",
         <<MEDIA_FOCUS_STOP, MEDIA_FOCUS_STOP>>, <<MEDIA_FOCUS_PLAY, MEDIA_FOCUS_STOP>>,
         <<MEDIA_FOCUS_PLAY, MEDIA_FOCUS_PLAY_BUT_SILENT>>>>,
       <<"Notification",
         <<MEDIA_FOCUS_PLAY_WITH_DUCK, MEDIA_FOCUS_STOP>>,
         <<MEDIA_FOCUS_PLAY_BUT_SILENT, MEDIA_FOCUS_STOP>>,
         <<MEDIA_FOCUS_PLAY_WITH_DUCK, MEDIA_FOCUS_PLAY_WITH_KEEP>>>> >>

C == INSTANCE FocusConfig WITH Malformed <- "?"
MCFocus == C!media_focus_create(MCFile)
MCpro_inter == [p \in (0 .. 2) \X (0 .. 2) |-> C!Cell(MCFocus, p[1], p[2])[1]]
MCpas_inter == [p \in (0 .. 2) \X (0 .. 2) |-> C!Cell(MCFocus, p[1], p[2])[2]]

\* Files of up to four lines about two streams, right and wrong.
SmallFiles ==
    LET lines == {<<"#">>, <<"Stream", "A">>, <<"Stream", "A", "B">>,
                  <<"A", <<0, 1>>, <<2, 3>>>>, <<"B", <<4, 5>>, <<1, 0>>>>, <<"A", <<3, 2>>>>,
                  <<"B", <<0, 1>>, "?">>, <<"B", <<0, 1>>, <<2, 3>>, <<4, 5>>>>}
    IN  UNION {[1 .. n -> lines] : n \in 0 .. 4}

ASSUME ConfigAssumption ==
    C!WellFormed(MCFile) /\ \A file \in SmallFiles \cup {MCFile} : C!ReadAsWritten(file)

Symmetry == Permutations(MCClients)
=============================================================================
