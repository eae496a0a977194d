----------------------------- MODULE MediaDefs -----------------------------
(***************************************************************************)
(* What the components share: the null pointer, the errno values of their  *)
(* return codes and the suggestions of include/media_defs.h.               *)
(***************************************************************************)
EXTENDS Integers

CONSTANT NULL  \* the null pointer, a zero descriptor, a zero thread id

ASSUME NullAssumption == NULL \notin Int

\* Negated errno values; only that they are negative and distinct matters.
EPERM == -1
ENOENT == -2
EINVAL == -22
ENOSPC == -28
EPIPE == -32
ENOSYS == -38
EIO == -5
ENODATA == -61

MEDIA_FOCUS_PLAY == 0
MEDIA_FOCUS_STOP == 1
MEDIA_FOCUS_PAUSE == 2
MEDIA_FOCUS_PLAY_BUT_SILENT == 3
MEDIA_FOCUS_PLAY_WITH_DUCK == 4
MEDIA_FOCUS_PLAY_WITH_KEEP == 5

Suggestions ==
    {MEDIA_FOCUS_PLAY, MEDIA_FOCUS_STOP, MEDIA_FOCUS_PAUSE,
     MEDIA_FOCUS_PLAY_BUT_SILENT, MEDIA_FOCUS_PLAY_WITH_DUCK,
     MEDIA_FOCUS_PLAY_WITH_KEEP}
=============================================================================
