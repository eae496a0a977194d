-------------------------- MODULE ControllerCache --------------------------
(***************************************************************************)
(* What the synchronous and the asynchronous controller have in common     *)
(* (MediaSessionPriv in client/media_session.c and media_uv_session.c):    *)
(* the metadata of the last query, and whether to ask for it again.        *)
(***************************************************************************)
EXTENDS MediaSession

VARIABLES
    data,        \* priv->data of a controller
    need_query   \* priv->need_query

\* What a controller would be answered now.
Current ==
    IF controllees = <<>> THEN media_metadata_init ELSE meta[First(controllees)]
=============================================================================
