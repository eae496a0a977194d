---- MODULE MCMediaIO ----
\* Two threads move data; a handle is prepared twice.
EXTENDS MediaIO
====
