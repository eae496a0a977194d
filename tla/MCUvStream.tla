---- MODULE MCUvStream ----
\* Two CPUs, two focus requests, two prepares.
EXTENDS UvStream
====
