-------------------------- MODULE MCUvSessionCache --------------------------
EXTENDS UvSessionCache, MCSession
=============================================================================
