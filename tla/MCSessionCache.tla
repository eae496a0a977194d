-------------------------- MODULE MCSessionCache --------------------------
EXTENDS SessionCache, MCSession
=============================================================================
