---------------------------- MODULE MCClientSession ----------------------------
\* ClientSession on small instances.
EXTENDS ClientSession
=============================================================================
