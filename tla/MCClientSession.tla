-------------------------- MODULE MCClientSession --------------------------
EXTENDS ClientSession

=============================================================================
