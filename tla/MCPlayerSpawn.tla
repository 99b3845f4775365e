---------------------------- MODULE MCPlayerSpawn ----------------------------
EXTENDS PlayerSpawn

=============================================================================
