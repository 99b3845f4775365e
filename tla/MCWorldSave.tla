---------------------------- MODULE MCWorldSave ----------------------------
EXTENDS WorldSave

MCCallback == {"clearBusy"}
=============================================================================
