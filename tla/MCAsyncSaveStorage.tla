------------------------- MODULE MCAsyncSaveStorage -------------------------
EXTENDS AsyncSaveStorage

MCCallback == 1..MaxUpserts
=============================================================================
