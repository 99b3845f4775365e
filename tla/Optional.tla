------------------------------- MODULE Optional -------------------------------
(* What the programs at the other end of the server share: a value that is no *)
(* value, for null and undefined.                                             *)
CONSTANT None
=============================================================================
