---------------------------- MODULE MCAdminPanel ----------------------------
(* The players page of the dashboard on small instances. *)
EXTENDS AdminPanel
=============================================================================
