----------------------------- MODULE MCDashboard -----------------------------
(* Two connections: one handler may linger while the page uses the other. *)
EXTENDS Dashboard
==============================================================================
