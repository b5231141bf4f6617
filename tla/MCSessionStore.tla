--------------------------- MODULE MCSessionStore ---------------------------
(* Bounds for TLC, set in the configurations. *)
EXTENDS SessionStore
=============================================================================
