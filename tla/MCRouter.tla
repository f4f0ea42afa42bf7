------------------------------ MODULE MCRouter ------------------------------
(* Router on a small instance.                                             *)
EXTENDS Router
============================================================================
