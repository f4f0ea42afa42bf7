----------------------------- MODULE MCShutdown -----------------------------
(* Model-checking instance of Shutdown: the main worker and one more.      *)
EXTENDS Shutdown, TLC

CONSTANT w1
OneNormal == <<w1>>
============================================================================
