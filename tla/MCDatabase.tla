----------------------------- MODULE MCDatabase -----------------------------
(***************************************************************************)
(* Three specifications for TLC: the pool of PostgreSQL connections, the   *)
(* one connection of the Lua interface, whose global pointer is replaced   *)
(* once, and the conversions.  They share no state: a behaviour belongs to *)
(* one of them, and the others stay as they were at first.                 *)
(***************************************************************************)
EXTENDS DbPool, PgConnection, MCCodec

VARIABLE part

NoInput == input = <<"none">> /\ output = <<>> /\ done = FALSE

PartsInit ==
    /\ part \in {"pool", "connection", "conversion"}
    /\ Init /\ PgInit
    /\ IF part = "conversion" THEN CodecInit ELSE NoInput

PartsNext ==
    /\ UNCHANGED part
    /\ \/ part = "pool" /\ Next /\ UNCHANGED <<pgVars, codecVars>>
       \/ part = "connection" /\ PgNext /\ UNCHANGED <<vars, codecVars>>
       \/ part = "conversion" /\ CodecNext /\ UNCHANGED <<vars, pgVars>>

\* What is fair is disabled in a part that stays as it was.
PartsSpec ==
    /\ PartsInit
    /\ [][PartsNext]_<<part, vars, pgVars, codecVars>>
    /\ Fairness /\ PgFairness
=============================================================================
