-------------------------- MODULE MCMessageStream --------------------------
(* Model-checking instance of MessageStream.                               *)
EXTENDS MessageStream

Good(n) == [size |-> n, magic |-> TRUE]
Bad     == [size |-> 0, magic |-> FALSE]

\* A server's session without quotas gets an empty message (a heartbeat), a client's
\* an empty one, one with a body and a broken one.  Two more find a quota used up.
McConfigs ==
    {[net_type |-> "NT_SERVER", limited |-> {}, quota |-> 1, inbound |-> <<Good(0)>>],
     [net_type |-> "NT_CLIENT", limited |-> {}, quota |-> 1, inbound |-> <<Good(0), Good(2), Bad>>],
     [net_type |-> "NT_SERVER", limited |-> {"out"}, quota |-> 0, inbound |-> <<>>],
     [net_type |-> "NT_CLIENT", limited |-> {"in"}, quota |-> 0, inbound |-> <<>>]}
============================================================================
