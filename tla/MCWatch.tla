------------------------------ MODULE MCWatch -------------------------------
(* Instances of Watch for TLC.                                             *)
EXTENDS Watch

\* Agents die; timeouts are those of Timely.
Dying == {"peer_close", "peer_reset", "truncate", "recv_timeout", "connect"}
Slow  == {"recv_timeout", "connect"}

OneEach == [w \in Nodes |-> w]

\* Every entry of the inventory leads to the same agent.
Shared == [w \in Nodes |-> CHOOSE a \in Agents : TRUE]
=============================================================================
