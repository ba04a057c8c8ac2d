--------------------------- MODULE MCAgentServer ----------------------------
(* An instance of AgentServer for TLC: command lines of up to five words.  *)
EXTENDS AgentServer

MCPortTexts == [w \in {"9010", "65535"} |-> IF w = "9010" THEN 9010 ELSE 65535]
MCAssigned  == [w \in {"--port=9010", "--port=0"} |-> IF w = "--port=0" THEN "0" ELSE "9010"]

Words == {"-h", "-p", "--port=9010", "--port=0", "65535", "0"}
MCArgvs == UNION { [1..n -> Words] : n \in 0..3 }
           \cup { <<"-p", "9010", "--port", "65535">>, <<"-p", "9010", "-p", "0", "-h">> }
=============================================================================
