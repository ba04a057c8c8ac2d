----------------------------- MODULE MCReceive ------------------------------
(* Instances of Receive for TLC: answers around the size of the buffer.    *)
EXTENDS Receive

Bodies == 0..7

\* With the right Content-Length, with none, and with one that is too short
\* or too long.
MCAnswers == [header : {4, 5}, length : {-1, 0, 3, 4, 5}, body : Bodies]
             \cup {[header |-> 4, length |-> b, body |-> b] : b \in Bodies}
=============================================================================
