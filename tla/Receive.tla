------------------------------ MODULE Receive -------------------------------
(***************************************************************************)
(* receive_http_response (nodes.c): reads one HTTP answer from a socket    *)
(* into a buffer of buffer_size bytes.  The text is its length: where its  *)
(* blank line ends, what its Content-Length says, how many bytes of it     *)
(* reach the client and what becomes of the connection then.  Module Fetch *)
(* has its outcomes as the actions Receive, ReceiveEof and ReceiveFails.   *)
(***************************************************************************)
EXTENDS Integers

CONSTANTS
    BufferSize, \* buffer_size (RESPONSE_BUFFER_SIZE)
    Answers     \* the answers a peer may send: [header, length, body]

\* header: bytes up to and with the blank line; length: Content-Length, or -1
\* when there is none (or a negative one); body: bytes after the blank line.
ASSUME ReceiveAssumption ==
    /\ BufferSize \in Nat \ {0}
    /\ Answers \subseteq [header : Nat \ {0}, length : Nat \cup {-1}, body : Nat]

VARIABLES
    pc,             \* "recv" or "done"
    total_received,
    header_end,     \* -1 until the blank line is in the buffer
    content_length,
    returned,       \* the value returned, when done
    state,          \* *state_out, as the caller initialises it
    answer,         \* what the peer sends
    coming,         \* bytes of it that will still arrive
    fate            \* what follows them: "close", "reset" or "stall"

local == <<pc, total_received, header_end, content_length, returned, state>>
vars  == <<local, answer, coming, fate>>

Init ==
    /\ pc = "recv"
    /\ total_received = 0
    /\ header_end = -1
    /\ content_length = -1
    /\ returned = 0
    /\ state = "IO_ERROR"
    /\ answer \in Answers
    /\ coming \in 0..(answer.header + answer.body)
    /\ fate \in {"close", "reset", "stall"}

\* buffer_size - 1 - total_received, what recv() may store
Room == BufferSize - 1 - total_received

Return(n, s) == pc' = "done" /\ returned' = n /\ state' = s

\* Mutant: the answer is taken for complete one byte too late.
EnoughLate(total, header, length) == total > header + length

\* Mutant: the header is not counted.
EnoughBody(total, header, length) == total >= length

\* total_received >= header_end + content_length
Enough(total, header, length) == total >= header + length

\* recv() returns n bytes; the blank line is looked for until it is found
RecvBytes(n) ==
    LET total  == total_received + n
        found  == header_end < 0 /\ total >= answer.header
        header == IF found THEN answer.header ELSE header_end
        length == IF found THEN answer.length ELSE content_length
    IN  /\ pc = "recv" /\ Room > 0
        /\ n <= coming /\ n <= Room
        /\ total_received' = total
        /\ header_end' = header
        /\ content_length' = length
        /\ IF header >= 0 /\ length >= 0 /\ Enough(total, header, length)
           THEN Return(total, state)
           ELSE UNCHANGED <<pc, returned, state>>
        /\ coming' = coming - n
        /\ UNCHANGED <<answer, fate>>

\* recv() returns 0: what there is is returned, complete or not
RecvClosed ==
    /\ pc = "recv" /\ Room > 0
    /\ coming = 0 /\ fate = "close"
    /\ Return(total_received, state)
    /\ UNCHANGED <<total_received, header_end, content_length, answer, coming, fate>>

\* Mutant: an interrupted wait is waited again.
RecvTimeoutAgain ==
    /\ pc = "recv" /\ Room > 0
    /\ coming = 0 /\ fate = "stall"
    /\ UNCHANGED vars

\* SO_RCVTIMEO: EAGAIN
RecvTimeout ==
    /\ pc = "recv" /\ Room > 0
    /\ coming = 0 /\ fate = "stall"
    /\ Return(-1, IF total_received = 0 THEN "TIMEOUT" ELSE "IO_ERROR")
    /\ UNCHANGED <<total_received, header_end, content_length, answer, coming, fate>>

\* Mutant: the result is added before it is tested.
RecvResetCounts ==
    /\ pc = "recv" /\ Room > 0
    /\ coming = 0 /\ fate = "reset"
    /\ total_received' = total_received - 1
    /\ Return(-1, "IO_ERROR")
    /\ UNCHANGED <<header_end, content_length, answer, coming, fate>>

\* recv() fails otherwise
RecvReset ==
    /\ pc = "recv" /\ Room > 0
    /\ coming = 0 /\ fate = "reset"
    /\ Return(-1, "IO_ERROR")
    /\ UNCHANGED <<total_received, header_end, content_length, answer, coming, fate>>

\* Mutant: a full buffer is returned as an answer.
BufferFullReturned ==
    /\ pc = "recv" /\ Room <= 0
    /\ Return(total_received, state)
    /\ UNCHANGED <<total_received, header_end, content_length, answer, coming, fate>>

\* the loop ends with the buffer full
BufferFull ==
    /\ pc = "recv" /\ Room <= 0
    /\ Return(-1, "IO_ERROR")
    /\ UNCHANGED <<total_received, header_end, content_length, answer, coming, fate>>

Done == pc = "done" /\ UNCHANGED vars

Step == \/ \E n \in 1..BufferSize : RecvBytes(n)
        \/ RecvClosed \/ RecvTimeout \/ RecvReset \/ BufferFull

Next == Step \/ Done

Spec == Init /\ [][Next]_vars

\* recv() returns: data, an end, an error, or EAGAIN after SO_RCVTIMEO.
FairSpec == Spec /\ WF_vars(Step)

-----------------------------------------------------------------------------
(* Properties.                                                             *)

TypeOK ==
    /\ pc \in {"recv", "done"}
    /\ total_received \in Nat
    /\ header_end \in Int
    /\ content_length \in Int
    /\ returned \in Int
    /\ state \in {"TIMEOUT", "IO_ERROR"}
    /\ answer \in Answers
    /\ coming \in Nat
    /\ fate \in {"close", "reset", "stall"}

\* buffer[total_received] = '\0' (here, and by the caller at nodes.c:471) stays
\* inside the buffer, and an answer is never longer than what can be stored.
InBounds == total_received <= BufferSize - 1 /\ returned <= total_received

Whole == answer.length >= 0 /\ returned >= answer.header + answer.length

\* What is returned as an answer is all of it, unless the peer closed first; a
\* stalled, reset or oversized answer is an error.
AnswerWholeOrClosed ==
    pc = "done" /\ returned > 0 => Whole \/ (fate = "close" /\ coming = 0)

\* An answer of a known length that fits the buffer and arrives in full is
\* returned, whatever follows it and however it is cut into pieces: a kept
\* connection does not have to end for its answer to be seen.
FittingAnswerReturned ==
    pc = "done" /\ answer.length = answer.body
                /\ answer.header + answer.body <= BufferSize - 1
                /\ total_received + coming >= answer.header + answer.body
        => returned = answer.header + answer.body

\* The loop invariant: how far the answer has been read, that it is not all
\* there yet, and what holds when the loop is left.
LoopInv ==
    /\ total_received <= BufferSize - 1
    /\ total_received + coming <= answer.header + answer.body
    /\ pc = "recv" =>
         /\ returned = 0 /\ state = "IO_ERROR"
         /\ \/ /\ header_end = -1 /\ content_length = -1
               /\ total_received < answer.header
            \/ /\ header_end = answer.header /\ content_length = answer.length
               /\ answer.length >= 0 => total_received < answer.header + answer.length
    /\ pc = "done" => /\ returned <= total_received
                      /\ AnswerWholeOrClosed /\ FittingAnswerReturned
                      /\ state = "TIMEOUT" => total_received = 0

\* The loop ends.
Terminates == <>(pc = "done")
=============================================================================
