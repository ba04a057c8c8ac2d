--------------------------- MODULE ReceiveProofs ----------------------------
(***************************************************************************)
(* Theorems about Receive, for any buffer size and any answers.            *)
(***************************************************************************)
EXTENDS Receive, TLAPS

USE ReceiveAssumption

\* The chosen answer has a header, a length and a body.
LEMMA AnswerType ==
    ASSUME answer \in Answers
    PROVE  /\ answer.header \in Nat \ {0}
           /\ answer.length \in Nat \cup {-1}
           /\ answer.body \in Nat
  OBVIOUS

\* The counters of the loop are numbers and the answer is one of the answers.
THEOREM ReceiveTypeCorrect == Spec => []TypeOK
  <1>1. Init => TypeOK
    BY AnswerType DEF Init, TypeOK
  <1>2. TypeOK /\ [Next]_vars => TypeOK'
    <2> SUFFICES ASSUME TypeOK, [Next]_vars PROVE TypeOK'
      OBVIOUS
    <2> USE AnswerType DEF TypeOK
    <2>1. ASSUME NEW n \in 1..BufferSize, RecvBytes(n) PROVE TypeOK'
      BY <2>1 DEF RecvBytes, Return, Room
    <2>2. CASE RecvClosed
      BY <2>2 DEF RecvClosed, Return
    <2>3. CASE RecvTimeout
      BY <2>3 DEF RecvTimeout, Return
    <2>4. CASE RecvReset
      BY <2>4 DEF RecvReset, Return
    <2>5. CASE BufferFull
      BY <2>5 DEF BufferFull, Return
    <2>6. CASE UNCHANGED vars
      BY <2>6 DEF vars, local
    <2>7. QED
      BY <2>1, <2>2, <2>3, <2>4, <2>5, <2>6 DEF Next, Step, Done
  <1>3. QED
    BY <1>1, <1>2, PTL DEF Spec

\* The loop invariant holds of every round of the loop and where it is left.
THEOREM ReceiveInvariant == Spec => []LoopInv
  <1>1. Init => LoopInv
    BY AnswerType DEF Init, LoopInv
  <1>2. TypeOK /\ LoopInv /\ [Next]_vars => LoopInv'
    <2> SUFFICES ASSUME TypeOK, LoopInv, [Next]_vars PROVE LoopInv'
      OBVIOUS
    <2> USE AnswerType DEF TypeOK, LoopInv, AnswerWholeOrClosed, FittingAnswerReturned, Whole
    <2>1. ASSUME NEW n \in 1..BufferSize, RecvBytes(n) PROVE LoopInv'
      <3> DEFINE found  == header_end < 0 /\ total_received + n >= answer.header
                 header == IF found THEN answer.header ELSE header_end
                 length == IF found THEN answer.length ELSE content_length
                 enough == header >= 0 /\ length >= 0 /\ total_received + n >= header + length
      <3>1. /\ pc = "recv" /\ answer' = answer /\ fate' = fate
            /\ total_received' = total_received + n /\ coming' = coming - n
            /\ header_end' = header /\ content_length' = length
            /\ total_received + n <= BufferSize - 1 /\ n <= coming
        BY <2>1 DEF RecvBytes, Room
      <3>2. \/ header = -1 /\ length = -1 /\ total_received + n < answer.header
            \/ header = answer.header /\ length = answer.length
        BY <3>1
      <3>3. CASE enough
        <4>1. pc' = "done" /\ returned' = total_received + n /\ state' = "IO_ERROR"
          BY <2>1, <3>1, <3>3 DEF RecvBytes, Return, Enough
        <4>2. header = answer.header /\ length = answer.length
          BY <3>2, <3>3
        <4>3. returned' >= answer.header + answer.length /\ answer.length >= 0
          BY <3>3, <4>1, <4>2
        <4> HIDE DEF enough, found, header, length
        <4>4. QED
          BY <3>1, <4>1, <4>3
      <3>4. CASE ~enough
        <4>1. pc' = "recv" /\ returned' = 0 /\ state' = "IO_ERROR"
          BY <2>1, <3>1, <3>4 DEF RecvBytes, Enough
        <4>2. \/ header = -1 /\ length = -1 /\ total_received + n < answer.header
              \/ /\ header = answer.header /\ length = answer.length
                 /\ answer.length >= 0 => total_received + n < answer.header + answer.length
          BY <3>2, <3>4
        <4> HIDE DEF enough, found, header, length
        <4>3. QED
          BY <3>1, <4>1, <4>2
      <3>5. QED
        BY <3>3, <3>4
    <2>2. CASE RecvClosed
      BY <2>2 DEF RecvClosed, Return
    <2>3. CASE RecvTimeout
      BY <2>3 DEF RecvTimeout, Return
    <2>4. CASE RecvReset
      BY <2>4 DEF RecvReset, Return
    <2>5. CASE BufferFull
      BY <2>5 DEF BufferFull, Return, Room
    <2>6. CASE UNCHANGED vars
      BY <2>6 DEF vars, local
    <2>7. QED
      BY <2>1, <2>2, <2>3, <2>4, <2>5, <2>6 DEF Next, Step, Done
  <1>3. QED
    BY <1>1, <1>2, ReceiveTypeCorrect, PTL DEF Spec

\* The terminating NUL is always written inside the buffer.
THEOREM ReceiveInBounds == Spec => []InBounds
  <1>1. TypeOK /\ LoopInv => InBounds
    BY DEF TypeOK, LoopInv, InBounds
  <1>2. QED
    BY <1>1, ReceiveTypeCorrect, ReceiveInvariant, PTL

\* What is returned as an answer is whole, or all that a closing peer sent.
THEOREM ReceiveWholeOrClosed == Spec => []AnswerWholeOrClosed
  <1>1. LoopInv => AnswerWholeOrClosed
    BY DEF LoopInv, AnswerWholeOrClosed
  <1>2. QED
    BY <1>1, ReceiveInvariant, PTL

\* An answer that fits and arrives is returned, however it is cut.
THEOREM ReceiveFitting == Spec => []FittingAnswerReturned
  <1>1. LoopInv => FittingAnswerReturned
    BY DEF LoopInv, FittingAnswerReturned
  <1>2. QED
    BY <1>1, ReceiveInvariant, PTL
=============================================================================
