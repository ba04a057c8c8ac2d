--------------------------- MODULE SamplerProofs ----------------------------
(***************************************************************************)
(* Theorems about Sampler, for any number of starts and stops, any         *)
(* interval and any length of the run: what is published and copied is     *)
(* whole and in order, and a stop is a bounded wait.                       *)
(***************************************************************************)
EXTENDS Sampler, TLAPS

USE SamplerAssumption, NoThreadAssumption

\* Every variable of the sampler keeps its type.
THEOREM SamplerTypeCorrect == Spec => []TypeOK
  <1>1. Init => TypeOK
    <2> SUFFICES ASSUME Init PROVE TypeOK
      OBVIOUS
    <2>1. pc \in [Threads -> {"down", "unborn"}]
      BY DEF Init
    <2>2. wake \in [Threads -> Nat] /\ now \in [Threads -> Nat]
      BY DEF Init
    <2>3. latest \in [ts : Nat, rest : Nat] /\ out \in [ts : Nat, rest : Nat, age : Nat]
      BY DEF Init
    <2>4. clock \in Nat \ {0}
      BY DEF Init
    <2>5. running \in BOOLEAN
      BY DEF Init
    <2>6. lock \in Threads \cup {NoThread} /\ thread \in Samplers \cup {NoThread}
      BY DEF Init
    <2>7. QED
      BY <2>1, <2>2, <2>3, <2>4, <2>5, <2>6 DEF TypeOK
  <1>2. TypeOK /\ [Next]_vars => TypeOK'
    <2> SUFFICES ASSUME TypeOK, [Next]_vars PROVE TypeOK'
      OBVIOUS
    <2> USE DEF TypeOK, Threads, Inside, Up, Goto
    <2>1. ASSUME NEW t \in Threads, SampleOnce(t) PROVE TypeOK'
      BY <2>1 DEF SampleOnce, Sample, ReadCounters, LockForWrite, Write, WriteRest
    <2>2. ASSUME NEW s \in Samplers, Test(s) \/ Wake(s) PROVE TypeOK'
      BY <2>2 DEF Test, Wake
    <2>3. CASE Start \/ Create \/ CreateFails
      BY <2>3 DEF Start, Create, CreateFails
    <2>4. CASE Snapshot \/ LockForCopy \/ Copy
      BY <2>4 DEF Snapshot, LockForCopy, Copy
    <2>5. CASE CopyRest
      <3>1. Age(now[Server], out.ts) \in Nat
        BY DEF Age
      <3>2. QED
        BY <2>5, <3>1 DEF CopyRest
    <2>6. CASE Stop \/ Join
      BY <2>6 DEF Stop, Join
    <2>7. CASE Tick
      BY <2>7 DEF Tick
    <2>8. CASE UNCHANGED vars
      BY <2>8 DEF vars
    <2>9. QED
      BY <2>1, <2>2, <2>3, <2>4, <2>5, <2>6, <2>7, <2>8 DEF Next, ServerStep
  <1>3. QED
    BY <1>1, <1>2, PTL DEF Spec

\* sample_once is entered by one thread at a time: while the server takes the
\* first sample no sampler lives, and only one lives at any time.
LEMMA OneInside == ASSUME SamplerInv PROVE OneSampler
  BY DEF SamplerInv, OneSampler, Threads, Inside, Up

\* The steps inside sample_once keep the invariant.
LEMMA SampleOnceInv ==
    ASSUME TypeOK, SamplerInv, NEW t \in Threads, SampleOnce(t)
    PROVE  SamplerInv'
  <1> USE DEF TypeOK, SamplerInv, Goto
  <1>1. OneSampler
    BY OneInside
  <1>2. CASE Sample(t)
    BY <1>2 DEF Sample, Threads, Inside, Up
  <1>3. CASE ReadCounters(t)
    BY <1>3 DEF ReadCounters, Threads, Inside, Up
  <1>4. CASE LockForWrite(t)
    BY <1>4 DEF LockForWrite, Threads, Inside, Up
  <1>5. CASE Write(t)
    BY <1>1, <1>5 DEF Write, OneSampler, Threads, Inside, Up
  <1>6. CASE WriteRest(t)
    <2>1. CASE t = Server
      BY <1>1, <1>6, <2>1 DEF WriteRest, OneSampler, Threads, Inside, Up
    <2>2. CASE t # Server
      BY <1>1, <1>6, <2>2 DEF WriteRest, OneSampler, Threads, Inside, Up
    <2>3. QED
      BY <2>1, <2>2
  <1>7. QED
    BY <1>2, <1>3, <1>4, <1>5, <1>6 DEF SampleOnce

\* ... and so do the steps of the server.
LEMMA ServerInv ==
    ASSUME TypeOK, SamplerInv, ServerStep
    PROVE  SamplerInv'
  <1> USE DEF TypeOK, SamplerInv, Goto
  <1>1. CASE Start
    BY <1>1 DEF Start, Threads, Inside, Up
  <1>2. CASE Create
    <2>1. PICK s \in Samplers : /\ pc[s] = "unborn" /\ thread' = s
                               /\ pc' = [pc EXCEPT ![Server] = "up", ![s] = "test"]
      BY <1>2 DEF Create
    <2>2. /\ pc[Server] = "create" /\ s # Server
          /\ UNCHANGED <<clock, lock, running, wake, now, latest, out>>
      BY <1>2 DEF Create
    <2>3. \A u \in Samplers : pc[u] \in {"unborn", "ended"}
      BY <2>2 DEF Up
    <2>4. /\ pc'[Server] = "up" /\ pc'[s] = "test"
          /\ \A t \in Threads \ {Server, s} : pc'[t] = pc[t]
      BY <2>1, <2>2 DEF Threads
    <2>5. \A t \in Threads : /\ pc[t] \notin {"rest", "write", "copy", "age"} \cup Inside
                            /\ pc'[t] \notin {"rest", "write", "copy", "age"} \cup Inside
      BY <2>2, <2>3, <2>4 DEF Threads, Inside
    <2>6. running /\ out.ts = out.rest /\ latest.ts > 0 /\ latest.rest > 0
      BY <2>2 DEF Up
    <2>7. QED
      BY <2>1, <2>2, <2>3, <2>4, <2>5, <2>6 DEF Threads, Up
  <1>3. CASE CreateFails
    BY <1>3 DEF CreateFails, Threads, Inside, Up
  <1>4. CASE Snapshot
    BY <1>4 DEF Snapshot, Threads, Inside, Up
  <1>5. CASE LockForCopy
    BY <1>5 DEF LockForCopy, Threads, Inside, Up
  <1>6. CASE Copy
    BY <1>6 DEF Copy, Threads, Inside, Up
  <1>7. CASE CopyRest
    BY <1>7 DEF CopyRest, Age, Threads, Inside, Up
  <1>8. CASE Stop
    BY <1>8 DEF Stop, Threads, Inside, Up
  <1>9. CASE Join
    <2>1. /\ pc[Server] = "join" /\ pc[thread] = "ended"
          /\ UNCHANGED <<clock, lock, running, thread, wake, now, latest, out>>
          /\ pc' = [pc EXCEPT ![Server] = "down"]
      BY <1>9 DEF Join
    <2>2. \A s \in Samplers : pc[s] \in {"unborn", "ended"} /\ pc'[s] = pc[s]
      BY <2>1
    <2>3. pc'[Server] = "down"
      BY <2>1 DEF Threads
    <2>4. \A t \in Threads : /\ pc[t] \notin {"rest", "write", "copy", "age"} \cup Inside
                            /\ pc'[t] \notin {"rest", "write", "copy", "age"} \cup Inside
      BY <2>1, <2>2, <2>3 DEF Threads, Inside
    <2>5. ~running /\ out.ts = out.rest
      BY <2>1
    <2>6. QED
      BY <2>1, <2>2, <2>3, <2>4, <2>5 DEF Threads, Up
  <1>10. QED
    BY <1>1, <1>2, <1>3, <1>4, <1>5, <1>6, <1>7, <1>8, <1>9 DEF ServerStep

\* The lock is held over every copy of latest_metrics, one thread at a time is
\* inside sample_once, and no time is ahead of the clock.
THEOREM SamplerInvariant == Spec => []SamplerInv
  <1>1. Init => SamplerInv
    BY DEF Init, SamplerInv, Threads, Inside, Up
  <1>2. TypeOK /\ SamplerInv /\ [Next]_vars => SamplerInv'
    <2> SUFFICES ASSUME TypeOK, SamplerInv, [Next]_vars PROVE SamplerInv'
      OBVIOUS
    <2>1. ASSUME NEW t \in Threads, SampleOnce(t) PROVE SamplerInv'
      BY <2>1, SampleOnceInv
    <2>2. ASSUME NEW s \in Samplers, Test(s) \/ Wake(s) PROVE SamplerInv'
      BY <2>2 DEF TypeOK, SamplerInv, Goto, Test, Wake, Threads, Inside, Up
    <2>3. CASE ServerStep
      BY <2>3, ServerInv
    <2>4. CASE Tick
      BY <2>4 DEF TypeOK, SamplerInv, Tick
    <2>5. CASE UNCHANGED vars
      BY <2>5 DEF SamplerInv, vars
    <2>6. QED
      BY <2>1, <2>2, <2>3, <2>4, <2>5 DEF Next
  <1>3. QED
    BY <1>1, <1>2, SamplerTypeCorrect, PTL DEF Spec

\* The unlocked state of sample_once is in one thread's hands at a time.
THEOREM SamplerExclusive == Spec => []OneSampler
  BY OneInside, SamplerInvariant, PTL

\* A snapshot handed to the server is one whole sample.
THEOREM SamplerSnapshotWhole == Spec => []SnapshotWhole
  <1>1. SamplerInv => SnapshotWhole
    BY DEF SamplerInv, SnapshotWhole
  <1>2. QED
    BY <1>1, SamplerInvariant, PTL

\* There is a sample to report whenever the server answers.
THEOREM SamplerReady == Spec => []ReadyWhenUp
  <1>1. SamplerInv => ReadyWhenUp
    BY DEF SamplerInv, ReadyWhenUp, Up
  <1>2. QED
    BY <1>1, SamplerInvariant, PTL

\* The reported age is never more than the time gone by.
THEOREM SamplerAge == Spec => []AgeSane
  <1>1. SamplerInv => AgeSane
    BY DEF SamplerInv, AgeSane
  <1>2. QED
    BY <1>1, SamplerInvariant, PTL

\* The reported sample time never goes back.
THEOREM SamplerAdvances == Spec => SnapshotsAdvance
  <1>1. TypeOK /\ SamplerInv /\ [Next]_vars => [out'.ts >= out.ts]_vars
    <2> SUFFICES ASSUME TypeOK, SamplerInv, Next PROVE out'.ts >= out.ts
      OBVIOUS
    <2>1. CASE Copy
      BY <2>1 DEF Copy, TypeOK, SamplerInv
    <2>2. CASE CopyRest
      BY <2>2 DEF CopyRest, TypeOK
    <2>3. CASE ~Copy /\ ~CopyRest
      <3>1. out' = out
        BY <2>3 DEF Next, ServerStep, SampleOnce, Sample, ReadCounters, LockForWrite, Write,
                    WriteRest, Test, Wake, Start, Create, CreateFails, Snapshot, LockForCopy,
                    Stop, Join, Tick
      <3>2. QED
        BY <3>1 DEF TypeOK
    <2>4. QED
      BY <2>1, <2>2, <2>3
  <1>2. QED
    BY <1>1, SamplerTypeCorrect, SamplerInvariant, PTL DEF Spec, SnapshotsAdvance

-----------------------------------------------------------------------------
(* A stop is bounded.                                                      *)

\* stopMetricsSampler waits for a thread there is.
ThreadThere == pc[Server] \in Up => thread \in Samplers /\ pc[thread] # "unborn"

\* How many steps sampler thread s has to go once the flag is down: the sample it
\* is in, its sleep, one more look at the flag.
Left(s) == CASE pc[s] = "sample" -> 7 [] pc[s] = "read"  -> 6 [] pc[s] = "lock" -> 5
             [] pc[s] = "write"  -> 4 [] pc[s] = "rest"  -> 3 [] pc[s] = "sleep" -> 2
             [] pc[s] = "test"   -> 1 [] OTHER -> 0

SamplerStep(s) == SampleOnce(s) \/ Test(s) \/ Wake(s)

\* A server that waits in stopMetricsSampler waits for one thread, which finds
\* the mutex free whenever it wants it and has ended when it has no step to go;
\* every step it takes is one less, and nothing adds to them.
Ending ==
    pc[Server] = "join" =>
        /\ thread \in Samplers
        /\ pc[thread] = "lock" => lock = NoThread
        /\ Left(thread) = 0 => pc[thread] = "ended"
Nearer ==
    pc[Server] = "join" =>
        \A s \in Samplers : /\ Left(s)' <= Left(s)
                            /\ SamplerStep(s) => Left(s)' < Left(s)
StopBounded == []Ending /\ [][Nearer]_vars

LEMMA ThreadStays ==
    ASSUME TypeOK, SamplerInv, ThreadThere, [Next]_vars
    PROVE  ThreadThere'
  <1> USE DEF TypeOK, Threads, Inside, Up, Goto, ThreadThere
  <1>1. ASSUME NEW t \in Threads, SampleOnce(t) PROVE ThreadThere'
    <2>1. thread' = thread /\ \A u \in Threads : pc'[u] # pc[u] => u = t
      BY <1>1 DEF SampleOnce, Sample, ReadCounters, LockForWrite, Write, WriteRest
    <2>2. pc[t] \in Inside \cup {"sample"} /\ pc'[t] \in Inside \cup {"create", "sleep"}
      BY <1>1 DEF SampleOnce, Sample, ReadCounters, LockForWrite, Write, WriteRest
    <2>3. QED
      BY <2>1, <2>2
  <1>2. ASSUME NEW s \in Samplers, Test(s) \/ Wake(s) PROVE ThreadThere'
    <2>1. /\ thread' = thread /\ pc'[s] # "unborn"
          /\ \A u \in Threads \ {s} : pc'[u] = pc[u]
      BY <1>2 DEF Test, Wake
    <2>2. QED
      BY <2>1
  <1>3. CASE Create
    BY <1>3 DEF Create
  <1>4. CASE Start
    BY <1>4 DEF Start, SamplerInv
  <1>5. CASE CreateFails \/ Snapshot \/ LockForCopy \/ Copy \/ CopyRest \/ Stop \/ Join
    BY <1>5 DEF CreateFails, Snapshot, LockForCopy, Copy, CopyRest, Stop, Join
  <1>6. CASE Tick \/ UNCHANGED vars
    BY <1>6 DEF Tick, vars
  <1>7. QED
    BY <1>1, <1>2, <1>3, <1>4, <1>5, <1>6 DEF Next, ServerStep

\* While the server waits, a thread comes nearer to its end with every step.
LEMMA StopNearer ==
    ASSUME TypeOK, SamplerInv, [Next]_vars, pc[Server] = "join", NEW s \in Samplers
    PROVE  Left(s)' <= Left(s) /\ (SamplerStep(s) => Left(s)' < Left(s))
  <1>1. ~running /\ s # Server
    BY DEF SamplerInv
  <1>2. CASE SamplerStep(s)
    <2>1. CASE SampleOnce(s)
      <3>1. \/ pc[s] = "sample" /\ pc'[s] = "read"
            \/ pc[s] = "read" /\ pc'[s] = "lock"
            \/ pc[s] = "lock" /\ pc'[s] = "write"
            \/ pc[s] = "write" /\ pc'[s] = "rest"
            \/ pc[s] = "rest" /\ pc'[s] = "sleep"
        <4>1. \A l : Goto(s, l) => pc'[s] = l
          BY DEF TypeOK, Threads, Goto
        <4>2. QED
          BY <1>1, <2>1, <4>1 DEF SampleOnce, Sample, ReadCounters, LockForWrite, Write, WriteRest
      <3>2. CASE pc[s] \in {"sample", "read", "lock"}
        BY <3>1, <3>2 DEF Left
      <3>3. CASE pc[s] \in {"write", "rest"}
        BY <3>1, <3>3 DEF Left
      <3>4. QED
        BY <3>1, <3>2, <3>3
    <2>2. CASE Test(s) \/ Wake(s)
      <3>1. \/ pc[s] = "test" /\ pc'[s] = "ended"
            \/ pc[s] = "sleep" /\ pc'[s] = "test"
        BY <1>1, <2>2 DEF Test, Wake, Goto, TypeOK, Threads
      <3>2. QED
        BY <3>1 DEF Left
    <2>3. QED
      BY <1>2, <2>1, <2>2 DEF SamplerStep, Left
  <1>3. CASE pc'[s] = pc[s]
    <2>1. Left(s)' = Left(s) /\ Left(s) \in Nat
      BY <1>3 DEF Left
    <2>2. QED
      BY <1>2, <2>1
  <1>4. ASSUME NEW t \in Threads \ {s}, SampleOnce(t) PROVE pc'[s] = pc[s]
    BY <1>4 DEF SampleOnce, Sample, ReadCounters, LockForWrite, Write, WriteRest, Goto,
                TypeOK, Threads
  <1>5. ASSUME NEW t \in Samplers \ {s}, Test(t) \/ Wake(t) PROVE pc'[s] = pc[s]
    BY <1>5 DEF Test, Wake, Goto, TypeOK, Threads
  <1>6. CASE ServerStep
    BY <1>1, <1>3, <1>6 DEF ServerStep, Start, Create, CreateFails, Snapshot, LockForCopy,
                            Copy, CopyRest, Stop, Join, Goto, TypeOK, Threads
  <1>7. CASE Tick \/ UNCHANGED vars
    BY <1>3, <1>7 DEF Tick, vars
  <1>8. CASE \E t \in Threads : SampleOnce(t)
    BY <1>2, <1>3, <1>4, <1>8 DEF SamplerStep
  <1>9. CASE \E t \in Samplers : Test(t) \/ Wake(t)
    BY <1>2, <1>3, <1>5, <1>9 DEF SamplerStep
  <1>10. QED
    BY <1>6, <1>7, <1>8, <1>9 DEF Next

\* Seven steps after stopMetricsSampler has lowered the flag, one sample at most
\* among them, its thread has ended; it never waits for the mutex on the way.
THEOREM SamplerStopBounded == Spec => StopBounded
  <1>1. Init => ThreadThere
    BY DEF Init, ThreadThere, Up, Threads
  <1>2. TypeOK /\ SamplerInv /\ ThreadThere => Ending
    <2> SUFFICES ASSUME TypeOK, SamplerInv, ThreadThere, pc[Server] = "join"
                 PROVE  /\ thread \in Samplers
                        /\ pc[thread] = "lock" => lock = NoThread
                        /\ Left(thread) = 0 => pc[thread] = "ended"
      BY DEF Ending
    <2>1. thread \in Samplers /\ pc[thread] # "unborn"
      BY DEF ThreadThere, Up
    <2>2. pc[thread] = "lock" => lock = NoThread
      <3>1. ASSUME NEW t \in Threads, lock = t, pc[thread] = "lock" PROVE FALSE
        <4>1. pc[t] \in {"write", "rest", "copy", "age"}
          BY <3>1 DEF SamplerInv
        <4>2. t # Server /\ t # thread
          BY <3>1, <4>1
        <4>3. QED
          BY <4>1, <4>2 DEF SamplerInv, Threads
      <3>2. QED
        BY <3>1 DEF TypeOK
    <2>3. Left(thread) = 0 => pc[thread] = "ended"
      BY <2>1 DEF Left, SamplerInv, Inside
    <2>4. QED
      BY <2>1, <2>2, <2>3
  <1>3. TypeOK /\ SamplerInv /\ [Next]_vars => Nearer
    BY StopNearer DEF Nearer
  <1>4. TypeOK /\ SamplerInv /\ ThreadThere /\ [Next]_vars => ThreadThere'
    BY ThreadStays
  <1>5. QED
    BY <1>1, <1>2, <1>3, <1>4, SamplerTypeCorrect, SamplerInvariant, PTL DEF Spec, StopBounded
=============================================================================
