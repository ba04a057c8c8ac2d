------------------------------ MODULE Sampler -------------------------------
(***************************************************************************)
(* The agent's metrics sampler (metrics.c): a background thread takes a    *)
(* sample every second and publishes it in latest_metrics under            *)
(* sampler_lock; the server thread starts and stops the sampler and copies *)
(* snapshots out.                                                          *)
(*                                                                         *)
(* The structure copies `latest_metrics = sampled` and `*out = latest` are *)
(* two steps each (the timestamp, then the rest), so a copy that is not    *)
(* protected is seen torn.  cpu_prev, disk_prev, net_prev and cpu_ema are  *)
(* read and written with no lock: their only protection is that a single   *)
(* thread at a time is inside sample_once.  What a sample contains is      *)
(* module Counters; here it is named by the time it was taken at.          *)
(***************************************************************************)
EXTENDS Naturals, FiniteSets

CONSTANTS
    Samplers,   \* bound: sampler threads ever created, one per initMetricsSampler
    Server,     \* the thread that runs socketServer
    Interval,   \* SAMPLER_INTERVAL_MS, in ticks of the clock
    MaxClock    \* bound: ticks

ASSUME SamplerAssumption ==
    /\ Server \notin Samplers
    /\ Interval \in Nat
    /\ MaxClock \in Nat

Threads == Samplers \cup {Server}
NoThread == "none"
ASSUME NoThreadAssumption == NoThread \notin Threads

VARIABLES
    clock,      \* CLOCK_MONOTONIC; 0 is before the agent's time
    pc,         \* pc[t]: where thread t is
    lock,       \* holder of sampler_lock, or NoThread
    running,    \* sampler_running
    thread,     \* sampler_thread, or NoThread
    wake,       \* wake[t]: end of thread t's usleep
    now,        \* now[t]: its local now_ms
    latest,     \* latest_metrics: its sampleTsMs, and the sample the rest is of
    out         \* the server's copy, and the age it reports

vars == <<clock, pc, lock, running, thread, wake, now, latest, out>>

Inside == {"read", "lock", "write", "rest"}             \* in sample_once, time taken
Up     == {"up", "snapshot", "copy", "age", "join"}     \* the sampler thread exists

Init ==
    /\ clock = 1
    /\ pc = [t \in Threads |-> IF t = Server THEN "down" ELSE "unborn"]
    /\ lock = NoThread
    /\ running = FALSE
    /\ thread = NoThread
    /\ wake = [t \in Threads |-> 0]
    /\ now = [t \in Threads |-> 0]
    /\ latest = [ts |-> 0, rest |-> 0]
    /\ out = [ts |-> 0, rest |-> 0, age |-> 0]

Goto(t, l) == pc' = [pc EXCEPT ![t] = l]

-----------------------------------------------------------------------------
(* sample_once, run by the server during initialisation and by the sampler *)

\* now_ms = now_monotonic_ms()
Sample(t) ==
    /\ pc[t] = "sample"
    /\ now' = [now EXCEPT ![t] = clock]
    /\ Goto(t, "read")
    /\ UNCHANGED <<clock, lock, running, thread, wake, latest, out>>

\* The counters are read and compared with cpu_prev, disk_prev and net_prev;
\* last_sample_ms and latest_metrics are read.  No lock is held.
ReadCounters(t) ==
    /\ pc[t] = "read"
    /\ Goto(t, "lock")
    /\ UNCHANGED <<clock, lock, running, thread, wake, now, latest, out>>

LockForWrite(t) ==
    /\ pc[t] = "lock"
    /\ lock = NoThread
    /\ lock' = t
    /\ Goto(t, "write")
    /\ UNCHANGED <<clock, running, thread, wake, now, latest, out>>

\* latest_metrics = sampled, first half
Write(t) ==
    /\ pc[t] = "write"
    /\ latest' = [latest EXCEPT !.ts = now[t]]
    /\ Goto(t, "rest")
    /\ UNCHANGED <<clock, lock, running, thread, wake, now, out>>

\* ... second half, last_sample_ms, unlock; then usleep, or initMetricsSampler
WriteRest(t) ==
    /\ pc[t] = "rest"
    /\ latest' = [latest EXCEPT !.rest = now[t]]
    /\ lock' = NoThread
    /\ IF t = Server
       THEN Goto(t, "create") /\ UNCHANGED wake
       ELSE Goto(t, "sleep") /\ wake' = [wake EXCEPT ![t] = clock + Interval]
    /\ UNCHANGED <<clock, running, thread, now, out>>

SampleOnce(t) ==
    Sample(t) \/ ReadCounters(t) \/ LockForWrite(t) \/ Write(t) \/ WriteRest(t)

-----------------------------------------------------------------------------
(* sampler_loop                                                            *)

\* while (sampler_running), read without the lock
Test(s) ==
    /\ pc[s] = "test"
    /\ Goto(s, IF running THEN "sample" ELSE "ended")
    /\ UNCHANGED <<clock, lock, running, thread, wake, now, latest, out>>

\* usleep returns; when the bounded clock has stopped nothing is waited for
Wake(s) ==
    /\ pc[s] = "sleep"
    /\ clock >= wake[s] \/ clock = MaxClock
    /\ Goto(s, "test")
    /\ UNCHANGED <<clock, lock, running, thread, wake, now, latest, out>>

-----------------------------------------------------------------------------
(* The server: initMetricsSampler, getMetricsSnapshot, stopMetricsSampler  *)

\* Mutant: sampler_running is not tested.
StartAgain ==
    /\ pc[Server] \in {"down", "up"}
    /\ lock = NoThread
    /\ running' = TRUE
    /\ Goto(Server, "sample")
    /\ UNCHANGED <<clock, lock, thread, wake, now, latest, out>>

\* sampler_running is tested and set under the lock; then the server itself
\* takes the first sample.
Start ==
    /\ pc[Server] \in {"down", "up"}
    /\ lock = NoThread
    /\ running' = TRUE
    /\ Goto(Server, IF running THEN "up" ELSE "sample")
    /\ UNCHANGED <<clock, lock, thread, wake, now, latest, out>>

Create ==
    /\ pc[Server] = "create"
    /\ \E s \in Samplers :
         /\ pc[s] = "unborn"
         /\ thread' = s
         /\ pc' = [pc EXCEPT ![Server] = "up", ![s] = "test"]
    /\ UNCHANGED <<clock, lock, running, wake, now, latest, out>>

\* pthread_create fails: initMetricsSampler returns -1
CreateFails ==
    /\ pc[Server] = "create"
    /\ lock = NoThread
    /\ running' = FALSE
    /\ Goto(Server, "down")
    /\ UNCHANGED <<clock, lock, thread, wake, now, latest, out>>

\* getMetricsSnapshot reads the clock before it waits for the lock
Snapshot ==
    /\ pc[Server] = "up"
    /\ now' = [now EXCEPT ![Server] = clock]
    /\ Goto(Server, "snapshot")
    /\ UNCHANGED <<clock, lock, running, thread, wake, latest, out>>

\* Mutant: the copy is made without the lock.
LockForCopyNot ==
    /\ pc[Server] = "snapshot"
    /\ Goto(Server, "copy")
    /\ UNCHANGED <<clock, lock, running, thread, wake, now, latest, out>>

LockForCopy ==
    /\ pc[Server] = "snapshot"
    /\ lock = NoThread
    /\ lock' = Server
    /\ Goto(Server, "copy")
    /\ UNCHANGED <<clock, running, thread, wake, now, latest, out>>

\* *out_metrics = latest_metrics, first half
Copy ==
    /\ pc[Server] = "copy"
    /\ out' = [out EXCEPT !.ts = latest.ts]
    /\ Goto(Server, "age")
    /\ UNCHANGED <<clock, lock, running, thread, wake, now, latest>>

\* Mutant: no test, and signed.
AgePlain(n, ts) == n - ts

\* A sample may have been published between the server's look at the clock
\* and the lock: it is then newer than now_ms.
Age(n, ts) == IF ts > 0 /\ n >= ts THEN n - ts ELSE 0

\* ... second half, the age, unlock
CopyRest ==
    /\ pc[Server] = "age"
    /\ out' = [out EXCEPT !.rest = latest.rest, !.age = Age(now[Server], out.ts)]
    /\ lock' = NoThread
    /\ Goto(Server, "up")
    /\ UNCHANGED <<clock, running, thread, wake, now, latest>>

\* Mutant: the flag is not lowered.
StopKeepsRunning ==
    /\ pc[Server] = "up"
    /\ lock = NoThread
    /\ Goto(Server, "join")
    /\ UNCHANGED <<clock, lock, running, thread, wake, now, latest, out>>

Stop ==
    /\ pc[Server] = "up"
    /\ lock = NoThread
    /\ running' = FALSE
    /\ Goto(Server, "join")
    /\ UNCHANGED <<clock, lock, thread, wake, now, latest, out>>

\* Mutant: the thread is not waited for.
JoinNot ==
    /\ pc[Server] = "join"
    /\ Goto(Server, "down")
    /\ UNCHANGED <<clock, lock, running, thread, wake, now, latest, out>>

\* pthread_join
Join ==
    /\ pc[Server] = "join"
    /\ pc[thread] = "ended"
    /\ Goto(Server, "down")
    /\ UNCHANGED <<clock, lock, running, thread, wake, now, latest, out>>

ServerStep == \/ Start \/ Create \/ CreateFails
              \/ Snapshot \/ LockForCopy \/ Copy \/ CopyRest
              \/ Stop \/ Join

-----------------------------------------------------------------------------
Tick == /\ clock < MaxClock
        /\ clock' = clock + 1
        /\ UNCHANGED <<pc, lock, running, thread, wake, now, latest, out>>

Next == \/ \E t \in Threads : SampleOnce(t)
        \/ \E s \in Samplers : Test(s) \/ Wake(s)
        \/ ServerStep
        \/ Tick

Spec == Init /\ [][Next]_vars

\* Threads run and time passes.  A mutex promises no order, only that a thread
\* which finds it free again and again gets it: strong fairness on acquiring.
Fairness ==
    /\ WF_vars(Tick)
    /\ \A s \in Samplers : /\ WF_vars(Sample(s) \/ ReadCounters(s) \/ Write(s) \/ WriteRest(s))
                           /\ SF_vars(LockForWrite(s))
                           /\ WF_vars(Test(s) \/ Wake(s))
    /\ WF_vars(SampleOnce(Server)) /\ WF_vars(Copy \/ CopyRest \/ Join)
    /\ SF_vars(LockForCopy)

FairSpec == Spec /\ Fairness

-----------------------------------------------------------------------------
(* Properties.                                                             *)

TypeOK ==
    /\ clock \in Nat \ {0}
    /\ pc \in [Threads -> {"down", "create", "unborn", "test", "sleep", "ended", "sample"}
                           \cup Inside \cup Up]
    /\ lock \in Threads \cup {NoThread}
    /\ running \in BOOLEAN
    /\ thread \in Samplers \cup {NoThread}
    /\ wake \in [Threads -> Nat]
    /\ now \in [Threads -> Nat]
    /\ latest \in [ts : Nat, rest : Nat]
    /\ out \in [ts : Nat, rest : Nat, age : Nat]

\* cpu_prev, disk_prev, net_prev, cpu_ema (all unlocked) are in the hands of at
\* most one thread: the server's first sample and the sampler never overlap,
\* nor do an old sampler and the one started after it (metrics.c sample_once).
OneSampler == \A t, u \in Threads : pc[t] \in Inside /\ pc[u] \in Inside => t = u

\* A snapshot the server has taken is one sample, not parts of two
\* (getMetricsSnapshot against sample_once).
SnapshotWhole == pc[Server] = "up" => out.ts = out.rest

\* sampleAgeMs is an age: never longer than the clock has run, although now_ms
\* is read before the lock and the sample may be newer (metrics.c:490-497).
AgeSane == out.age <= clock

\* The server never answers with the zeros latest_metrics starts with: there is
\* a sample as soon as the sampler is up (initMetricsSampler).
ReadyWhenUp == pc[Server] \in {"up", "snapshot", "copy", "age"} =>
                   latest.ts > 0 /\ latest.rest > 0

\* What /status reports never goes back in time from one answer to the next.
SnapshotsAdvance == [][out'.ts >= out.ts]_vars

\* sampler_lock is held exactly over the two halves of a copy; one sampler
\* thread lives, while the server is up; nobody sees half a sample without the
\* lock; time taken is time gone by.
SamplerInv ==
    /\ \A t \in Threads : lock = t <=> pc[t] \in {"write", "rest", "copy", "age"}
    /\ pc[Server] \in {"down", "sample", "create"} \cup Inside \cup Up
    /\ \A s \in Samplers :
         /\ pc[s] \in {"unborn", "ended", "test", "sleep", "sample"} \cup Inside
         /\ pc[s] \notin {"unborn", "ended"} => s = thread /\ pc[Server] \in Up
    /\ running <=> pc[Server] \notin {"down", "join"}
    /\ (\A t \in Threads : pc[t] # "rest") => latest.ts = latest.rest
    /\ \A t \in Threads : pc[t] = "rest" => latest.ts = now[t]
    /\ IF pc[Server] = "age" THEN out.ts = latest.ts ELSE out.ts = out.rest
    /\ pc[Server] \in {"create"} \cup Up => latest.ts > 0 /\ latest.rest > 0
    /\ \A t \in Threads : pc[t] \in Inside => 0 < now[t] /\ latest.ts <= now[t]
    /\ \A t \in Threads : now[t] <= clock
    /\ out.ts <= latest.ts /\ latest.ts <= clock
    /\ out.age <= clock

\* stopMetricsSampler returns.
StopReturns == pc[Server] = "join" ~> pc[Server] = "down"
=============================================================================
