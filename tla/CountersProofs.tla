--------------------------- MODULE CountersProofs ---------------------------
(***************************************************************************)
(* Theorems about Counters, for any machine, any number of ticks and       *)
(* transfers and any readings that fail: first the CPU share, then the     *)
(* disk and network rates.  The total of a file is the number of its       *)
(* units, so that a transfer adds at most one element to a finite set and  *)
(* a device that goes takes its own away.                                  *)
(***************************************************************************)
EXTENDS Counters, FiniteSetTheorems, TLAPS

Sum(c) == c.user + c.idle + c.iowait

\* Something other than zero has been published or remembered of the CPU.
SomeBusy == latest.busyPercent > 0 \/ latest.busy > 0 \/ (cpu_ema.initialized /\ cpu_ema.value > 0)

\* The inductive invariant: the counters are far from their overflow, the user
\* time read last is part of the machine's, the moving average is a percentage,
\* and is zero as long as nothing has run.
CpuInv ==
    /\ cpu \in CpuCounters
    /\ ticks \in 0..MaxTicks
    /\ Sum(cpu) <= 3 + ticks
    /\ cpu.user >= 1
    /\ cpu_prev \in [initialized : BOOLEAN, at : CpuCounters]
    /\ Sum(cpu_prev.at) <= 3 + MaxTicks
    /\ cpu_prev.initialized => cpu_prev.at.user \in 1..cpu.user
    /\ cpu_ema \in [initialized : BOOLEAN, value : Percent]
    /\ latest.busyPercent \in Percent
    /\ latest.busy \in Nat
    /\ raw \in Percent
    /\ SomeBusy => cpu.user > 1

-----------------------------------------------------------------------------
(* Arithmetic.                                                             *)

\* What is below Word is its own remainder.
LEMMA SmallMod ==
    ASSUME NEW a \in Nat, a < Word
    PROVE  a % Word = a
  BY CountersAssumption

\* A part of a whole is a percentage of it.
LEMMA PartIsPercent ==
    ASSUME NEW b \in Nat, NEW t \in Nat, b <= t, t > 0
    PROVE  /\ (100 * b) \div t \in Percent
           /\ b = 0 => (100 * b) \div t = 0
  <1> DEFINE q == (100 * b) \div t
  <1>1. q \in Int /\ t * q <= 100 * b /\ 100 * b < t * q + t
    OBVIOUS
  <1>2. q <= 100
    <2>1. SUFFICES ASSUME q >= 101 PROVE FALSE
      BY <1>1
    <2>2. t * q >= t * 101
      BY <1>1, <2>1
    <2>3. QED
      BY <1>1, <2>2
  <1>3. q >= 0
    <2>1. SUFFICES ASSUME q <= -1 PROVE FALSE
      BY <1>1
    <2>2. t * q <= t * (-1)
      BY <1>1, <2>1
    <2>3. QED
      BY <1>1, <2>2
  <1>4. b = 0 => q = 0
    <2>1. SUFFICES ASSUME b = 0, q >= 1 PROVE FALSE
      BY <1>1, <1>3
    <2>2. t * q >= t * 1
      BY <1>1, <2>1
    <2>3. QED
      BY <1>1, <2>1, <2>2
  <1>5. QED
    BY <1>1, <1>2, <1>3, <1>4 DEF Percent

\* Counters that are far from their overflow are added and subtracted as numbers.
LEMMA PlainTotals ==
    ASSUME NEW c \in CpuCounters, Sum(c) <= 3 + MaxTicks
    PROVE  Total(c) = Sum(c) /\ Busy(c) = c.user
  <1>1. c.user \in Nat /\ c.idle \in Nat /\ c.iowait \in Nat
    BY DEF CpuCounters
  <1>2. Total(c) = Sum(c)
    <2>1. Sum(c) \in Nat /\ Sum(c) < Word
      BY <1>1, CountersAssumption DEF Sum
    <2>2. QED
      BY <2>1, SmallMod DEF Total, Sum
  <1>3. Minus(Total(c), c.idle) = c.user + c.iowait
    <2>1. /\ Total(c) - c.idle = c.user + c.iowait
          /\ c.user + c.iowait \in Nat /\ c.user + c.iowait < Word
      BY <1>1, <1>2, CountersAssumption DEF Sum
    <2>2. QED
      BY <2>1, SmallMod DEF Minus
  <1>4. Minus(c.user + c.iowait, c.iowait) = c.user
    <2>1. (c.user + c.iowait) - c.iowait = c.user /\ c.user < Word
      BY <1>1, CountersAssumption DEF Sum
    <2>2. QED
      BY <1>1, <2>1, SmallMod DEF Minus
  <1>5. QED
    BY <1>2, <1>3, <1>4 DEF Busy

\* The differences of two readings that can be compared.
LEMMA Deltas ==
    ASSUME CpuInv, CpuComparable
    PROVE  /\ delta_busy = cpu.user - cpu_prev.at.user
           /\ delta_busy \in Nat /\ delta_total \in Nat
           /\ delta_busy <= delta_total
  <1> DEFINE old == cpu_prev.at
  <1>1. /\ cpu \in CpuCounters /\ old \in CpuCounters
        /\ Sum(cpu) <= 3 + MaxTicks /\ Sum(old) <= 3 + MaxTicks
    <2>1. Sum(cpu) \in Int /\ ticks \in Int /\ ticks <= MaxTicks /\ MaxTicks \in Nat
      BY CountersAssumption DEF CpuInv, CpuCounters, Sum
    <2>2. QED
      BY <2>1 DEF CpuInv
  <1>2. cpu.user >= old.user /\ cpu.idle >= old.idle /\ cpu.iowait >= old.iowait
    <2>1. DOMAIN cpu = {"user", "idle", "iowait"}
      BY <1>1 DEF CpuCounters
    <2>2. \A s \in {"user", "idle", "iowait"} : cpu[s] >= cpu_prev.at[s]
      BY <2>1 DEF CpuComparable
    <2>3. QED
      BY <2>2
  <1>3. /\ Total(cpu) = Sum(cpu) /\ Busy(cpu) = cpu.user
        /\ Total(old) = Sum(old) /\ Busy(old) = old.user
    BY <1>1, PlainTotals
  <1>4. /\ cpu.user \in Nat /\ cpu.idle \in Nat /\ cpu.iowait \in Nat
        /\ old.user \in Nat /\ old.idle \in Nat /\ old.iowait \in Nat
    BY <1>1 DEF CpuCounters
  <1> HIDE DEF old
  <1>5. /\ Sum(cpu) - Sum(old) \in Nat /\ Sum(cpu) - Sum(old) < Word
        /\ cpu.user - old.user \in Nat /\ cpu.user - old.user < Word
        /\ cpu.user - old.user <= Sum(cpu) - Sum(old)
    BY <1>1, <1>2, <1>4, CountersAssumption DEF Sum
  <1>6. Minus(Sum(cpu), Sum(old)) = Sum(cpu) - Sum(old)
    BY <1>5, SmallMod DEF Minus
  <1>7. Minus(cpu.user, old.user) = cpu.user - old.user
    BY <1>5, SmallMod DEF Minus
  <1>8. delta_total = Sum(cpu) - Sum(old) /\ delta_busy = cpu.user - old.user
    BY <1>3, <1>6, <1>7 DEF delta_total, delta_busy, old
  <1>9. QED
    BY <1>5, <1>8 DEF old

\* The moving average of percentages is one, and is zero as long as they are.
LEMMA EmaIsPercent ==
    ASSUME NEW percent \in Percent, cpu_ema \in [initialized : BOOLEAN, value : Percent]
    PROVE  /\ Ema(percent) \in Percent
           /\ Ema(percent) > 0 => percent > 0 \/ (cpu_ema.initialized /\ cpu_ema.value > 0)
  <1>1. cpu_ema.value \in Percent
    OBVIOUS
  <1>2. QED
    BY <1>1 DEF Ema, Percent

-----------------------------------------------------------------------------
(* The invariant is inductive.                                             *)

LEMMA SampleStep ==
    ASSUME CpuInv, Sample
    PROVE  CpuInv'
  <1> DEFINE share   == (100 * delta_busy) \div delta_total
             percent == Ema(Clamp(share))
  <1>1. PICK failed \in SUBSET ReadFails :
          /\ IF CpuMeasured(failed)
             THEN raw' = share /\ cpu_ema' = [initialized |-> TRUE, value |-> percent]
             ELSE UNCHANGED <<raw, cpu_ema>>
          /\ latest' =
               [rate |-> NextRate(failed),
                busy |-> IF Short THEN latest.busy
                         ELSE IF "cpu" \notin failed /\ CpuComparable THEN delta_busy ELSE 0,
                busyPercent |-> IF Short THEN latest.busyPercent
                                ELSE IF CpuMeasured(failed) THEN Clamp(percent) ELSE 0]
          /\ cpu_prev' = NextCpuPrev(failed)
          /\ UNCHANGED <<cpu, ticks>>
    BY DEF Sample, bounds
  <1>2. CpuMeasured(failed) =>
          /\ share \in Percent /\ (share > 0 => cpu.user > 1)
          /\ percent \in Percent /\ (percent > 0 => cpu.user > 1)
          /\ Clamp(percent) = percent
    <2>1. SUFFICES ASSUME CpuMeasured(failed)
                   PROVE  /\ share \in Percent /\ (share > 0 => cpu.user > 1)
                          /\ percent \in Percent /\ (percent > 0 => cpu.user > 1)
                          /\ Clamp(percent) = percent
      OBVIOUS
    <2>2. /\ delta_busy = cpu.user - cpu_prev.at.user
          /\ delta_busy \in Nat /\ delta_total \in Nat
          /\ delta_busy <= delta_total /\ delta_total > 0 /\ cpu_prev.initialized
      BY <2>1, Deltas DEF CpuMeasured, CpuComparable
    <2>3. share \in Percent /\ (delta_busy = 0 => share = 0)
      BY <2>2, PartIsPercent
    <2>4. delta_busy > 0 => cpu.user > 1
      BY <2>2 DEF CpuInv, CpuCounters
    <2> HIDE DEF share
    <2>5. share > 0 => cpu.user > 1
      BY <2>2, <2>3, <2>4 DEF Percent
    <2>6. Clamp(share) = share
      BY <2>3 DEF Clamp, Percent
    <2>7. /\ percent \in Percent
          /\ percent > 0 => share > 0 \/ (cpu_ema.initialized /\ cpu_ema.value > 0)
      BY <2>3, <2>6, EmaIsPercent DEF CpuInv
    <2> HIDE DEF percent
    <2>8. Clamp(percent) = percent
      BY <2>7 DEF Clamp, Percent
    <2>9. QED
      BY <2>3, <2>5, <2>7, <2>8 DEF CpuInv, SomeBusy
  <1>3. "cpu" \notin failed /\ CpuComparable =>
          delta_busy \in Nat /\ (delta_busy > 0 => cpu.user > 1)
    <2>1. SUFFICES ASSUME CpuComparable
                   PROVE  delta_busy \in Nat /\ (delta_busy > 0 => cpu.user > 1)
      OBVIOUS
    <2>2. delta_busy = cpu.user - cpu_prev.at.user /\ delta_busy \in Nat /\ cpu_prev.initialized
      BY <2>1, Deltas DEF CpuComparable
    <2>3. QED
      BY <2>2 DEF CpuInv, CpuCounters
  <1> HIDE DEF share, percent
  <1>4. /\ cpu_prev' \in [initialized : BOOLEAN, at : CpuCounters]
        /\ Sum(cpu_prev'.at) <= 3 + MaxTicks
        /\ cpu_prev'.initialized => cpu_prev'.at.user \in 1..cpu.user
    <2>1. CASE "cpu" \in failed
      BY <1>1, <2>1 DEF NextCpuPrev, CpuInv
    <2>2. CASE "cpu" \notin failed
      <3>1. cpu_prev' = [initialized |-> TRUE, at |-> cpu]
        BY <1>1, <2>2 DEF NextCpuPrev
      <3>2. Sum(cpu) <= 3 + MaxTicks
        BY CountersAssumption DEF CpuInv, CpuCounters, Sum
      <3>3. QED
        BY <3>1, <3>2 DEF CpuInv, CpuCounters, Sum
    <2>3. QED
      BY <2>1, <2>2
  <1>5. /\ raw' \in Percent
        /\ cpu_ema' \in [initialized : BOOLEAN, value : Percent]
        /\ cpu_ema'.initialized /\ cpu_ema'.value > 0 => cpu.user > 1
    <2>1. CASE CpuMeasured(failed)
      <3>1. raw' = share /\ cpu_ema' = [initialized |-> TRUE, value |-> percent]
        BY <1>1, <2>1
      <3>2. QED
        BY <1>2, <2>1, <3>1
    <2>2. CASE ~CpuMeasured(failed)
      BY <1>1, <2>2 DEF CpuInv, SomeBusy
    <2>3. QED
      BY <2>1, <2>2
  <1>6. /\ latest'.busyPercent \in Percent
        /\ latest'.busyPercent > 0 => cpu.user > 1
    BY <1>1, <1>2 DEF CpuInv, SomeBusy, Percent
  <1>7. latest'.busy \in Nat /\ (latest'.busy > 0 => cpu.user > 1)
    BY <1>1, <1>3 DEF CpuInv, SomeBusy
  <1>8. /\ cpu' \in CpuCounters /\ cpu'.user >= 1
        /\ ticks' \in 0..MaxTicks /\ Sum(cpu)' <= 3 + ticks'
    BY <1>1 DEF CpuInv, Sum
  <1>9. SomeBusy' => cpu'.user > 1
    BY <1>1, <1>5, <1>6, <1>7 DEF SomeBusy
  <1>10. QED
    BY <1>1, <1>4, <1>5, <1>6, <1>7, <1>8, <1>9, Zenon DEF CpuInv, Sum

LEMMA MachineStep ==
    ASSUME CpuInv, Tick \/ IowaitDrops \/ Transfer \/ Plug \/ Unplug \/ UNCHANGED vars
    PROVE  CpuInv'
  <1>1. CASE Tick
    <2>1. PICK s \in DOMAIN cpu : cpu' = [cpu EXCEPT ![s] = (@ + 1) % Word]
      BY <1>1 DEF Tick
    <2>2. /\ UNCHANGED <<cpu_prev, cpu_ema, latest, raw>>
          /\ ticks' = ticks + 1 /\ ticks < MaxTicks
      BY <1>1 DEF Tick
    <2>3. /\ s \in {"user", "idle", "iowait"}
          /\ cpu.user \in Nat /\ cpu.idle \in Nat /\ cpu.iowait \in Nat
      BY <2>1 DEF CpuInv, CpuCounters
    <2>4. cpu[s] + 1 \in Nat /\ cpu[s] + 1 < Word
      <3>1. Sum(cpu) <= 3 + ticks /\ ticks \in Nat
        BY DEF CpuInv
      <3>2. cpu[s] \in Nat /\ cpu[s] <= Sum(cpu)
        BY <2>3 DEF Sum
      <3>3. QED
        BY <2>2, <2>3, <3>1, <3>2, CountersAssumption DEF Sum
    <2>5. (cpu[s] + 1) % Word = cpu[s] + 1
      BY <2>4, SmallMod
    <2>6. cpu' = [cpu EXCEPT ![s] = cpu[s] + 1]
      BY <2>1, <2>5
    <2>7. /\ cpu' \in CpuCounters /\ Sum(cpu') = Sum(cpu) + 1
          /\ cpu'.user >= cpu.user
      BY <2>3, <2>6 DEF CpuInv, CpuCounters, Sum
    <2>8. ticks' \in 0..MaxTicks /\ Sum(cpu') <= 3 + ticks'
      BY <2>2, <2>3, <2>7, CountersAssumption DEF CpuInv, Sum
    <2>9. cpu'.user >= 1 /\ (cpu_prev.initialized => cpu_prev.at.user \in 1..cpu'.user)
      BY <2>7 DEF CpuInv, CpuCounters
    <2>10. SomeBusy' => cpu'.user > 1
      BY <2>2, <2>7 DEF CpuInv, CpuCounters, SomeBusy
    <2>11. QED
      BY <2>2, <2>7, <2>8, <2>9, <2>10 DEF CpuInv, Sum
  <1>2. CASE IowaitDrops
    <2>1. /\ cpu' = [cpu EXCEPT !.iowait = @ - 1] /\ cpu.iowait > 0
          /\ UNCHANGED <<cpu_prev, cpu_ema, latest, raw, ticks>>
      BY <1>2 DEF IowaitDrops, agent
    <2>2. cpu' \in CpuCounters /\ Sum(cpu') <= Sum(cpu) /\ cpu'.user = cpu.user
      BY <2>1 DEF CpuInv, CpuCounters, Sum
    <2>3. Sum(cpu') <= 3 + ticks
      BY <2>2 DEF CpuInv, CpuCounters, Sum
    <2>4. QED
      BY <2>1, <2>2, <2>3 DEF CpuInv, SomeBusy, Sum
  <1>3. CASE Transfer
    BY <1>3 DEF CpuInv, SomeBusy, Sum, Transfer, agent
  <1>4. CASE Plug \/ Unplug \/ UNCHANGED vars
    BY <1>4 DEF CpuInv, SomeBusy, Sum, Plug, Unplug, agent, bounds, vars
  <1>5. QED
    BY <1>1, <1>2, <1>3, <1>4

\* The CPU's side of Counters, for every value of the constants.
THEOREM CountersInvariant == Spec => []CpuInv
  <1>1. Init => CpuInv
    BY CountersAssumption DEF Init, CpuInv, Boot, CpuCounters, Sum, SomeBusy, Percent
  <1>2. CpuInv /\ [Next]_vars => CpuInv'
    BY SampleStep, MachineStep DEF Next
  <1>3. QED
    BY <1>1, <1>2, PTL DEF Spec

\* The busy share is a percentage before it is clamped (metrics.c:155-182).
THEOREM CountersShare == Spec => []ShareIsPercent
  <1>1. CpuInv => ShareIsPercent
    BY DEF CpuInv, ShareIsPercent
  <1>2. QED
    BY <1>1, CountersInvariant, PTL

\* What was busy before the agent started is never reported (metrics.c:155-160).
THEOREM CountersBusyIsReal == Spec => []BusyIsReal
  <1>1. CpuInv => BusyIsReal
    BY DEF CpuInv, BusyIsReal, SomeBusy, Boot
  <1>2. QED
    BY <1>1, CountersInvariant, PTL

-----------------------------------------------------------------------------
(* The disk and network rates.                                             *)

Moved == [Fields -> Nat]

\* The most that k transfers can have counted.
Bound(k) == Cardinality(Devices) * (1 + k)

\* What has been counted of m since it was last read is no more than what has
\* moved, and no total is near its overflow.
Since(m, f) ==
    /\ IsFiniteSet(Units(m, f))
    /\ Cardinality(Units(m, f)) <= Bound(moves)
    /\ prev[m].initialized => Cardinality(Units(m, f)) <= prev[m].at[f] + window[m][f]

\* The inductive invariant of the rates.
RateInv ==
    /\ count \in [Devices -> Moved]
    /\ present \subseteq Devices
    /\ \A d \in Devices \ present, f \in Fields : count[d][f] = 0
    /\ moves \in 0..MaxMoves
    /\ elapsed \in Nat /\ sampled \in BOOLEAN
    /\ window \in [Meters -> Moved] /\ truth \in [Meters -> Moved]
    /\ prev \in [Meters -> [initialized : BOOLEAN, at : Moved]]
    /\ latest \in [rate : [Meters -> [moved : Moved, over : Nat]],
                   busy : Nat, busyPercent : Percent]
    /\ \A m \in Meters, f \in Fields : Since(m, f)
    /\ RateTrue

\* A disk whose lines are added up is a whole one.
LEMMA CountedWhole ==
    ASSUME NEW d \in Devices, d.meter = "disk", Counted(d)
    PROVE  WholeDisk(d)
  <1>1. d.family \in DiskFamilies /\ ~is_partition_device(d)
    BY DEF Counted, is_supported_disk_device
  <1>2. CASE d.of # NoDevice
    <2>1. PICK e \in Devices : /\ WholeDisk(e) /\ e.family = d.family
                              /\ d.digit /\ d.p = e.digit
      BY <1>1, <1>2, NamingAssumption
    <2>2. d.family \in {"nvme", "mmcblk"} => e.digit
      BY <2>1, NamingAssumption
    <2>3. QED
      BY <1>1, <2>1, <2>2 DEF is_partition_device
  <1>3. QED
    BY <1>1, <1>2 DEF WholeDisk

\* Of the devices that count a transfer no more are added up than it is to be
\* reported, all of them in its own file.
LEMMA RouteLines ==
    ASSUME RateInv, NEW m \in Meters, NEW r \in RoutesOf(m)
    PROVE  /\ Passed(r, m) \in Nat
           /\ IsFiniteSet(Lines(m) \cap r)
           /\ Cardinality(Lines(m) \cap r) \in Nat
           /\ Cardinality(Lines(m) \cap r) <= Passed(r, m)
           /\ Cardinality(Lines(m) \cap r) <= Cardinality(Devices)
           /\ \A n \in Meters : n # m => Lines(n) \cap r = {}
  <1> DEFINE hit == Lines(m) \cap r
  <1>1. /\ r \subseteq Devices /\ \A d \in r : d.meter = m
        /\ \A d, e \in r : WholeDisk(d) /\ WholeDisk(e) => d = e
    BY RouteAssumption DEF RoutesOf
  <1>2. IsFiniteSet(Devices)
    BY CountersAssumption
  <1>3. hit \subseteq Devices /\ hit \subseteq r /\ \A d \in hit : Counted(d)
    BY <1>1 DEF Lines
  <1>4. IsFiniteSet(hit) /\ Cardinality(hit) <= Cardinality(Devices)
    BY <1>2, <1>3, FS_Subset
  <1>5. Cardinality(hit) \in Nat
    BY <1>4, FS_CardinalityType
  <1>6. \A n \in Meters : n # m => Lines(n) \cap r = {}
    BY <1>1 DEF Lines
  <1>7. Passed(r, m) \in Nat /\ Cardinality(hit) <= Passed(r, m)
    <2>1. CASE m = "disk"
      <3>1. \A d, e \in hit : d = e
        <4> SUFFICES ASSUME NEW d \in hit, NEW e \in hit PROVE d = e
          OBVIOUS
        <4>1. WholeDisk(d) /\ WholeDisk(e)
          BY <1>1, <1>3, <2>1, CountedWhole
        <4>2. QED
          BY <1>1, <1>3, <4>1
      <3>2. CASE hit = {}
        BY <2>1, <3>2, FS_EmptySet DEF Passed
      <3>3. CASE hit # {}
        <4>1. PICK x \in hit : hit = {x}
          BY <3>1, <3>3
        <4> HIDE DEF hit
        <4>2. Cardinality(hit) = 1
          BY <4>1, FS_Singleton
        <4>3. QED
          BY <2>1, <4>2 DEF Passed
      <3>4. QED
        BY <3>2, <3>3
    <2>2. CASE m # "disk"
      <3> DEFINE out == {d \in r : d.family # "lo"}
      <3>1. hit \subseteq out
        BY <1>1, <1>3, <2>2 DEF Counted
      <3>2. IsFiniteSet(out)
        BY <1>1, <1>2, FS_Subset
      <3>3. Cardinality(hit) <= Cardinality(out) /\ Cardinality(out) \in Nat
        BY <3>1, <3>2, FS_Subset, FS_CardinalityType
      <3>4. QED
        BY <2>2, <3>3 DEF Passed
    <2>3. QED
      BY <2>1, <2>2
  <1>8. QED
    BY <1>4, <1>5, <1>6, <1>7

\* The bounds grow by a line for each device and transfer.
LEMMA BoundFacts ==
    /\ Cardinality(Devices) \in Nat
    /\ \A k \in Nat : Bound(k) \in Nat /\ Bound(k + 1) = Bound(k) + Cardinality(Devices)
    /\ \A k, l \in Nat : k <= l => Bound(k) <= Bound(l)
    /\ Bound(MaxMoves) < Word
  <1> DEFINE n == Cardinality(Devices)
  <1>1. n \in Nat /\ n * (1 + MaxMoves) < Word
    BY CountersAssumption, FS_CardinalityType
  <1> HIDE DEF n
  <1>2. \A k \in Nat : n * (1 + k) \in Nat /\ n * (1 + (k + 1)) = n * (1 + k) + n
    BY <1>1
  <1>3. \A k, l \in Nat : k <= l => n * (1 + k) <= n * (1 + l)
    <2> SUFFICES ASSUME NEW k \in Nat, NEW l \in Nat, k <= l
                 PROVE  n * (1 + k) <= n * (1 + l)
      OBVIOUS
    <2>1. n * (1 + l) = n * (1 + k) + n * (l - k) /\ l - k \in Nat
      BY <1>1
    <2>2. n * (l - k) \in Nat
      BY <1>1, <2>1
    <2>3. n * (1 + k) \in Nat
      BY <1>1
    <2>4. QED
      BY <2>1, <2>2, <2>3
  <1>4. QED
    BY <1>1, <1>2, <1>3 DEF n, Bound

\* The units of a file are its lines', one for every count.
LEMMA UnitsAre ==
    ASSUME NEW m, NEW f, NEW u
    PROVE  u \in Units(m, f) <=>
             \E d \in Lines(m) : \E k \in 1..count[d][f] : u = <<d, k>>
  BY DEF Units

LEMMA UnitsAreNext ==
    ASSUME NEW m, NEW f, NEW u
    PROVE  u \in Units(m, f)' <=>
             \E d \in Lines(m)' : \E k \in 1..count'[d][f] : u = <<d, k>>
  BY DEF Units

\* The total of a file is the number of its units.
LEMMA TotalsAre ==
    ASSUME RateInv, NEW m \in Meters
    PROVE  /\ Totals(m) = [f \in Fields |-> Cardinality(Units(m, f))]
           /\ \A f \in Fields : Totals(m)[f] \in Nat /\ Totals(m)[f] < Word
  <1>1. ASSUME NEW f \in Fields
        PROVE  /\ Cardinality(Units(m, f)) \in Nat /\ Cardinality(Units(m, f)) < Word
               /\ Cardinality(Units(m, f)) % Word = Cardinality(Units(m, f))
    <2>1. /\ IsFiniteSet(Units(m, f))
          /\ Cardinality(Units(m, f)) <= Bound(moves)
      BY DEF RateInv, Since
    <2>2. Cardinality(Units(m, f)) \in Nat
      BY <2>1, FS_CardinalityType
    <2>3. moves \in Nat /\ MaxMoves \in Nat /\ moves <= MaxMoves
      BY CountersAssumption DEF RateInv
    <2>4. Bound(moves) <= Bound(MaxMoves) /\ Bound(moves) \in Nat /\ Bound(MaxMoves) \in Nat
      BY <2>3, BoundFacts
    <2>5. Cardinality(Units(m, f)) < Word
      BY <2>1, <2>2, <2>4, BoundFacts, CountersAssumption
    <2>6. QED
      BY <2>2, <2>5, SmallMod
  <1>2. QED
    BY <1>1 DEF Totals

\* A transfer is counted by the devices on its way.
CountsFor(r, f) ==
    /\ count' = [d \in Devices |->
                   IF d \in r THEN [count[d] EXCEPT ![f] = @ + 1] ELSE count[d]]
    /\ present' = present

\* A transfer adds a unit for each line on its way, to the counter it moves.
LEMMA TransferUnits ==
    ASSUME RateInv, NEW r, NEW f \in Fields, CountsFor(r, f),
           NEW m \in Meters, NEW g \in Fields,
           IsFiniteSet(Lines(m) \cap r)
    PROVE  \E new : /\ Units(m, g)' \subseteq Units(m, g) \cup new
                    /\ IsFiniteSet(new)
                    /\ Cardinality(new) <= Cardinality(Lines(m) \cap r)
                    /\ g # f => new = {}
  <1>1. Lines(m)' = Lines(m) /\ Lines(m) \subseteq present /\ present \subseteq Devices
    BY DEF Lines, RateInv, CountsFor
  <1>2. \A e \in Lines(m) : count[e][g] \in Nat
    BY <1>1 DEF RateInv, Moved
  <1>3. ASSUME NEW e \in Lines(m)
        PROVE  /\ e \in r /\ g = f => count'[e][g] = count[e][g] + 1
               /\ ~(e \in r /\ g = f) => count'[e][g] = count[e][g]
    <2>1. e \in Devices /\ count[e] \in [Fields -> Nat]
      BY <1>1 DEF RateInv, Moved
    <2>2. CASE e \in r
      <3>1. count'[e] = [count[e] EXCEPT ![f] = @ + 1]
        BY <2>1, <2>2 DEF CountsFor
      <3>2. QED
        BY <2>1, <2>2, <3>1
    <2>3. CASE e \notin r
      BY <2>1, <2>3 DEF CountsFor
    <2>4. QED
      BY <2>2, <2>3
  <1>4. CASE g # f
    <2>1. \A e \in Lines(m) : count'[e][g] = count[e][g]
      BY <1>3, <1>4
    <2>2. Units(m, g)' \subseteq Units(m, g) \cup {}
      <3>1. SUFFICES ASSUME NEW u \in Units(m, g)' PROVE u \in Units(m, g)
        OBVIOUS
      <3>2. PICK e \in Lines(m) : \E k \in 1..count'[e][g] : u = <<e, k>>
        BY <1>1, UnitsAreNext
      <3>3. QED
        BY <2>1, <3>2, UnitsAre
    <2>3. Cardinality(Lines(m) \cap r) \in Nat
      BY FS_CardinalityType
    <2>4. IsFiniteSet({}) /\ Cardinality({}) <= Cardinality(Lines(m) \cap r)
      BY <2>3, FS_EmptySet
    <2>5. QED
      BY <2>2, <2>4
  <1>5. CASE g = f
    <2> DEFINE hit   == Lines(m) \cap r
               added == [e \in hit |-> <<e, count[e][g] + 1>>]
               new   == {added[e] : e \in hit}
    <2>1. added \in Surjection(hit, new)
      BY DEF Surjection
    <2>2. IsFiniteSet(new) /\ Cardinality(new) <= Cardinality(hit)
      BY <2>1, FS_Surjection
    <2>3. ASSUME NEW u \in Units(m, g)' PROVE u \in Units(m, g) \cup new
      <3>1. PICK e \in Lines(m) : \E k \in 1..count'[e][g] : u = <<e, k>>
        BY <1>1, UnitsAreNext
      <3>2. CASE e \in r
        <4>1. \A k \in 1..count'[e][g] : k \in 1..count[e][g] \/ k = count[e][g] + 1
          BY <1>2, <1>3, <1>5, <3>1, <3>2
        <4>2. PICK k \in 1..count'[e][g] : u = <<e, k>>
          BY <3>1
        <4>3. CASE k \in 1..count[e][g]
          BY <3>1, <4>2, <4>3, UnitsAre
        <4>4. CASE k = count[e][g] + 1
          <5>1. e \in hit /\ u = added[e]
            BY <3>1, <3>2, <4>2, <4>4
          <5>2. QED
            BY <5>1
        <4>5. QED
          BY <4>1, <4>3, <4>4
      <3>3. CASE e \notin r
        <4>1. count'[e][g] = count[e][g]
          BY <1>3, <3>3
        <4>2. QED
          BY <3>1, <4>1, UnitsAre
      <3>4. QED
        BY <3>2, <3>3
    <2> HIDE DEF new
    <2>4. QED
      BY <1>5, <2>2, <2>3
  <1>6. QED
    BY <1>4, <1>5

\* The bounds of a file follow its units: w at most are added for w that moved,
\* or none.
LEMMA SinceKept ==
    ASSUME RateInv, NEW m \in Meters, NEW f \in Fields,
           UNCHANGED prev,
           NEW new, NEW w \in Nat,
           Units(m, f)' \subseteq Units(m, f) \cup new,
           IsFiniteSet(new), Cardinality(new) <= w, w <= Cardinality(Devices),
           moves' = moves + 1 \/ (w = 0 /\ moves' = moves),
           window'[m][f] \in Nat, window'[m][f] >= window[m][f] + w
    PROVE  Since(m, f)'
  <1>1. /\ IsFiniteSet(Units(m, f))
        /\ Cardinality(Units(m, f)) <= Bound(moves)
        /\ prev[m].initialized => Cardinality(Units(m, f)) <= prev[m].at[f] + window[m][f]
    BY DEF RateInv, Since
  <1>2. /\ Cardinality(Units(m, f)) \in Nat /\ Cardinality(new) \in Nat
        /\ moves \in Nat /\ window[m][f] \in Nat
        /\ prev[m].at[f] \in Nat
    BY <1>1, FS_CardinalityType, CountersAssumption DEF RateInv, Moved
  <1>3. /\ IsFiniteSet(Units(m, f) \cup new)
        /\ Cardinality(Units(m, f) \cup new) =
             Cardinality(Units(m, f)) + Cardinality(new) - Cardinality(Units(m, f) \cap new)
    BY <1>1, FS_Union
  <1>4. Cardinality(Units(m, f) \cap new) \in Nat
    BY <1>1, FS_Subset, FS_CardinalityType
  <1>5. /\ IsFiniteSet(Units(m, f)')
        /\ Cardinality(Units(m, f)') <= Cardinality(Units(m, f) \cup new)
        /\ Cardinality(Units(m, f)') \in Nat
    BY <1>3, FS_Subset, FS_CardinalityType
  <1>6. Cardinality(Units(m, f)') <= Cardinality(Units(m, f)) + w
    BY <1>2, <1>3, <1>4, <1>5
  <1>7. Cardinality(Units(m, f)') <= Bound(moves')
    <2>1. /\ Bound(moves) \in Nat /\ Cardinality(Devices) \in Nat
          /\ Bound(moves + 1) = Bound(moves) + Cardinality(Devices)
      BY <1>2, BoundFacts
    <2>2. QED
      BY <1>1, <1>2, <1>5, <1>6, <2>1
  <1>8. prev[m].initialized => Cardinality(Units(m, f)') <= prev[m].at[f] + window'[m][f]
    BY <1>1, <1>2, <1>5, <1>6
  <1>9. QED
    BY <1>5, <1>7, <1>8 DEF Since

\* A published difference is a number, and no more than what has moved.
LEMMA DeltaIsTrue ==
    ASSUME RateInv, NEW m \in Meters, NEW failed
    PROVE  /\ Delta(m, failed) \in Moved
           /\ \A f \in Fields : Delta(m, failed)[f] <= window[m][f]
  <1>1. \A f \in Fields : window[m][f] \in Nat /\ prev[m].at[f] \in Nat
    BY DEF RateInv, Moved
  <1>2. CASE m \in failed \/ ~Comparable(m)
    <2>1. Delta(m, failed) = Nothing
      BY <1>2 DEF Delta
    <2>2. QED
      BY <1>1, <2>1 DEF Nothing, Moved
  <1>3. CASE ~(m \in failed \/ ~Comparable(m))
    <2>1. Delta(m, failed) = [f \in Fields |-> Minus(Totals(m)[f], prev[m].at[f])]
      BY <1>3 DEF Delta
    <2>2. ASSUME NEW f \in Fields
          PROVE  Minus(Totals(m)[f], prev[m].at[f]) \in 0..window[m][f]
      <3>1. prev[m].initialized /\ Totals(m)[f] >= prev[m].at[f]
        BY <1>3 DEF Comparable
      <3>2. /\ Totals(m)[f] = Cardinality(Units(m, f))
            /\ Totals(m)[f] \in Nat /\ Totals(m)[f] < Word
        BY TotalsAre
      <3>3. Cardinality(Units(m, f)) <= prev[m].at[f] + window[m][f]
        BY <3>1 DEF RateInv, Since
      <3> DEFINE d == Totals(m)[f] - prev[m].at[f]
      <3>4. d \in Nat /\ d < Word /\ d <= window[m][f]
        BY <1>1, <3>1, <3>2, <3>3, CountersAssumption
      <3>5. Minus(Totals(m)[f], prev[m].at[f]) = d
        BY <3>4, SmallMod DEF Minus
      <3> HIDE DEF d
      <3>6. QED
        BY <1>1, <3>4, <3>5
    <2>3. \A f \in Fields : Minus(Totals(m)[f], prev[m].at[f]) \in Nat
      BY <1>1, <2>2
    <2>4. \A f \in Fields : Minus(Totals(m)[f], prev[m].at[f]) <= window[m][f]
      BY <1>1, <2>2
    <2>5. QED
      BY <2>1, <2>3, <2>4 DEF Moved
  <1>4. QED
    BY <1>2, <1>3

LEMMA SampleRates ==
    ASSUME RateInv, CpuInv', Sample
    PROVE  RateInv'
  <1>1. PICK failed \in SUBSET ReadFails :
          /\ \E b, p : latest' = [rate |-> NextRate(failed), busy |-> b, busyPercent |-> p]
          /\ prev' = [m \in Meters |-> NextPrev(m, failed)]
          /\ truth' = IF Short THEN truth ELSE window
          /\ window' = [m \in Meters |-> IF m \in failed THEN window[m] ELSE Nothing]
          /\ sampled' = TRUE /\ elapsed' = 0
          /\ UNCHANGED <<count, present, moves>>
    BY Zenon DEF Sample, bounds
  <1>2. Nothing \in Moved
    BY DEF Nothing, Moved
  <1>3. /\ window \in [Meters -> Moved] /\ truth \in [Meters -> Moved]
        /\ latest.rate \in [Meters -> [moved : Moved, over : Nat]]
        /\ elapsed \in Nat
    BY DEF RateInv
  <1>4. window' \in [Meters -> Moved] /\ truth' \in [Meters -> Moved]
    BY <1>1, <1>2, <1>3
  <1>5. \A m \in Meters : NextPrev(m, failed) \in [initialized : BOOLEAN, at : Moved]
    <2>1. TAKE m \in Meters
    <2>2. Totals(m) \in Moved
      BY TotalsAre DEF Totals, Moved
    <2>3. prev[m] \in [initialized : BOOLEAN, at : Moved]
      BY DEF RateInv
    <2>4. QED
      BY <2>2, <2>3 DEF NextPrev
  <1>6. prev' \in [Meters -> [initialized : BOOLEAN, at : Moved]]
    BY <1>1, <1>5
  <1>7. ASSUME NEW m \in Meters, NEW f \in Fields
        PROVE  Since(m, f)'
    <2>1. Units(m, f)' = Units(m, f)
      BY <1>1 DEF Units, Lines
    <2>2. /\ IsFiniteSet(Units(m, f))
          /\ Cardinality(Units(m, f)) <= Bound(moves)
          /\ prev[m].initialized => Cardinality(Units(m, f)) <= prev[m].at[f] + window[m][f]
      BY DEF RateInv, Since
    <2>3. CASE m \in failed
      <3>1. prev'[m] = prev[m] /\ window'[m] = window[m]
        BY <1>1, <2>3 DEF NextPrev
      <3>2. QED
        BY <1>1, <2>1, <2>2, <3>1 DEF Since
    <2>4. CASE m \notin failed
      <3>1. prev'[m].at[f] = Totals(m)[f] /\ window'[m][f] = 0
        BY <1>1, <2>4 DEF NextPrev, Nothing
      <3>2. /\ Totals(m)[f] = Cardinality(Units(m, f))
            /\ Totals(m)[f] \in Nat
        BY TotalsAre
      <3>3. Cardinality(Units(m, f)) <= prev'[m].at[f] + window'[m][f]
        BY <3>1, <3>2
      <3>4. QED
        BY <1>1, <2>1, <2>2, <3>3 DEF Since
    <2>5. QED
      BY <2>3, <2>4
  <1>8. /\ NextRate(failed) \in [Meters -> [moved : Moved, over : Nat]]
        /\ \A m \in Meters :
             /\ NextRate(failed)[m].over = 0 \/ NextRate(failed)[m].over >= MinWindow
             /\ \A f \in Fields : NextRate(failed)[m].moved[f] <= truth'[m][f]
    <2>1. CASE Short
      <3>1. NextRate(failed) = latest.rate /\ truth' = truth
        BY <1>1, <2>1 DEF NextRate, Short
      <3>2. QED
        BY <1>3, <3>1 DEF RateInv, RateTrue
    <2>2. CASE ~sampled
      <3>1. NextRate(failed) = [m \in Meters |-> NoRate] /\ truth' = window
        BY <1>1, <2>2 DEF NextRate, Short
      <3>2. NoRate \in [moved : Moved, over : Nat] /\ NoRate.over = 0
        BY <1>2 DEF NoRate
      <3>3. \A m \in Meters, f \in Fields : NoRate.moved[f] <= window[m][f]
        BY <1>3 DEF NoRate, Nothing, Moved
      <3>4. QED
        BY <3>1, <3>2, <3>3
    <2>3. CASE sampled /\ ~Short
      <3>1. /\ NextRate(failed) = [m \in Meters |-> [moved |-> Delta(m, failed), over |-> elapsed]]
            /\ truth' = window /\ elapsed >= MinWindow
        BY <1>1, <1>3, <2>3, CountersAssumption DEF NextRate, Short
      <3>2. \A m \in Meters : /\ Delta(m, failed) \in Moved
                              /\ \A f \in Fields : Delta(m, failed)[f] <= window[m][f]
        BY DeltaIsTrue
      <3>3. QED
        BY <1>3, <3>1, <3>2
    <2>4. QED
      BY <2>1, <2>2, <2>3
  <1>9. /\ latest' \in [rate : [Meters -> [moved : Moved, over : Nat]],
                        busy : Nat, busyPercent : Percent]
        /\ latest'.rate = NextRate(failed)
    <2>1. PICK b, p : latest' = [rate |-> NextRate(failed), busy |-> b, busyPercent |-> p]
      BY <1>1
    <2>2. b \in Nat /\ p \in Percent
      BY <2>1 DEF CpuInv
    <2>3. QED
      BY <1>8, <2>1, <2>2
  <1>10. RateTrue'
    BY <1>8, <1>9 DEF RateTrue
  <1>11. /\ count' \in [Devices -> Moved] /\ present' \subseteq Devices
         /\ \A d \in Devices \ present', f \in Fields : count'[d][f] = 0
         /\ moves' \in 0..MaxMoves /\ elapsed' \in Nat /\ sampled' \in BOOLEAN
    BY <1>1 DEF RateInv
  <1>12. QED
    BY <1>4, <1>6, <1>7, <1>9, <1>10, <1>11 DEF RateInv

LEMMA TransferRates ==
    ASSUME RateInv, Transfer
    PROVE  RateInv'
  <1>1. PICK m \in Meters, f \in Fields : \E r \in RoutesOf(m) :
          /\ CountsFor(r, f)
          /\ r \subseteq present
          /\ window' = [window EXCEPT ![m][f] = @ + Passed(r, m)]
    BY Zenon DEF Transfer, CountsFor
  <1>2. PICK r \in RoutesOf(m) :
          /\ CountsFor(r, f)
          /\ r \subseteq present
          /\ window' = [window EXCEPT ![m][f] = @ + Passed(r, m)]
    BY <1>1
  <1>3. /\ moves < MaxMoves /\ moves' = moves + 1
        /\ UNCHANGED <<present, elapsed, sampled, prev, latest, truth>>
    BY DEF Transfer, agent
  <1>4. /\ Passed(r, m) \in Nat
        /\ IsFiniteSet(Lines(m) \cap r)
        /\ Cardinality(Lines(m) \cap r) \in Nat
        /\ Cardinality(Lines(m) \cap r) <= Passed(r, m)
        /\ Cardinality(Lines(m) \cap r) <= Cardinality(Devices)
        /\ \A n \in Meters : n # m => Lines(n) \cap r = {}
    BY RouteLines
  <1>5. count' \in [Devices -> Moved]
    <2>1. \A e \in Devices : count[e] \in [Fields -> Nat]
      BY DEF RateInv, Moved
    <2>2. \A e \in Devices : [count[e] EXCEPT ![f] = @ + 1] \in [Fields -> Nat]
      BY <2>1
    <2>3. QED
      BY <1>2, <2>1, <2>2 DEF Moved, CountsFor
  <1>6. \A e \in Devices \ present', g \in Fields : count'[e][g] = 0
    <2>1. TAKE e \in Devices \ present', g \in Fields
    <2>2. count'[e] = count[e]
      BY <1>2, <1>3 DEF CountsFor
    <2>3. QED
      BY <1>3, <2>2 DEF RateInv
  <1>7. /\ window' \in [Meters -> Moved]
        /\ \A n \in Meters, g \in Fields :
             /\ window[n][g] \in Nat /\ window'[n][g] >= window[n][g]
             /\ n = m /\ g = f => window'[n][g] = window[n][g] + Passed(r, m)
    <2>1. window \in [Meters -> [Fields -> Nat]]
      BY DEF RateInv, Moved
    <2>2. QED
      BY <1>2, <1>4, <2>1 DEF Moved
  <1>8. moves \in Nat /\ moves' \in 0..MaxMoves
    BY <1>3, CountersAssumption DEF RateInv
  <1>9. ASSUME NEW n \in Meters, NEW g \in Fields
        PROVE  Since(n, g)'
    <2>1. window'[n][g] \in Nat
      BY <1>7 DEF Moved
    <2>2. IsFiniteSet(Lines(n) \cap r)
      BY <1>4, FS_EmptySet
    <2>3. PICK new : /\ Units(n, g)' \subseteq Units(n, g) \cup new
                     /\ IsFiniteSet(new)
                     /\ Cardinality(new) <= Cardinality(Lines(n) \cap r)
                     /\ g # f => new = {}
      BY <1>2, <2>2, TransferUnits
    <2>4. Cardinality(new) \in Nat
      BY <2>3, FS_CardinalityType
    <2>5. CASE n = m /\ g = f
      <3>1. window'[n][g] >= window[n][g] + Cardinality(new) /\ Cardinality(new) <= Cardinality(Devices)
        <4> DEFINE k == Cardinality(new)
                   h == Cardinality(Lines(m) \cap r)
        <4>1. /\ k \in Nat /\ h \in Nat /\ k <= h /\ h <= Passed(r, m) /\ h <= Cardinality(Devices)
              /\ Passed(r, m) \in Nat /\ Cardinality(Devices) \in Nat
          BY <1>4, <2>3, <2>4, <2>5, BoundFacts
        <4>2. window[n][g] \in Nat /\ window'[n][g] = window[n][g] + Passed(r, m)
          BY <1>7, <2>5
        <4> HIDE DEF k, h
        <4>3. window'[n][g] >= window[n][g] + k /\ k <= Cardinality(Devices)
          BY <4>1, <4>2
        <4>4. QED
          BY <4>3 DEF k
      <3>2. Cardinality(new) <= Cardinality(new) /\ prev' = prev
        BY <1>3, <2>4
      <3>3. QED
        BY <1>3, <2>1, <2>3, <2>4, <3>1, <3>2, SinceKept
    <2>6. CASE ~(n = m /\ g = f)
      <3>1. Cardinality(new) = 0
        BY <1>4, <2>3, <2>4, <2>6, FS_EmptySet
      <3>2. window'[n][g] >= window[n][g] + 0
        BY <1>7
      <3>3. 0 \in Nat /\ Cardinality(new) <= 0 /\ 0 <= Cardinality(Devices) /\ prev' = prev
        BY <1>3, <3>1, BoundFacts
      <3>4. QED
        BY <1>3, <2>1, <2>3, <3>2, <3>3, SinceKept
    <2>7. QED
      BY <2>5, <2>6
  <1>10. RateTrue'
    BY <1>3 DEF RateInv, RateTrue
  <1>11. QED
    BY <1>3, <1>5, <1>6, <1>7, <1>8, <1>9, <1>10 DEF RateInv

\* A device goes and takes its units along, or comes with none.
LEMMA PlugRates ==
    ASSUME RateInv, Plug \/ Unplug
    PROVE  RateInv'
  <1>1. UNCHANGED <<moves, elapsed, sampled, prev, latest, truth, window>>
    BY DEF Plug, Unplug, agent, bounds
  <1>2. /\ count' \in [Devices -> Moved] /\ present' \subseteq Devices
        /\ \A d \in Devices \ present', f \in Fields : count'[d][f] = 0
        /\ \A d \in present', f \in Fields : 
             /\ count'[d][f] = count[d][f]
             /\ d \notin present => count[d][f] = 0
    <2>1. CASE Plug
      <3>1. PICK d \in Removable \ present : present' = present \cup {d} /\ count' = count
        BY <2>1 DEF Plug
      <3>2. QED
        BY <3>1, CountersAssumption DEF RateInv
    <2>2. CASE Unplug
      <3>1. PICK d \in Removable \cap present :
              present' = present \ {d} /\ count' = [count EXCEPT ![d] = Nothing]
        BY <2>2 DEF Unplug
      <3>2. QED
        BY <3>1 DEF RateInv, Nothing, Moved
    <2>3. QED
      BY <2>1, <2>2
  <1>3. ASSUME NEW m \in Meters, NEW f \in Fields
        PROVE  Since(m, f)'
    <2>1. Units(m, f)' \subseteq Units(m, f)
      <3>1. SUFFICES ASSUME NEW u \in Units(m, f)' PROVE u \in Units(m, f)
        OBVIOUS
      <3>2. PICK e \in Lines(m)' : \E k \in 1..count'[e][f] : u = <<e, k>>
        BY UnitsAreNext
      <3>3. e \in present' /\ e.meter = m /\ Counted(e)
        BY DEF Lines
      <3>4. e \in present /\ count'[e][f] = count[e][f]
        BY <1>2, <3>2, <3>3
      <3>5. e \in Lines(m)
        BY <3>3, <3>4 DEF Lines
      <3>6. QED
        BY <3>2, <3>4, <3>5, UnitsAre
    <2>2. moves' = moves /\ window'[m][f] >= window[m][f] + 0 /\ window'[m][f] \in Nat
      BY <1>1 DEF RateInv, Moved
    <2>3. IsFiniteSet({}) /\ Cardinality({}) <= 0 /\ 0 <= Cardinality(Devices)
      BY FS_EmptySet, BoundFacts
    <2>4. QED
      BY <1>1, <2>1, <2>2, <2>3, SinceKept
  <1>4. RateTrue'
    BY <1>1 DEF RateInv, RateTrue
  <1>5. QED
    BY <1>1, <1>2, <1>3, <1>4 DEF RateInv

\* Time, and what the CPU does with it, leave the files alone.
LEMMA TimeRates ==
    ASSUME RateInv, Tick \/ IowaitDrops \/ UNCHANGED vars
    PROVE  RateInv'
  <1>1. /\ UNCHANGED <<count, present, moves, sampled, prev, latest, truth, window>>
        /\ elapsed' \in Nat
    BY DEF Tick, IowaitDrops, RateInv, vars, agent, bounds
  <1>2. ASSUME NEW m \in Meters, NEW f \in Fields
        PROVE  Since(m, f)'
    <2>1. Units(m, f)' = Units(m, f)
      BY <1>1 DEF Units, Lines
    <2>2. QED
      BY <1>1, <2>1 DEF RateInv, Since
  <1>3. RateTrue'
    BY <1>1 DEF RateInv, RateTrue
  <1>4. QED
    BY <1>1, <1>2, <1>3 DEF RateInv

LEMMA InitRates == Init => RateInv
  <1> SUFFICES ASSUME Init PROVE RateInv
    OBVIOUS
  <1>1. Nothing \in Moved
    BY DEF Nothing, Moved
  <1>2. /\ \A d \in Devices, f \in Fields : count[d][f] \in {0, 1}
        /\ count \in [Devices -> Moved]
        /\ present \subseteq Devices
        /\ \A d \in Devices \ present, f \in Fields : count[d][f] = 0
    BY DEF Init, Moved
  <1>3. /\ moves \in 0..MaxMoves /\ elapsed \in Nat /\ sampled \in BOOLEAN
        /\ window \in [Meters -> Moved] /\ truth \in [Meters -> Moved]
        /\ prev \in [Meters -> [initialized : BOOLEAN, at : Moved]]
    <2>1. moves = 0 /\ elapsed = 0 /\ sampled = FALSE
      BY DEF Init
    <2>2. window = [m \in Meters |-> Nothing] /\ truth = [m \in Meters |-> Nothing]
      BY DEF Init
    <2>3. prev = [m \in Meters |-> [initialized |-> FALSE, at |-> Nothing]]
      BY DEF Init
    <2>4. /\ MaxMoves \in Nat
          /\ moves \in 0..MaxMoves /\ elapsed \in Nat /\ sampled \in BOOLEAN
      <3>1. MaxMoves \in Nat
        BY CountersAssumption
      <3>2. moves \in 0..MaxMoves /\ elapsed \in Nat
        BY <2>1, <3>1
      <3>3. sampled \in BOOLEAN
        BY <2>1
      <3>4. QED
        BY <3>1, <3>2, <3>3
    <2>5. [initialized |-> FALSE, at |-> Nothing] \in [initialized : BOOLEAN, at : Moved]
      BY <1>1
    <2>6. prev \in [Meters -> [initialized : BOOLEAN, at : Moved]]
      BY <2>3, <2>5
    <2>7. QED
      BY <1>1, <2>2, <2>4, <2>6
  <1>4. latest = [rate |-> [m \in Meters |-> NoRate], busy |-> 0, busyPercent |-> 0]
    BY DEF Init
  <1>5. [m \in Meters |-> NoRate] \in [Meters -> [moved : Moved, over : Nat]]
    BY <1>1 DEF NoRate
  <1>6. latest \in [rate : [Meters -> [moved : Moved, over : Nat]], busy : Nat, busyPercent : Percent]
    BY <1>4, <1>5 DEF Percent
  <1>7. ASSUME NEW m \in Meters, NEW f \in Fields
        PROVE  Since(m, f)
    <2>1. Units(m, f) \subseteq Devices \X {1}
      <3>1. SUFFICES ASSUME NEW u \in Units(m, f) PROVE u \in Devices \X {1}
        OBVIOUS
      <3>2. PICK e \in Lines(m) : \E k \in 1..count[e][f] : u = <<e, k>>
        BY UnitsAre
      <3>3. e \in Devices
        BY <1>2, <3>2 DEF Lines
      <3>4. \A k \in 1..count[e][f] : k = 1
        BY <1>2, <3>3
      <3>5. QED
        BY <3>2, <3>3, <3>4
    <2>2. IsFiniteSet({1}) /\ Cardinality({1}) = 1
      BY FS_Singleton
    <2>3. /\ IsFiniteSet(Devices \X {1}) /\ Cardinality(Devices \X {1}) = Cardinality(Devices) * 1
      BY <2>2, CountersAssumption, FS_Product
    <2>4. Cardinality(Devices) \in Nat
      BY CountersAssumption, FS_CardinalityType
    <2>5. IsFiniteSet(Units(m, f)) /\ Cardinality(Units(m, f)) <= Cardinality(Devices \X {1})
      BY <2>1, <2>3, FS_Subset
    <2>6. Cardinality(Units(m, f)) <= Bound(moves)
      <3>1. moves = 0 /\ Cardinality(Devices) * 1 = Cardinality(Devices) * (1 + 0)
        BY DEF Init
      <3>2. QED
        BY <2>3, <2>5, <3>1 DEF Bound
    <2>7. ~prev[m].initialized
      BY DEF Init
    <2>8. QED
      BY <2>5, <2>6, <2>7 DEF Since
  <1>8. RateTrue
    BY DEF Init, RateTrue, NoRate, Nothing
  <1>9. QED
    BY <1>2, <1>3, <1>6, <1>7, <1>8 DEF RateInv

\* What is published of the disks and the network, for every machine.
THEOREM CountersRates == Spec => []RateInv
  <1>1. CpuInv' /\ RateInv /\ [Next]_vars => RateInv'
    BY SampleRates, TransferRates, PlugRates, TimeRates DEF Next
  <1>2. QED
    BY <1>1, InitRates, CountersInvariant, PTL DEF Spec

\* Nothing published has a block of a disk twice, a packet more often than it
\* passed an interface, or what moved before the last reading of the file, and
\* nothing is divided by a window that is too short (read_diskstats_totals,
\* read_net_dev_totals, getDiskMetrics, sample_once).
THEOREM CountersRateTrue == Spec => []RateTrue
  <1>1. RateInv => RateTrue
    BY DEF RateInv
  <1>2. QED
    BY <1>1, CountersRates, PTL

\* Every number of a sample is a number: what the agent publishes and keeps never
\* leaves its range.
THEOREM CountersTypeCorrect == Spec => []TypeOK
  <1>1. CpuInv /\ RateInv => TypeOK
    BY DEF CpuInv, RateInv, TypeOK, Moved
  <1>2. QED
    BY <1>1, CountersInvariant, CountersRates, PTL
=============================================================================
