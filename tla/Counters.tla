------------------------------ MODULE Counters ------------------------------
(***************************************************************************)
(* What a sample of the agent holds (sample_once and the functions it      *)
(* calls, metrics.c): the kernel's counters, which only mean something as  *)
(* differences between two readings, are turned into the busy percentage   *)
(* of the CPU and into disk and network rates.  Load and memory are copied *)
(* from the files and left out.                                            *)
(*                                                                         *)
(* sample_once is one step here: module Sampler shows that one thread at a *)
(* time is inside it.  Disk and network are two meters with the same code  *)
(* over different files; of the five CPU counters `user` stands for user,  *)
(* nice and system.  Percentages are integers, the time between samples is *)
(* counted in ticks, one clock tick of the CPU counters each.              *)
(***************************************************************************)
EXTENDS Integers, FiniteSets

CONSTANTS
    Devices,    \* lines of /proc/diskstats and /proc/net/dev
    Routes,     \* sets of devices that count one and the same transfer
    Removable,  \* those that come and go while the agent runs
    Fields,     \* counters of a line: sectors and operations, or bytes
    MinWindow,  \* MIN_DELTA_WINDOW_MS, in ticks
    ReadFails,  \* the files whose reading may fail, a subset of AllFiles
    Word,       \* 2^64: arithmetic on unsigned long long is modulo Word
    MaxTicks,   \* bound: ticks of the clock
    MaxMoves,   \* bound: transfers on all devices
    MaxDrops    \* bound: times the kernel takes iowait back

Meters   == {"disk", "net"}
AllFiles == Meters \cup {"cpu"}
DiskFamilies == {"sd", "vd", "xvd", "hd", "nvme", "mmcblk"}

\* A device name, by what the filters of metrics.c look at: its prefix, whether
\* it ends in a digit, whether a 'p' in it is followed by a digit.  `of` is the
\* disk that a partition is part of.
NoDevice == "none"

WholeDisk(d) == d.meter = "disk" /\ d.family \in DiskFamilies /\ d.of = NoDevice

ASSUME CountersAssumption ==
    /\ Removable \subseteq Devices
    /\ MinWindow \in Nat \ {0}
    /\ ReadFails \subseteq AllFiles
    /\ Word \in Nat \ {0}
    /\ MaxTicks \in Nat
    /\ MaxTicks + 3 < Word  \* no machine is up for 2^64 ticks
    /\ MaxMoves \in Nat
    /\ IsFiniteSet(Devices)
    /\ Cardinality(Devices) * (1 + MaxMoves) < Word  \* nor counts 2^64 transfers

\* The kernel names partition 1 of sda sda1, of nvme0n1 nvme0n1p1.
ASSUME NamingAssumption ==
    \A d \in Devices :
        /\ d.meter \in Meters
        /\ WholeDisk(d) /\ d.family \in {"nvme", "mmcblk"} => d.digit
        /\ d.family \in DiskFamilies /\ d.of # NoDevice =>
             \E e \in Devices : /\ WholeDisk(e) /\ e.id = d.of /\ e.family = d.family
                               /\ d.digit /\ d.p = e.digit

\* A block is moved on one disk, which counts it, and so may a partition of it
\* and any number of devices that are mapped there (dm-0, loop0, md0).  A packet
\* passes any interfaces: a bridge, a bond, a VLAN and what they are on.
ASSUME RouteAssumption ==
    \A r \in Routes :
        /\ r \subseteq Devices
        /\ \A d, e \in r : d.meter = e.meter /\ (WholeDisk(d) /\ WholeDisk(e) => d = e)

VARIABLES
    count,      \* count[d]: the kernel's counters of device d
    present,    \* the devices there are
    cpu,        \* the kernel's CPU counters
    elapsed,    \* ticks since the last sample
    sampled,    \* last_sample_ms # 0
    cpu_prev,   \* cpu_prev_initialized and cpu_prev
    cpu_ema,
    prev,       \* prev[m]: disk_prev, net_prev
    latest,     \* latest_metrics
    window,     \* history: window[m]: what has moved since m was last read, a block
                \* on a disk once, a packet once for each interface it passed
    truth,      \* history: truth[m]: that window when latest's rates were made
    raw,        \* history: the last busy percentage computed, before it is clamped
    ticks, moves, drops \* bounds

agent   == <<elapsed, sampled, cpu_prev, cpu_ema, prev, latest, truth, raw>>
bounds  == <<ticks, moves, drops>>
vars    == <<count, present, cpu, agent, window, bounds>>

Nothing == [f \in Fields |-> 0]
NoRate  == [moved |-> Nothing, over |-> 0]
Boot    == [user |-> 1, idle |-> 1, iowait |-> 1]

\* The machine has been up for a while when the agent starts.
Init ==
    /\ count = [d \in Devices |-> [f \in Fields |-> IF d \in Removable THEN 0 ELSE 1]]
    /\ present = Devices \ Removable
    /\ cpu = Boot
    /\ elapsed = 0
    /\ sampled = FALSE
    /\ cpu_prev = [initialized |-> FALSE, at |-> [user |-> 0, idle |-> 0, iowait |-> 0]]
    /\ cpu_ema = [initialized |-> FALSE, value |-> 0]
    /\ prev = [m \in Meters |-> [initialized |-> FALSE, at |-> Nothing]]
    /\ latest = [rate |-> [m \in Meters |-> NoRate], busy |-> 0, busyPercent |-> 0]
    /\ window = [m \in Meters |-> Nothing]
    /\ truth = [m \in Meters |-> Nothing]
    /\ raw = 0
    /\ ticks = 0 /\ moves = 0 /\ drops = 0

\* a - b on unsigned long long
Minus(a, b) == (a - b) % Word

-----------------------------------------------------------------------------
(* The files.                                                              *)

is_partition_device(d) == IF d.family \in {"nvme", "mmcblk"} THEN d.p ELSE d.digit

is_supported_disk_device(d) == ~is_partition_device(d) /\ d.family \in DiskFamilies

\* The lines read_diskstats_totals and read_net_dev_totals add up
Counted(d) == IF d.meter = "disk" THEN is_supported_disk_device(d) ELSE d.family # "lo"

Lines(m) == {d \in present : d.meter = m /\ Counted(d)}

\* What the lines of file m add up to for counter f, unit by unit
Units(m, f) == UNION {{d} \X (1..count[d][f]) : d \in Lines(m)}

\* The totals of a file, modulo 2^64
Totals(m) == [f \in Fields |-> Cardinality(Units(m, f)) % Word]

-----------------------------------------------------------------------------
(* getDiskMetrics, getNetworkMetrics                                       *)

\* There is an earlier reading, and no counter is below it
Comparable(m) == prev[m].initialized /\ \A f \in Fields : Totals(m)[f] >= prev[m].at[f]

\* What is published as moved; zero when the file cannot be read
Delta(m, failed) ==
    IF m \in failed \/ ~Comparable(m) THEN Nothing
    ELSE [f \in Fields |-> Minus(Totals(m)[f], prev[m].at[f])]

\* Mutant: the reading of a short window is not stored.
NextPrevUnlessShort(m, failed) ==
    IF m \in failed \/ (sampled /\ elapsed < MinWindow) THEN prev[m]
    ELSE [initialized |-> TRUE, at |-> Totals(m)]

\* The reading is stored, whatever was made of it; a failed one leaves the old
NextPrev(m, failed) ==
    IF m \in failed THEN prev[m] ELSE [initialized |-> TRUE, at |-> Totals(m)]

-----------------------------------------------------------------------------
(* getCpuMetrics                                                           *)

\* Mutant: iowait is not compared, counters only go up.
CpuComparableSome ==
    cpu_prev.initialized /\ cpu.user >= cpu_prev.at.user /\ cpu.idle >= cpu_prev.at.idle

CpuComparable ==
    cpu_prev.initialized /\ \A s \in DOMAIN cpu : cpu[s] >= cpu_prev.at[s]

Total(c) == (c.user + c.idle + c.iowait) % Word
Busy(c)  == Minus(Minus(Total(c), c.idle), c.iowait)

delta_total == Minus(Total(cpu), Total(cpu_prev.at))
delta_busy  == Minus(Busy(cpu), Busy(cpu_prev.at))

Clamp(percent) == IF percent < 0 THEN 0 ELSE IF percent > 100 THEN 100 ELSE percent

\* Mutant: the weights add up to more than one.
EmaHeavy(percent) ==
    IF cpu_ema.initialized THEN (percent + 5 * cpu_ema.value) \div 5 ELSE percent

\* ema_update: alpha is 1/5
Ema(percent) ==
    IF cpu_ema.initialized THEN (percent + 4 * cpu_ema.value) \div 5 ELSE percent

\* Mutant: the first reading is not stored.
NextCpuPrevFirstLost(failed) ==
    IF "cpu" \in failed THEN cpu_prev
    ELSE [initialized |-> TRUE, at |-> IF cpu_prev.initialized THEN cpu ELSE cpu_prev.at]

NextCpuPrev(failed) ==
    IF "cpu" \in failed THEN cpu_prev ELSE [initialized |-> TRUE, at |-> cpu]

\* A percentage is computed: the file was read, it can be compared with the
\* last reading, and time has passed between the two
CpuMeasured(failed) == "cpu" \notin failed /\ CpuComparable /\ delta_total > 0

-----------------------------------------------------------------------------
(* sample_once                                                             *)

\* Too soon after the last sample: its rates and percentage are kept
Short == sampled /\ elapsed < MinWindow

NextRate(failed) ==
    CASE ~sampled -> [m \in Meters |-> NoRate]
      [] Short    -> latest.rate
      [] OTHER    -> [m \in Meters |-> [moved |-> Delta(m, failed), over |-> elapsed]]

Sample ==
    \E failed \in SUBSET ReadFails :
        LET share   == (100 * delta_busy) \div delta_total
            percent == Ema(Clamp(share))
        IN  /\ IF CpuMeasured(failed)
               THEN /\ raw' = share
                    /\ cpu_ema' = [initialized |-> TRUE, value |-> percent]
               ELSE UNCHANGED <<raw, cpu_ema>>
            /\ latest' =
                 [rate |-> NextRate(failed),
                  busy |-> IF Short THEN latest.busy
                           ELSE IF "cpu" \notin failed /\ CpuComparable THEN delta_busy ELSE 0,
                  busyPercent |-> IF Short THEN latest.busyPercent
                                  ELSE IF CpuMeasured(failed) THEN Clamp(percent) ELSE 0]
            /\ cpu_prev' = NextCpuPrev(failed)
            /\ prev' = [m \in Meters |-> NextPrev(m, failed)]
            /\ truth' = IF Short THEN truth ELSE window
            /\ window' = [m \in Meters |-> IF m \in failed THEN window[m] ELSE Nothing]
            /\ sampled' = TRUE
            /\ elapsed' = 0
            /\ UNCHANGED <<count, present, cpu, bounds>>

-----------------------------------------------------------------------------
(* The machine: external.                                                  *)

\* Time passes and is accounted to one state of the CPU
Tick ==
    /\ ticks < MaxTicks
    /\ \E s \in DOMAIN cpu : cpu' = [cpu EXCEPT ![s] = (@ + 1) % Word]
    /\ ticks' = ticks + 1
    /\ elapsed' = elapsed + 1
    /\ UNCHANGED <<count, present, sampled, cpu_prev, cpu_ema, prev, latest, truth, raw,
                   window, moves, drops>>

\* proc(5): iowait may decrease
IowaitDrops ==
    /\ drops < MaxDrops
    /\ cpu.iowait > 0
    /\ cpu' = [cpu EXCEPT !.iowait = @ - 1]
    /\ drops' = drops + 1
    /\ UNCHANGED <<count, present, agent, window, ticks, moves>>

RoutesOf(m) == {r \in Routes : \A d \in r : d.meter = m}

\* How often a transfer is to be reported; traffic that stays on the machine
\* is of no interest
Passed(r, m) == IF m = "disk" THEN 1 ELSE Cardinality({d \in r : d.family # "lo"})

\* A transfer is counted by every device on its way
Transfer ==
    /\ moves < MaxMoves
    /\ \E m \in Meters, f \in Fields : \E r \in RoutesOf(m) :
         /\ r \subseteq present
         /\ count' = [d \in Devices |->
                        IF d \in r THEN [count[d] EXCEPT ![f] = @ + 1] ELSE count[d]]
         /\ window' = [window EXCEPT ![m][f] = @ + Passed(r, m)]
    /\ moves' = moves + 1
    /\ UNCHANGED <<present, cpu, agent, ticks, drops>>

\* A device comes, its counters at zero, or goes with them
Plug ==
    /\ \E d \in Removable \ present : present' = present \cup {d}
    /\ UNCHANGED <<count, cpu, agent, window, bounds>>

Unplug ==
    /\ \E d \in Removable \cap present :
         /\ present' = present \ {d}
         /\ count' = [count EXCEPT ![d] = Nothing]
    /\ UNCHANGED <<cpu, agent, window, bounds>>

Next == Sample \/ Tick \/ IowaitDrops \/ Transfer \/ Plug \/ Unplug

Spec == Init /\ [][Next]_vars

-----------------------------------------------------------------------------
(* Properties.                                                             *)

Percent == 0..100
CpuCounters == [user : Nat, idle : Nat, iowait : Nat]

TypeOK ==
    /\ count \in [Devices -> [Fields -> Nat]]
    /\ present \subseteq Devices
    /\ cpu \in CpuCounters
    /\ elapsed \in Nat
    /\ sampled \in BOOLEAN
    /\ cpu_prev \in [initialized : BOOLEAN, at : CpuCounters]
    /\ cpu_ema \in [initialized : BOOLEAN, value : Percent]
    /\ prev \in [Meters -> [initialized : BOOLEAN, at : [Fields -> Nat]]]
    /\ latest \in [rate : [Meters -> [moved : [Fields -> Nat], over : Nat]],
                   busy : Nat, busyPercent : Percent]

\* What is published as moved never has a block of a disk twice, a packet more
\* often than it passed an interface other than lo (metrics.c:361 adds every
\* one, a VLAN beside its device), or anything from before the last reading of
\* the file, and it is never divided by a window too short to be one: with
\* counters that restart, devices that come and go, partitions listed beside
\* their disks, files that cannot be read and samples that come too soon
\* (read_diskstats_totals, getDiskMetrics, sample_once).  It does not say that
\* the quotient is the rate: after a failed reading what moved in two windows
\* is divided by the last one.
RateTrue ==
    \A m \in Meters :
        /\ latest.rate[m].over = 0 \/ latest.rate[m].over >= MinWindow
        /\ \A f \in Fields : latest.rate[m].moved[f] <= truth[m][f]

\* The busy share of a window is a percentage before it is clamped: counters
\* that went back are never compared (getCpuMetrics).
ShareIsPercent == raw \in Percent

\* CPU time is only reported busy when it was, and not what was busy before the
\* agent started.
BusyIsReal == latest.busyPercent > 0 \/ latest.busy > 0 => cpu.user > Boot.user
=============================================================================
