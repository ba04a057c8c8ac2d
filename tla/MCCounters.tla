----------------------------- MODULE MCCounters -----------------------------
(* Instances of Counters for TLC: machines with few devices.               *)
EXTENDS Counters

Dev(id, meter, family, digit, p, of) ==
    [id |-> id, meter |-> meter, family |-> family, digit |-> digit, p |-> p, of |-> of]

sdb       == Dev("sdb", "disk", "sd", FALSE, FALSE, NoDevice)
nvme0n1   == Dev("nvme0n1", "disk", "nvme", TRUE, FALSE, NoDevice)
nvme0n1p1 == Dev("nvme0n1p1", "disk", "nvme", TRUE, TRUE, "nvme0n1")
dm0       == Dev("dm-0", "disk", "dm", TRUE, FALSE, NoDevice)
lo        == Dev("lo", "net", "lo", FALSE, FALSE, NoDevice)
eth0      == Dev("eth0", "net", "eth", TRUE, FALSE, NoDevice)
vlan      == Dev("eth0.5", "net", "eth", TRUE, FALSE, NoDevice)

\* Whole disks named both ways, one of them plugged in later, a partition, a
\* volume mapped on it, the loopback device, an interface and a VLAN on it.
Machine == {nvme0n1, nvme0n1p1, sdb, dm0, lo, eth0, vlan}
Ways == {{nvme0n1, nvme0n1p1}, {dm0, nvme0n1p1, nvme0n1}, {sdb}, {lo}, {vlan, eth0}}
Usb     == {sdb}
=============================================================================
