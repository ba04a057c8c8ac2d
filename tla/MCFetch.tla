------------------------------ MODULE MCFetch -------------------------------
(* Instances of Fetch for TLC: what may go wrong in each run.              *)
EXTENDS Fetch, TLC

\* Everything but a failing second name resolution.
Network   == AllFaults \ {"retry_dns"}
RetryDns  == {"retry_dns", "idle_close"}
PeerClose == {"peer_close"}

Symmetry == Permutations(Nodes)
=============================================================================
