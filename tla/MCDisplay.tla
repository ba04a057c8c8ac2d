----------------------------- MODULE MCDisplay ------------------------------
(* An instance of Display for TLC: three nodes, two of one name.           *)
EXTENDS Display

MCHostName == <<1, 2, 2>>

Ok(latency, load)    == [state |-> "OK", parsed |-> TRUE, latency |-> latency,
                         cpu |-> 8000, load |-> load]
Half(latency)        == [state |-> "OK", parsed |-> FALSE, latency |-> latency,
                         cpu |-> 8100, load |-> 200]
Failed(s, latency)   == [state |-> s, parsed |-> FALSE, latency |-> latency,
                         cpu |-> 0, load |-> 0]

\* Response times on both sides of a bucket's edge and in one bucket.
MCFetched == {Ok(5, 0), Ok(9, 150), Ok(12, 0), Ok(12, 200), Ok(19, 0),
              Half(9), Failed("CONNECT_ERROR", 0), Failed("TIMEOUT", 12),
              Failed("DNS_ERROR", 12), Failed("HTTP_ERROR", 5), Failed("IO_ERROR", 12)}

Filter(f, o, v) == [field |-> f, op |-> o, value |-> v]
StateFilters == {Filter("state", "=", "OK"), Filter("state", "!=", "OK"),
                 Filter("state", "==", "OK"), Filter("state", ">", "OK"), Filter("state", "=", "TIMEOUT")}
MCExprs == {Filter("load", "<", 200), Filter("load", "=", 151), Filter("cpu", ">=", 8000),
            Filter("resp", "<=", 900), Filter("resp", "=>", 900)} \cup StateFilters
=============================================================================
