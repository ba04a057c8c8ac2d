------------------------------ MODULE Display -------------------------------
(***************************************************************************)
(* What `nodectl` makes of the answers of one refresh: the second half of  *)
(* query_node, then render_status_table after its joins (cli.c): filters   *)
(* (parse_filter, eval_filter, apply_filters), the counts of the footer,   *)
(* and qsort with one of three comparison functions.                       *)
(*                                                                         *)
(* The names shown, host:port, are numbers in strcmp order; two nodes have *)
(* one name when the inventory lists a host twice, or two hosts that are   *)
(* the same once cut to fit the row.  Measured values are in hundredths,   *)
(* the tolerance of the filters' `=`.  cpu stands for cpu, mem and disk,   *)
(* which no code distinguishes.                                            *)
(***************************************************************************)
EXTENDS Integers, Sequences, FiniteSets, Functions

CONSTANTS
    NodeCount,  \* nodes of the inventory
    HostName,   \* the name each is shown under
    Fetched,    \* what fetch and parse may yield: [state, parsed, latency, cpu, load]
    Exprs,      \* filter expressions the user may type: [field, op, value]
    MaxFilters, \* MAX_FILTERS
    Modes       \* sort modes the user may ask for

FetchState == {"OK", "TIMEOUT", "DNS_ERROR", "CONNECT_ERROR",
               "HTTP_ERROR", "PARSE_ERROR", "IO_ERROR"}
Nodes == 1..NodeCount

\* parsed: the four numbers were found in an answer of state OK
ASSUME DisplayAssumption ==
    /\ NodeCount \in Nat
    /\ HostName \in [Nodes -> Nat]
    /\ Fetched \subseteq [state : FetchState, parsed : BOOLEAN, latency : Nat, cpu : Int, load : Int]
    /\ MaxFilters \in Nat
    /\ Modes \subseteq {"host", "resp", "state"}

VARIABLES
    pc,         \* "args", "filter", "count", "sort", "print"; "usage" when main gave up
    sort_mode,
    filters,
    typed,      \* history: the expressions the filters were parsed from
    statuses,   \* NodeStatus of each node
    next,       \* rows apply_filters has looked at
    display,    \* display_statuses
    ok_count, fail_count

vars == <<pc, sort_mode, typed, filters, statuses, next, display, ok_count, fail_count>>

Init ==
    /\ pc = "args"
    /\ sort_mode \in Modes
    /\ filters = <<>>
    /\ typed = <<>>
    /\ statuses = <<>>
    /\ next = 0
    /\ display = <<>>
    /\ ok_count = 0
    /\ fail_count = 0

-----------------------------------------------------------------------------
(* main: --filter                                                          *)

NumericFields == {"cpu", "load", "resp"}
Operators     == {"=", "==", "!=", ">", "<", ">=", "<="}

\* The state names parse_filter knows, and what they stand for
StateNames == [OK |-> "OK", CONNECT_ERR |-> "CONNECT_ERROR", DNS_ERR |-> "DNS_ERROR",
               HTTP_ERR |-> "HTTP_ERROR", PARSE_ERR |-> "PARSE_ERROR", IO_ERR |-> "IO_ERROR"]

\* parse_filter returns 0.  Any operator may follow any field.
Accepted(e) ==
    /\ e.op \in Operators
    /\ \/ e.field = "state" /\ e.value \in DOMAIN StateNames
       \/ e.field \in NumericFields /\ e.value \in Int

\* Mutant: `=` is taken for its negation.
ParsedNegated(e) ==
    [field |-> e.field,
     op    |-> IF e.op = "=" THEN "!=" ELSE e.op,
     value |-> IF e.field = "state" THEN StateNames[e.value] ELSE e.value]

\* Mutant: == is not made =.
ParsedAsTyped(e) ==
    [field |-> e.field, op |-> e.op,
     value |-> IF e.field = "state" THEN StateNames[e.value] ELSE e.value]

\* The filter parse_filter stores
Parsed(e) ==
    [field |-> e.field,
     op    |-> IF e.op = "==" THEN "=" ELSE e.op,
     value |-> IF e.field = "state" THEN StateNames[e.value] ELSE e.value]

AddFilter ==
    /\ pc = "args"
    /\ \E e \in Exprs :
         IF Len(filters) < MaxFilters /\ Accepted(e)
         THEN /\ filters' = Append(filters, Parsed(e))
              /\ typed' = Append(typed, e)
              /\ UNCHANGED pc
         ELSE pc' = "usage" /\ UNCHANGED <<filters, typed>>
    /\ UNCHANGED <<sort_mode, statuses, next, display, ok_count, fail_count>>

-----------------------------------------------------------------------------
(* query_node                                                              *)

\* Mutant: an answer that cannot be parsed keeps its state OK.
StatusOfUnparsed(h, r) ==
    [host |-> HostName[h], latency |-> r.latency, state |-> r.state,
     has_metrics |-> r.state = "OK" /\ r.parsed,
     cpu  |-> IF r.state = "OK" THEN r.cpu ELSE 0,
     load |-> IF r.state = "OK" THEN r.load ELSE 0]

\* The NodeStatus of node h.  parseJsonMetrics stores the numbers it finds even
\* when it then misses one.
StatusOf(h, r) ==
    [host |-> HostName[h], latency |-> r.latency,
     state |-> IF r.state = "OK" /\ ~r.parsed THEN "PARSE_ERROR" ELSE r.state,
     has_metrics |-> r.state = "OK" /\ r.parsed,
     cpu  |-> IF r.state = "OK" THEN r.cpu ELSE 0,
     load |-> IF r.state = "OK" THEN r.load ELSE 0]

Query ==
    /\ pc = "args"
    /\ \E r \in [Nodes -> Fetched] : statuses' = [h \in Nodes |-> StatusOf(h, r[h])]
    /\ pc' = "filter"
    /\ UNCHANGED <<sort_mode, typed, filters, next, display, ok_count, fail_count>>

-----------------------------------------------------------------------------
(* eval_filter, apply_filters                                              *)

node_value(s, field) == CASE field = "cpu"  -> s.cpu
                          [] field = "load" -> s.load
                          [] field = "resp" -> 100 * s.latency

Compare(v, op, x) == CASE op = "="  -> v >= x - 1 /\ v <= x + 1
                       [] op = "!=" -> v < x - 1 \/ v > x + 1
                       [] op = ">"  -> v > x
                       [] op = "<"  -> v < x
                       [] op = ">=" -> v >= x
                       [] op = "<=" -> v <= x

eval_filter(s, f) ==
    IF f.field = "state"
    THEN (f.op = "=" /\ s.state = f.value) \/ (f.op = "!=" /\ s.state # f.value)
    ELSE Compare(node_value(s, f.field), f.op, f.value)

MatchesAll(s) == \A i \in DOMAIN filters : eval_filter(s, filters[i])

FilterNext ==
    /\ pc = "filter" /\ next < Len(statuses)
    /\ next' = next + 1
    /\ display' = IF MatchesAll(statuses[next + 1])
                  THEN Append(display, statuses[next + 1]) ELSE display
    /\ UNCHANGED <<pc, sort_mode, typed, filters, statuses, ok_count, fail_count>>

FilterEnd ==
    /\ pc = "filter" /\ next = Len(statuses)
    /\ pc' = "count"
    /\ next' = 0
    /\ UNCHANGED <<sort_mode, typed, filters, statuses, display, ok_count, fail_count>>

ApplyFilters == FilterNext \/ FilterEnd

Count ==
    /\ pc = "count"
    /\ ok_count' = Cardinality({i \in DOMAIN display : display[i].has_metrics})
    /\ fail_count' = Cardinality({i \in DOMAIN display : ~display[i].has_metrics})
    /\ pc' = "sort"
    /\ UNCHANGED <<sort_mode, typed, filters, statuses, next, display>>

-----------------------------------------------------------------------------
(* sort_statuses.  A comparison function is the list of differences it     *)
(* tries in turn between two rows; the first that is not 0 is returned.    *)

FirstDifference(ds) ==
    IF \E i \in DOMAIN ds : ds[i] # 0
    THEN LET i == CHOOSE j \in DOMAIN ds : ds[j] # 0 /\ \A k \in 1..j - 1 : ds[k] = 0 IN ds[i]
    ELSE 0

unhealthy(s) == IF s.state = "OK" THEN 0 ELSE 1

state_sort_rank(s) == CASE s.state = "OK" -> 0
                        [] s.state = "PARSE_ERROR" -> 1
                        [] s.state = "HTTP_ERROR" -> 2
                        [] s.state = "TIMEOUT" -> 3
                        [] s.state = "DNS_ERROR" -> 4
                        [] s.state = "CONNECT_ERROR" -> 5
                        [] s.state = "IO_ERROR" -> 6

compare_status_by_host(s, t) ==
    FirstDifference(<<unhealthy(t) - unhealthy(s), s.host - t.host>>)

\* Mutant: less than ten milliseconds apart counts as equal.
compare_status_by_resp_fuzzy(s, t) ==
    LET near == s.latency - t.latency \in -9..9
    IN  FirstDifference(<<unhealthy(t) - unhealthy(s),
                          IF near THEN 0 ELSE s.latency - t.latency,
                          s.host - t.host>>)

\* Mutant: the slower first inside a bucket, as compare_status_by_state has it.
compare_status_by_resp_slower(s, t) ==
    FirstDifference(<<unhealthy(t) - unhealthy(s),
                      (s.latency \div 10) - (t.latency \div 10),
                      t.latency - s.latency,
                      s.host - t.host>>)

compare_status_by_resp(s, t) ==
    FirstDifference(<<unhealthy(t) - unhealthy(s),
                      (s.latency \div 10) - (t.latency \div 10),
                      s.latency - t.latency,
                      state_sort_rank(s) - state_sort_rank(t),
                      s.host - t.host>>)

\* Mutant: no last word on rows that are otherwise equal.
compare_status_by_state_tie(s, t) ==
    FirstDifference(<<unhealthy(t) - unhealthy(s),
                      IF unhealthy(s) = 0 THEN t.load - s.load ELSE 0,
                      state_sort_rank(s) - state_sort_rank(t),
                      t.latency - s.latency>>)

\* Load only counts between healthy nodes; inside a state the slower comes first
compare_status_by_state(s, t) ==
    FirstDifference(<<unhealthy(t) - unhealthy(s),
                      IF unhealthy(s) = 0 THEN t.load - s.load ELSE 0,
                      state_sort_rank(s) - state_sort_rank(t),
                      t.latency - s.latency,
                      s.host - t.host>>)

compare(s, t) == CASE sort_mode = "resp"  -> compare_status_by_resp(s, t)
                   [] sort_mode = "state" -> compare_status_by_state(s, t)
                   [] sort_mode = "host"  -> compare_status_by_host(s, t)

\* qsort: some order of the rows in which none comes before an earlier one
Sort ==
    /\ pc = "sort"
    /\ \E perm \in Bijection(DOMAIN display, DOMAIN display) :
         LET sorted == [i \in DOMAIN display |-> display[perm[i]]]
         IN  /\ \A i, j \in DOMAIN sorted : i < j => compare(sorted[i], sorted[j]) <= 0
             /\ display' = sorted
    /\ pc' = "print"
    /\ UNCHANGED <<sort_mode, typed, filters, statuses, next, ok_count, fail_count>>

Done == pc \in {"print", "usage"} /\ UNCHANGED vars

Next == AddFilter \/ Query \/ ApplyFilters \/ Count \/ Sort \/ Done

Spec == Init /\ [][Next]_vars

-----------------------------------------------------------------------------
(* Properties.                                                             *)

Status == [host : Nat, latency : Nat, state : FetchState, has_metrics : BOOLEAN,
           cpu : Int, load : Int]

TypeOK ==
    /\ pc \in {"args", "filter", "count", "sort", "print", "usage"}
    /\ sort_mode \in Modes
    /\ typed \in Seq(Exprs)
    /\ Len(typed) = Len(filters) /\ Len(filters) <= MaxFilters
    /\ \A i \in DOMAIN filters : filters[i].op \in Operators \ {"=="}
    /\ statuses \in Seq(Status)
    /\ next \in 0..Len(statuses)
    /\ display \in Seq(Status)
    /\ ok_count \in 0..NodeCount
    /\ fail_count \in 0..NodeCount

\* qsort is only defined for a consistent order: each comparison function must
\* agree with itself on a pair taken either way round, and on any three rows.
OrderConsistent ==
    \A i, j \in DOMAIN statuses :
        LET s == statuses[i]  t == statuses[j]
        IN  /\ compare(s, t) > 0 <=> compare(t, s) < 0
            /\ \A k \in DOMAIN statuses :
                 LET u == statuses[k]
                 IN  /\ compare(s, t) <= 0 /\ compare(t, u) <= 0 => compare(s, u) <= 0

\* qsort is not stable: in watch mode rows that tie may change places by
\* themselves.  Only the entries of one name do, in --sort resp and --sort state
\* only such as show the same state and response time; where every name is
\* listed once the same answers give the same table (cli.c:139, 166, 190).
TableDetermined ==
    \A i, j \in DOMAIN statuses :
        LET s == statuses[i]  t == statuses[j]
        IN  compare(s, t) = 0 =>
                /\ HostName[i] = HostName[j]
                /\ sort_mode # "host" => s.state = t.state /\ s.latency = t.latency

\* --sort resp is by response time: the buckets of ten milliseconds it compares
\* first never put a slower healthy node before a faster one.
RespIsByLatency ==
    pc = "print" /\ sort_mode = "resp" =>
        \A i, j \in DOMAIN display :
            i < j /\ display[i].has_metrics /\ display[j].has_metrics =>
                display[i].latency <= display[j].latency

\* The footer speaks of the rows above it: there are ok + failed of them, and
\* in every sort mode the failed ones, N/A in every column, are on top.
FooterMatches ==
    pc = "print" =>
        /\ ok_count + fail_count = Len(display)
        /\ \A i \in DOMAIN display : display[i].has_metrics <=> i > fail_count

\* state=OK "Show only healthy nodes", state!=OK "Show only failed nodes"
\* (README.md:107-108), whatever other filters there are.
HealthFilters ==
    pc = "print" => \A i \in DOMAIN typed :
        typed[i].field = "state" /\ typed[i].value = "OK" =>
            /\ typed[i].op \in {"=", "=="} => fail_count = 0
            /\ typed[i].op = "!=" => ok_count = 0
=============================================================================
