--------------------------- MODULE DisplayProofs ----------------------------
(***************************************************************************)
(* Theorems about Display, for any number of nodes, whatever they answer:  *)
(* the comparison functions given to qsort are total orders of the rows,   *)
(* and the footer, the health filters and --sort resp keep their promises. *)
(***************************************************************************)
EXTENDS Display, FiniteSetTheorems, SequenceTheorems, TLAPS

\* One row per node, once the answers are in: what the orders rest on.
RowsOK ==
    /\ sort_mode \in Modes \cap {"host", "resp", "state"}
    /\ statuses = <<>> \/ statuses \in [Nodes -> Status]
    /\ \A h \in DOMAIN statuses : statuses[h] \in Status /\ statuses[h].host = HostName[h]

-----------------------------------------------------------------------------
(* Lists of differences.                                                   *)

\* The value at the one place where a list has its first difference.
LEMMA FirstAt ==
    ASSUME NEW ds, NEW i \in DOMAIN ds, DOMAIN ds \subseteq Nat, ds[i] # 0,
           \A k \in 1..i - 1 : k \in DOMAIN ds /\ ds[k] = 0, 0 \notin DOMAIN ds
    PROVE  FirstDifference(ds) = ds[i]
  <1> DEFINE P(j) == j \in DOMAIN ds /\ ds[j] # 0 /\ \A k \in 1..j - 1 : ds[k] = 0
  <1>1. P(i)
    OBVIOUS
  <1>2. ASSUME NEW j, P(j)
        PROVE  j = i
    <2>1. i \in Nat /\ j \in Nat /\ i # 0 /\ j # 0
      BY <1>2
    <2>2. CASE j < i
      BY <1>2, <2>1, <2>2
    <2>3. CASE i < j
      BY <1>2, <2>1, <2>3
    <2>4. QED
      BY <2>1, <2>2, <2>3
  <1>3. (CHOOSE j \in DOMAIN ds : ds[j] # 0 /\ \A k \in 1..j - 1 : ds[k] = 0) = i
    BY <1>1, <1>2
  <1>4. QED
    BY <1>3 DEF FirstDifference

LEMMA FirstOf2 ==
    ASSUME NEW a \in Int, NEW b \in Int
    PROVE  FirstDifference(<<a, b>>) = IF a # 0 THEN a ELSE b
  <1> DEFINE ds == <<a, b>>
  <1>1. DOMAIN ds = 1..2 /\ ds[1] = a /\ ds[2] = b
    OBVIOUS
  <1> HIDE DEF ds
  <1>2. CASE a # 0
    BY <1>1, <1>2, FirstAt DEF ds
  <1>3. CASE a = 0 /\ b # 0
    <2>1. \A k \in 1..2 - 1 : k \in DOMAIN ds /\ ds[k] = 0
      BY <1>1, <1>3
    <2>2. FirstDifference(ds) = ds[2]
      BY <1>1, <1>3, <2>1, FirstAt
    <2>3. QED
      BY <1>1, <1>3, <2>2 DEF ds
  <1>4. CASE a = 0 /\ b = 0
    BY <1>1, <1>4 DEF FirstDifference, ds
  <1>5. QED
    BY <1>2, <1>3, <1>4

LEMMA FirstOf5 ==
    ASSUME NEW a \in Int, NEW b \in Int, NEW c \in Int, NEW d \in Int, NEW e \in Int
    PROVE  FirstDifference(<<a, b, c, d, e>>) =
             IF a # 0 THEN a ELSE IF b # 0 THEN b ELSE IF c # 0 THEN c ELSE IF d # 0 THEN d ELSE e
  <1> DEFINE ds == <<a, b, c, d, e>>
  <1>1. DOMAIN ds = 1..5 /\ ds[1] = a /\ ds[2] = b /\ ds[3] = c /\ ds[4] = d /\ ds[5] = e
    OBVIOUS
  <1> HIDE DEF ds
  <1>2. \A i \in 1..5 : ds[i] # 0 /\ (\A k \in 1..i - 1 : ds[k] = 0) => FirstDifference(ds) = ds[i]
    <2> TAKE i \in 1..5
    <2> HAVE ds[i] # 0 /\ (\A k \in 1..i - 1 : ds[k] = 0)
    <2>1. \A k \in 1..i - 1 : k \in DOMAIN ds
      BY <1>1
    <2>2. QED
      BY <1>1, <2>1, FirstAt
  <1>3. (\A i \in 1..5 : ds[i] = 0) => FirstDifference(ds) = 0
    BY <1>1 DEF FirstDifference
  <1>4. CASE a # 0
    BY <1>1, <1>2, <1>4 DEF ds
  <1>5. CASE a = 0 /\ b # 0
    BY <1>1, <1>2, <1>5 DEF ds
  <1>6. CASE a = 0 /\ b = 0 /\ c # 0
    BY <1>1, <1>2, <1>6 DEF ds
  <1>7. CASE a = 0 /\ b = 0 /\ c = 0 /\ d # 0
    BY <1>1, <1>2, <1>7 DEF ds
  <1>8. CASE a = 0 /\ b = 0 /\ c = 0 /\ d = 0 /\ e # 0
    BY <1>1, <1>2, <1>8 DEF ds
  <1>9. CASE a = 0 /\ b = 0 /\ c = 0 /\ d = 0 /\ e = 0
    BY <1>1, <1>3, <1>9 DEF ds
  <1>10. QED
    BY <1>4, <1>5, <1>6, <1>7, <1>8, <1>9

\* When the first difference is 0 there is none.
LEMMA AllZero ==
    ASSUME NEW a \in Int, NEW b \in Int, NEW c \in Int, NEW d \in Int, NEW e \in Int,
           FirstDifference(<<a, b, c, d, e>>) = 0
    PROVE  a = 0 /\ b = 0 /\ c = 0 /\ d = 0 /\ e = 0
  BY FirstOf5

-----------------------------------------------------------------------------
(* The comparison functions.                                               *)

\* What the differences of two rows are made of.
LEMMA RowFacts ==
    ASSUME NEW s \in Status
    PROVE  /\ s.host \in Int /\ s.latency \in Nat /\ s.load \in Int
           /\ unhealthy(s) \in {0, 1} /\ state_sort_rank(s) \in Int
           /\ s.latency \div 10 \in Int
  BY DEF Status, FetchState, unhealthy, state_sort_rank

LEMMA SameRank ==
    ASSUME NEW s \in Status, NEW t \in Status, state_sort_rank(s) = state_sort_rank(t)
    PROVE  s.state = t.state
  BY DEF Status, FetchState, state_sort_rank

\* --sort host, unfolded
LEMMA ByHost ==
    ASSUME NEW s \in Status, NEW t \in Status
    PROVE  compare_status_by_host(s, t) =
             IF unhealthy(s) # unhealthy(t) THEN unhealthy(t) - unhealthy(s) ELSE s.host - t.host
  <1> DEFINE a == unhealthy(t) - unhealthy(s)
             b == s.host - t.host
  <1>1. a \in Int /\ b \in Int /\ (a # 0 <=> unhealthy(s) # unhealthy(t))
    BY RowFacts
  <1> HIDE DEF a, b
  <1>2. FirstDifference(<<a, b>>) = IF a # 0 THEN a ELSE b
    BY <1>1, FirstOf2
  <1>3. QED
    BY <1>1, <1>2 DEF compare_status_by_host, a, b

\* --sort resp, unfolded: a bucket is a range of latencies
LEMMA ByResp ==
    ASSUME NEW s \in Status, NEW t \in Status
    PROVE  compare_status_by_resp(s, t) =
             IF unhealthy(s) # unhealthy(t) THEN unhealthy(t) - unhealthy(s)
             ELSE IF s.latency \div 10 # t.latency \div 10
                  THEN s.latency \div 10 - t.latency \div 10
             ELSE IF s.latency # t.latency THEN s.latency - t.latency
             ELSE IF state_sort_rank(s) # state_sort_rank(t)
                  THEN state_sort_rank(s) - state_sort_rank(t)
             ELSE s.host - t.host
  <1> DEFINE a == unhealthy(t) - unhealthy(s)
             b == (s.latency \div 10) - (t.latency \div 10)
             c == s.latency - t.latency
             d == state_sort_rank(s) - state_sort_rank(t)
             e == s.host - t.host
  <1>1. /\ a \in Int /\ b \in Int /\ c \in Int /\ d \in Int /\ e \in Int
        /\ a # 0 <=> unhealthy(s) # unhealthy(t)
        /\ b # 0 <=> s.latency \div 10 # t.latency \div 10
        /\ c # 0 <=> s.latency # t.latency
        /\ d # 0 <=> state_sort_rank(s) # state_sort_rank(t)
    BY RowFacts
  <1>2. compare_status_by_resp(s, t) = FirstDifference(<<a, b, c, d, e>>)
    BY DEF compare_status_by_resp
  <1> HIDE DEF a, b, c, d, e
  <1>3. FirstDifference(<<a, b, c, d, e>>) =
          IF a # 0 THEN a ELSE IF b # 0 THEN b ELSE IF c # 0 THEN c ELSE IF d # 0 THEN d ELSE e
    BY <1>1, FirstOf5
  <1>4. QED
    BY <1>1, <1>2, <1>3 DEF a, b, c, d, e

\* --sort state, unfolded
LEMMA ByState ==
    ASSUME NEW s \in Status, NEW t \in Status
    PROVE  compare_status_by_state(s, t) =
             IF unhealthy(s) # unhealthy(t) THEN unhealthy(t) - unhealthy(s)
             ELSE IF unhealthy(s) = 0 /\ s.load # t.load THEN t.load - s.load
             ELSE IF state_sort_rank(s) # state_sort_rank(t)
                  THEN state_sort_rank(s) - state_sort_rank(t)
             ELSE IF s.latency # t.latency THEN t.latency - s.latency
             ELSE s.host - t.host
  <1> DEFINE a == unhealthy(t) - unhealthy(s)
             b == IF unhealthy(s) = 0 THEN t.load - s.load ELSE 0
             c == state_sort_rank(s) - state_sort_rank(t)
             d == t.latency - s.latency
             e == s.host - t.host
  <1>1. /\ a \in Int /\ b \in Int /\ c \in Int /\ d \in Int /\ e \in Int
        /\ a # 0 <=> unhealthy(s) # unhealthy(t)
        /\ b # 0 <=> unhealthy(s) = 0 /\ s.load # t.load
        /\ b # 0 => b = t.load - s.load
        /\ c # 0 <=> state_sort_rank(s) # state_sort_rank(t)
        /\ d # 0 <=> s.latency # t.latency
    BY RowFacts
  <1>2. compare_status_by_state(s, t) = FirstDifference(<<a, b, c, d, e>>)
    BY DEF compare_status_by_state
  <1> HIDE DEF b
  <1>3. FirstDifference(<<a, b, c, d, e>>) =
          IF a # 0 THEN a ELSE IF b # 0 THEN b ELSE IF c # 0 THEN c ELSE IF d # 0 THEN d ELSE e
    <2> HIDE DEF a, c, d, e
    <2>1. QED
      BY <1>1, FirstOf5
  <1>4. QED
    BY <1>1, <1>2, <1>3

\* Each function is antisymmetric and transitive, and 0 only on rows of one name,
\* which the two finer ones also find alike.
LEMMA TotalOrder ==
    ASSUME NEW s \in Status, NEW t \in Status, NEW u \in Status,
           sort_mode \in {"host", "resp", "state"}
    PROVE  /\ compare(s, t) > 0 <=> compare(t, s) < 0
           /\ compare(s, t) <= 0 /\ compare(t, u) <= 0 => compare(s, u) <= 0
           /\ compare(s, t) = 0 => s.host = t.host
           /\ compare(s, t) = 0 /\ sort_mode # "host" => s.state = t.state /\ s.latency = t.latency
  <1>1. \A r \in {s, t, u} :
          /\ r \in Status /\ r.host \in Int /\ r.latency \in Nat /\ r.load \in Int
          /\ unhealthy(r) \in {0, 1} /\ state_sort_rank(r) \in Int
          /\ r.latency \div 10 \in Int
    BY RowFacts
  <1>1a. state_sort_rank(s) = state_sort_rank(t) => s.state = t.state
    BY SameRank
  <1>2. CASE sort_mode = "host"
    <2>1. \A x, y \in {s, t, u} : compare(x, y) =
             IF unhealthy(x) # unhealthy(y) THEN unhealthy(y) - unhealthy(x) ELSE x.host - y.host
      BY <1>1, <1>2, ByHost DEF compare
    <2>2. /\ compare(s, t) > 0 <=> compare(t, s) < 0
          /\ compare(s, t) <= 0 /\ compare(t, u) <= 0 => compare(s, u) <= 0
          /\ compare(s, t) = 0 => s.host = t.host
      BY <1>1, <2>1
    <2>3. QED
      BY <1>2, <2>2
  <1>3. CASE sort_mode = "resp"
    <2>1. \A x, y \in {s, t, u} : compare(x, y) = compare_status_by_resp(x, y)
      BY <1>3 DEF compare
    <2>2. \A x, y \in {s, t, u} : compare(x, y) =
             IF unhealthy(x) # unhealthy(y) THEN unhealthy(y) - unhealthy(x)
             ELSE IF x.latency \div 10 # y.latency \div 10
                  THEN x.latency \div 10 - y.latency \div 10
             ELSE IF x.latency # y.latency THEN x.latency - y.latency
             ELSE IF state_sort_rank(x) # state_sort_rank(y)
                  THEN state_sort_rank(x) - state_sort_rank(y)
             ELSE x.host - y.host
      BY <1>1, <2>1, ByResp
    <2>3. /\ compare(s, t) > 0 <=> compare(t, s) < 0
          /\ compare(s, t) <= 0 /\ compare(t, u) <= 0 => compare(s, u) <= 0
          /\ compare(s, t) = 0 => s.host = t.host
      BY <1>1, <2>2
    <2>4. compare(s, t) = 0 => s.latency = t.latency /\ state_sort_rank(s) = state_sort_rank(t)
      <3>1. /\ unhealthy(s) \in Int /\ unhealthy(t) \in Int
            /\ s.latency \in Int /\ t.latency \in Int
            /\ s.latency \div 10 \in Int /\ t.latency \div 10 \in Int
            /\ s.load \in Int /\ t.load \in Int
            /\ state_sort_rank(s) \in Int /\ state_sort_rank(t) \in Int
        BY <1>1
      <3>2. ASSUME compare(s, t) = 0
            PROVE  s.latency = t.latency /\ state_sort_rank(s) = state_sort_rank(t)
        <4> DEFINE a == unhealthy(t) - unhealthy(s)
                   b == (s.latency \div 10) - (t.latency \div 10)
                   c == s.latency - t.latency
                   d == state_sort_rank(s) - state_sort_rank(t)
                   e == s.host - t.host
        <4>1. FirstDifference(<<a, b, c, d, e>>) = 0
          BY <2>1, <3>2 DEF compare_status_by_resp
        <4>2. a \in Int /\ b \in Int /\ c \in Int /\ d \in Int /\ e \in Int
          BY <1>1
        <4> HIDE DEF a, b, c, d, e
        <4>3. c = 0 /\ d = 0
          BY <4>1, <4>2, AllZero
        <4>4. QED
          BY <3>1, <4>3 DEF c, d
      <3>3. QED
        BY <3>2
    <2>5. QED
      BY <1>1a, <2>3, <2>4
  <1>4. CASE sort_mode = "state"
    <2>1. \A x, y \in {s, t, u} : compare(x, y) = compare_status_by_state(x, y)
      BY <1>4 DEF compare
    <2>2. \A x, y \in {s, t, u} : compare(x, y) =
             IF unhealthy(x) # unhealthy(y) THEN unhealthy(y) - unhealthy(x)
             ELSE IF unhealthy(x) = 0 /\ x.load # y.load THEN y.load - x.load
             ELSE IF state_sort_rank(x) # state_sort_rank(y)
                  THEN state_sort_rank(x) - state_sort_rank(y)
             ELSE IF x.latency # y.latency THEN y.latency - x.latency
             ELSE x.host - y.host
      BY <1>1, <2>1, ByState
    <2>3. /\ compare(s, t) > 0 <=> compare(t, s) < 0
          /\ compare(s, t) <= 0 /\ compare(t, u) <= 0 => compare(s, u) <= 0
          /\ compare(s, t) = 0 => s.host = t.host
      BY <1>1, <2>2
    <2>4. compare(s, t) = 0 => s.latency = t.latency /\ state_sort_rank(s) = state_sort_rank(t)
      <3>1. /\ unhealthy(s) \in Int /\ unhealthy(t) \in Int
            /\ s.latency \in Int /\ t.latency \in Int
            /\ s.latency \div 10 \in Int /\ t.latency \div 10 \in Int
            /\ s.load \in Int /\ t.load \in Int
            /\ state_sort_rank(s) \in Int /\ state_sort_rank(t) \in Int
        BY <1>1
      <3>2. ASSUME compare(s, t) = 0
            PROVE  s.latency = t.latency /\ state_sort_rank(s) = state_sort_rank(t)
        <4> DEFINE a == unhealthy(t) - unhealthy(s)
                   b == IF unhealthy(s) = 0 THEN t.load - s.load ELSE 0
                   c == state_sort_rank(s) - state_sort_rank(t)
                   d == t.latency - s.latency
                   e == s.host - t.host
        <4>1. FirstDifference(<<a, b, c, d, e>>) = 0
          BY <2>1, <3>2 DEF compare_status_by_state
        <4>2. a \in Int /\ b \in Int /\ c \in Int /\ d \in Int /\ e \in Int
          BY <1>1
        <4> HIDE DEF a, b, c, d, e
        <4>3. c = 0 /\ d = 0
          BY <4>1, <4>2, AllZero
        <4>4. QED
          BY <3>1, <4>3 DEF c, d
      <3>3. QED
        BY <3>2
    <2>5. QED
      BY <1>1a, <2>3, <2>4
  <1>5. QED
    BY <1>2, <1>3, <1>4

-----------------------------------------------------------------------------
(* The specification.                                                      *)

\* The row of a node is a row, under its name.
LEMMA StatusFacts ==
    ASSUME NEW h \in Nodes, NEW r \in Fetched
    PROVE  /\ StatusOf(h, r) \in Status /\ StatusOf(h, r).host = HostName[h]
           /\ StatusOf(h, r).has_metrics <=> StatusOf(h, r).state = "OK"
  <1>1. /\ r.state \in FetchState /\ r.parsed \in BOOLEAN /\ r.latency \in Nat
        /\ r.cpu \in Int /\ r.load \in Int
    BY DisplayAssumption
  <1>2. (IF r.state = "OK" /\ ~r.parsed THEN "PARSE_ERROR" ELSE r.state) \in FetchState
    BY <1>1 DEF FetchState
  <1>3. (r.state = "OK" /\ r.parsed) \in BOOLEAN
    OBVIOUS
  <1>4. (r.state = "OK" /\ r.parsed) <=> (IF r.state = "OK" /\ ~r.parsed THEN "PARSE_ERROR" ELSE r.state) = "OK"
    BY <1>1
  <1>5. /\ StatusOf(h, r).has_metrics = (r.state = "OK" /\ r.parsed)
        /\ StatusOf(h, r).state = IF r.state = "OK" /\ ~r.parsed THEN "PARSE_ERROR" ELSE r.state
    BY DEF StatusOf
  <1>5a. HostName[h] \in Nat
    BY DisplayAssumption
  <1>6. StatusOf(h, r) \in Status /\ StatusOf(h, r).host = HostName[h]
    BY <1>1, <1>2, <1>3, <1>5a DEF StatusOf, Status
  <1>7. QED
    BY <1>4, <1>5, <1>6

LEMMA RowsStep ==
    ASSUME RowsOK, [Next]_vars
    PROVE  RowsOK'
  <1>1. CASE Query
    <2>1. PICK r \in [Nodes -> Fetched] : statuses' = [h \in Nodes |-> StatusOf(h, r[h])]
      BY <1>1 DEF Query
    <2>2. \A h \in Nodes : StatusOf(h, r[h]) \in Status /\ StatusOf(h, r[h]).host = HostName[h]
      BY StatusFacts
    <2>3. sort_mode' = sort_mode
      BY <1>1 DEF Query
    <2>4. QED
      BY <2>1, <2>2, <2>3 DEF RowsOK
  <1>2. CASE ~Query
    <2>1. UNCHANGED <<sort_mode, statuses>>
      BY <1>2 DEF Next, AddFilter, ApplyFilters, FilterNext, FilterEnd, Count, Sort, Done, vars
    <2>2. QED
      BY <2>1 DEF RowsOK
  <1>3. QED
    BY <1>1, <1>2

THEOREM DisplayRows == Spec => []RowsOK
  <1>1. Init => RowsOK
    BY DisplayAssumption DEF Init, RowsOK
  <1>2. RowsOK /\ [Next]_vars => RowsOK'
    BY RowsStep
  <1>3. QED
    BY <1>1, <1>2, PTL DEF Spec

\* Every comparison function is one that qsort is defined for, on any rows.
THEOREM DisplayOrderConsistent == Spec => []OrderConsistent
  <1>1. RowsOK => OrderConsistent
    BY TotalOrder DEF RowsOK, OrderConsistent
  <1>2. QED
    BY <1>1, DisplayRows, PTL

\* Rows that tie are of one name and, unless sorted by it, of one state and one
\* response time.
THEOREM DisplayTableDetermined == Spec => []TableDetermined
  <1>1. RowsOK => TableDetermined
    BY TotalOrder, Zenon DEF RowsOK, TableDetermined
  <1>2. QED
    BY <1>1, DisplayRows, PTL

-----------------------------------------------------------------------------
(* The table: what is on display passes the filters, is counted, is sorted. *)

\* The filters parse_filter can make
Filter == {Parsed(e) : e \in {x \in Exprs : Accepted(x)}}

FiltersOK ==
    /\ typed \in Seq(Exprs)
    /\ filters \in Seq(Filter)
    /\ Len(filters) = Len(typed) /\ Len(filters) <= MaxFilters
    /\ \A i \in DOMAIN filters : Accepted(typed[i]) /\ filters[i] = Parsed(typed[i])

\* A row that may be shown
Shown(s) ==
    /\ s \in Status
    /\ s.has_metrics <=> s.state = "OK"
    /\ MatchesAll(s)

Good == {i \in DOMAIN display : display[i].has_metrics}
Bad  == {i \in DOMAIN display : ~display[i].has_metrics}

DisplayInv ==
    /\ RowsOK
    /\ FiltersOK
    /\ pc \in {"args", "filter", "count", "sort", "print", "usage"}
    /\ pc \in {"args", "usage"} => statuses = <<>>
    /\ \A h \in DOMAIN statuses : statuses[h].has_metrics <=> statuses[h].state = "OK"
    /\ next \in 0..Len(statuses)
    /\ display \in Seq(Status)
    /\ Len(display) <= (IF pc = "filter" THEN next ELSE Len(statuses))
    /\ pc \in {"args", "usage"} => display = <<>>
    /\ \A i \in DOMAIN display : Shown(display[i])
    /\ IF pc \in {"sort", "print"}
       THEN ok_count = Cardinality(Good) /\ fail_count = Cardinality(Bad)
       ELSE ok_count = 0 /\ fail_count = 0
    /\ pc = "print" => \A i, j \in DOMAIN display : i < j => compare(display[i], display[j]) <= 0

\* What Append does, place by place
LEMMA Appended ==
    ASSUME NEW S, NEW q \in Seq(S), NEW x \in S
    PROVE  /\ Append(q, x) \in Seq(S)
           /\ Len(Append(q, x)) = Len(q) + 1 /\ Len(q) \in Nat
           /\ DOMAIN q = 1..Len(q) /\ DOMAIN Append(q, x) = 1..Len(q) + 1
           /\ \A i \in DOMAIN Append(q, x) :
                Append(q, x)[i] = IF i = Len(q) + 1 THEN x ELSE q[i]
           /\ \A i \in DOMAIN Append(q, x) : i # Len(q) + 1 => i \in DOMAIN q
  OBVIOUS

LEMMA SeqDomain ==
    ASSUME NEW S, NEW q \in Seq(S)
    PROVE  Len(q) \in Nat /\ DOMAIN q = 1..Len(q) /\ \A i \in DOMAIN q : q[i] \in S
  OBVIOUS

LEMMA DisplayInit == Init => DisplayInv
  <1> SUFFICES ASSUME Init
               PROVE  DisplayInv
    OBVIOUS
  <1>1. RowsOK
    BY DisplayAssumption DEF Init, RowsOK
  <1>2. FiltersOK
    BY DisplayAssumption DEF Init, FiltersOK
  <1>3. statuses = <<>> /\ display = <<>> /\ next = 0 /\ pc = "args"
    BY DEF Init
  <1>4. QED
    BY <1>1, <1>2, <1>3 DEF Init, DisplayInv

LEMMA AddFilterStep ==
    ASSUME DisplayInv, AddFilter
    PROVE  DisplayInv'
  <1> USE DEF DisplayInv
  <1>1. pc = "args" /\ statuses = <<>> /\ display = <<>>
    BY DEF AddFilter
  <1>2. UNCHANGED <<sort_mode, statuses, next, display, ok_count, fail_count>>
    BY DEF AddFilter
  <1>3. RowsOK'
    BY <1>2 DEF RowsOK
  <1>4. FiltersOK' /\ pc' \in {"args", "usage"}
    <2>1. PICK e \in Exprs :
            IF Len(filters) < MaxFilters /\ Accepted(e)
            THEN /\ filters' = Append(filters, Parsed(e))
                 /\ typed' = Append(typed, e)
                 /\ UNCHANGED pc
            ELSE pc' = "usage" /\ UNCHANGED <<filters, typed>>
      BY DEF AddFilter
    <2>2. CASE Len(filters) < MaxFilters /\ Accepted(e)
      <3>1. Parsed(e) \in Filter
        BY <2>2 DEF Filter
      <3> DEFINE p == Parsed(e)
      <3>2. filters' = Append(filters, p) /\ typed' = Append(typed, e) /\ pc' = pc
        BY <2>1, <2>2
      <3>3. /\ filters \in Seq(Filter) /\ typed \in Seq(Exprs) /\ Len(filters) = Len(typed)
            /\ \A i \in DOMAIN filters : Accepted(typed[i]) /\ filters[i] = Parsed(typed[i])
        BY DEF FiltersOK
      <3>4. /\ filters' \in Seq(Filter) /\ Len(filters') = Len(filters) + 1
            /\ \A i \in DOMAIN filters' : filters'[i] = IF i = Len(filters) + 1 THEN p ELSE filters[i]
            /\ \A i \in DOMAIN filters' : i # Len(filters) + 1 => i \in DOMAIN filters
        <4> HIDE DEF p
        <4>1. QED
          BY <3>1, <3>2, <3>3, Appended DEF p
      <3>5. /\ typed' \in Seq(Exprs) /\ Len(typed') = Len(typed) + 1
            /\ \A i \in DOMAIN typed' : typed'[i] = IF i = Len(typed) + 1 THEN e ELSE typed[i]
        BY <3>2, <3>3, Appended
      <3>6. DOMAIN filters' = DOMAIN typed'
        BY <3>3, <3>4, <3>5, SeqDomain
      <3>7. \A i \in DOMAIN filters' : Accepted(typed'[i]) /\ filters'[i] = Parsed(typed'[i])
        BY <2>2, <3>3, <3>4, <3>5, <3>6
      <3>8. Len(filters') <= MaxFilters
        BY <2>2, <3>3, <3>4, DisplayAssumption, SeqDomain
      <3>9. Len(filters') = Len(typed')
        BY <3>3, <3>4, <3>5
      <3>10. QED
        BY <1>1, <3>2, <3>4, <3>5, <3>7, <3>8, <3>9 DEF FiltersOK, Accepted
    <2>3. CASE ~(Len(filters) < MaxFilters /\ Accepted(e))
      BY <2>1, <2>3 DEF FiltersOK, Accepted
    <2>4. QED
      BY <2>2, <2>3
  <1>5. QED
    BY <1>1, <1>2, <1>3, <1>4

LEMMA QueryStep ==
    ASSUME DisplayInv, Query
    PROVE  DisplayInv'
  <1> USE DEF DisplayInv
  <1>1. /\ pc = "args" /\ pc' = "filter" /\ display = <<>> /\ statuses = <<>> /\ next = 0
        /\ UNCHANGED <<sort_mode, typed, filters, next, display, ok_count, fail_count>>
    BY DEF Query
  <1>2. RowsOK'
    BY RowsStep DEF Next
  <1>3. FiltersOK'
    BY <1>1 DEF FiltersOK, Accepted
  <1>4. PICK r \in [Nodes -> Fetched] : statuses' = [h \in Nodes |-> StatusOf(h, r[h])]
    BY DEF Query
  <1>5. \A h \in DOMAIN statuses' : statuses'[h].has_metrics <=> statuses'[h].state = "OK"
    <2> TAKE h \in DOMAIN statuses'
    <2>1. h \in Nodes /\ statuses'[h] = StatusOf(h, r[h]) /\ r[h] \in Fetched
      BY <1>4
    <2>2. QED
      BY <2>1, StatusFacts
  <1>6. Len(statuses') \in Nat
    BY <1>4, DisplayAssumption DEF Nodes
  <1>7. QED
    BY <1>1, <1>2, <1>3, <1>5, <1>6

\* Rows and filters do not change from the loop of apply_filters on.
LEMMA SameFilters ==
    ASSUME DisplayInv, UNCHANGED <<sort_mode, typed, filters, statuses>>
    PROVE  /\ RowsOK' /\ FiltersOK'
           /\ \A h \in DOMAIN statuses' : statuses'[h].has_metrics <=> statuses'[h].state = "OK"
           /\ \A s : Shown(s)' <=> Shown(s)
  BY DEF DisplayInv, RowsOK, FiltersOK, Accepted, Shown, MatchesAll, eval_filter

LEMMA FilterStep ==
    ASSUME DisplayInv, ApplyFilters
    PROVE  DisplayInv'
  <1> USE DEF DisplayInv
  <1>1. pc = "filter" /\ UNCHANGED <<sort_mode, typed, filters, statuses, ok_count, fail_count>>
    BY DEF ApplyFilters, FilterNext, FilterEnd
  <1>2. /\ RowsOK' /\ FiltersOK' /\ \A s : Shown(s)' <=> Shown(s)
        /\ \A h \in DOMAIN statuses' : statuses'[h].has_metrics <=> statuses'[h].state = "OK"
    BY <1>1, SameFilters
  <1>3. CASE FilterEnd
    BY <1>1, <1>2, <1>3 DEF FilterEnd
  <1>4. CASE FilterNext
    <2>1. pc' = pc /\ next < Len(statuses) /\ next' = next + 1
      BY <1>4 DEF FilterNext
    <2>2. Len(statuses) \in Nat /\ DOMAIN statuses = 1..Len(statuses)
      BY DisplayAssumption DEF RowsOK, Nodes
    <2> DEFINE s == statuses[next + 1]
    <2>3. next + 1 \in DOMAIN statuses /\ s \in Status /\ (s.has_metrics <=> s.state = "OK")
      BY <2>1, <2>2 DEF RowsOK
    <2>4. next' \in 0..Len(statuses')
      BY <1>1, <2>1, <2>2
    <2>5. CASE ~MatchesAll(s)
      <3>1. display' = display
        BY <1>4, <2>5 DEF FilterNext
      <3>2. Len(display') <= next'
        BY <1>1, <2>1, <3>1, SeqDomain
      <3>3. QED
        BY <1>1, <1>2, <2>1, <2>4, <3>1, <3>2
    <2>6. CASE MatchesAll(s)
      <3>1. display' = Append(display, s)
        BY <1>4, <2>6 DEF FilterNext
      <3>2. Shown(s)
        BY <2>3, <2>6 DEF Shown
      <3> HIDE DEF s
      <3>3. /\ display' \in Seq(Status) /\ Len(display') = Len(display) + 1 /\ Len(display) \in Nat
            /\ \A i \in DOMAIN display' : display'[i] = IF i = Len(display) + 1 THEN s ELSE display[i]
            /\ \A i \in DOMAIN display' : i # Len(display) + 1 => i \in DOMAIN display
        BY <2>3, <3>1, Appended
      <3>4. \A i \in DOMAIN display' : Shown(display'[i])
        BY <3>2, <3>3
      <3>5. (\A i \in DOMAIN display : Shown(display[i]))'
        BY <1>1, <3>4 DEF Shown, MatchesAll
      <3>6. Len(display') <= next'
        BY <1>1, <2>1, <3>3
      <3>7. QED
        BY <1>1, <1>2, <2>1, <2>4, <3>3, <3>5, <3>6
    <2>7. QED
      BY <2>5, <2>6
  <1>5. QED
    BY <1>3, <1>4 DEF ApplyFilters

LEMMA CountStep ==
    ASSUME DisplayInv, Count
    PROVE  DisplayInv'
  <1> USE DEF DisplayInv
  <1>1. /\ pc = "count" /\ pc' = "sort"
        /\ UNCHANGED <<sort_mode, typed, filters, statuses, next, display>>
        /\ ok_count' = Cardinality(Good) /\ fail_count' = Cardinality(Bad)
    BY DEF Count, Good, Bad
  <1>2. Good' = Good /\ Bad' = Bad
    BY <1>1 DEF Good, Bad
  <1>3. /\ RowsOK' /\ FiltersOK' /\ \A s : Shown(s)' <=> Shown(s)
        /\ \A h \in DOMAIN statuses' : statuses'[h].has_metrics <=> statuses'[h].state = "OK"
    BY <1>1, SameFilters
  <1>4. QED
    BY <1>1, <1>2, <1>3

\* A permutation of the rows keeps as many with a property as there were.
LEMMA SameCount ==
    ASSUME NEW n \in Nat, NEW perm \in Bijection(1..n, 1..n),
           NEW A \in SUBSET (1..n), NEW B, B = {i \in 1..n : perm[i] \in A}
    PROVE  Cardinality(B) = Cardinality(A)
  <1> DEFINE f == [i \in B |-> perm[i]]
  <1>1. f \in Bijection(B, A)
    BY DEF Bijection, Injection, Surjection, IsInjective
  <1>2. IsFiniteSet(1..n)
    BY FS_Interval
  <1>3. IsFiniteSet(B)
    BY <1>2, FS_Subset
  <1>4. ExistsBijection(B, A)
    BY <1>1 DEF ExistsBijection
  <1>5. QED
    BY <1>3, <1>4, FS_Bijection

LEMMA SortStep ==
    ASSUME DisplayInv, Sort
    PROVE  DisplayInv'
  <1> USE DEF DisplayInv
  <1>1. /\ pc = "sort" /\ pc' = "print"
        /\ UNCHANGED <<sort_mode, typed, filters, statuses, next, ok_count, fail_count>>
    BY DEF Sort
  <1>2. PICK perm \in Bijection(DOMAIN display, DOMAIN display) :
          LET sorted == [i \in DOMAIN display |-> display[perm[i]]]
          IN  /\ \A i, j \in DOMAIN sorted : i < j => compare(sorted[i], sorted[j]) <= 0
              /\ display' = sorted
    BY DEF Sort
  <1>3. /\ display' = [i \in DOMAIN display |-> display[perm[i]]]
        /\ \A i, j \in DOMAIN display' : i < j => compare(display'[i], display'[j]) <= 0
    BY <1>2
  <1>4. (\A i, j \in DOMAIN display : i < j => compare(display[i], display[j]) <= 0)'
    BY <1>1, <1>3 DEF compare
  <1>5. Len(display) \in Nat /\ DOMAIN display = 1..Len(display)
    BY SeqDomain
  <1> DEFINE n == Len(display)
  <1>6. \A i \in 1..n : perm[i] \in 1..n
    BY <1>2, <1>5 DEF Bijection, Injection, Surjection
  <1>7. DOMAIN display' = 1..n /\ \A i \in 1..n : display'[i] = display[perm[i]]
    BY <1>3, <1>5
  <1>8. display' \in Seq(Status) /\ Len(display') = n
    <2>1. \A i \in 1..n : display[perm[i]] \in Status
      BY <1>5, <1>6, SeqDomain
    <2>2. display' \in [1..n -> Status]
      BY <1>3, <1>5, <2>1
    <2>3. QED
      BY <1>5, <1>7, <2>2
  <1>9. /\ RowsOK' /\ FiltersOK' /\ \A s : Shown(s)' <=> Shown(s)
        /\ \A h \in DOMAIN statuses' : statuses'[h].has_metrics <=> statuses'[h].state = "OK"
    BY <1>1, SameFilters
  <1>10. (\A i \in DOMAIN display : Shown(display[i]))'
    <2>1. \A i \in DOMAIN display' : Shown(display'[i])
      BY <1>5, <1>6, <1>7
    <2>2. QED
      BY <1>1, <2>1 DEF Shown, MatchesAll
  <1>11. Cardinality(Good') = Cardinality(Good) /\ Cardinality(Bad') = Cardinality(Bad)
    <2>1. Good' = {i \in 1..n : perm[i] \in Good} /\ Good \in SUBSET (1..n)
      BY <1>5, <1>6, <1>7 DEF Good
    <2>2. Bad' = {i \in 1..n : perm[i] \in Bad} /\ Bad \in SUBSET (1..n)
      BY <1>5, <1>6, <1>7 DEF Bad
    <2>3. perm \in Bijection(1..n, 1..n)
      BY <1>2, <1>5
    <2>4. QED
      BY <1>5, <2>1, <2>2, <2>3, SameCount
  <1>12. QED
    BY <1>1, <1>4, <1>8, <1>9, <1>10, <1>11

THEOREM DisplayInvariant == Spec => []DisplayInv
  <1>1. DisplayInv /\ [Next]_vars => DisplayInv'
    <2> SUFFICES ASSUME DisplayInv, [Next]_vars
                 PROVE  DisplayInv'
      OBVIOUS
    <2>1. CASE AddFilter
      BY <2>1, AddFilterStep
    <2>2. CASE Query
      BY <2>2, QueryStep
    <2>3. CASE ApplyFilters
      BY <2>3, FilterStep
    <2>4. CASE Count
      BY <2>4, CountStep
    <2>5. CASE Sort
      BY <2>5, SortStep
    <2>6. CASE UNCHANGED vars
      <3>1. Good' = Good /\ Bad' = Bad /\ \A s, t : compare(s, t)' = compare(s, t)
        BY <2>6 DEF vars, Good, Bad, compare
      <3>2. UNCHANGED <<pc, sort_mode, typed, filters, statuses, next, display, ok_count, fail_count>>
        BY <2>6 DEF vars
      <3>3. QED
        BY <3>1, <3>2, SameFilters DEF DisplayInv
    <2>7. QED
      BY <2>1, <2>2, <2>3, <2>4, <2>5, <2>6 DEF Next, Done
  <1>2. QED
    BY <1>1, DisplayInit, PTL DEF Spec

-----------------------------------------------------------------------------
(* What follows for the table as it is printed.                            *)

LEMMA UpTo ==
    ASSUME NEW n \in Nat
    PROVE  IsFiniteSet(1..n) /\ Cardinality(1..n) = n
  <1>1. 1 \in Int /\ n \in Int
    OBVIOUS
  <1>2. IsFiniteSet(1..n) /\ Cardinality(1..n) = IF 1 > n THEN 0 ELSE n - 1 + 1
    BY <1>1, FS_Interval
  <1>3. (IF 1 > n THEN 0 ELSE n - 1 + 1) = n
    OBVIOUS
  <1>4. QED
    BY <1>2, <1>3

\* Rows with and rows without numbers are all the rows.
LEMMA CountFacts ==
    ASSUME DisplayInv
    PROVE  /\ IsFiniteSet(Good) /\ IsFiniteSet(Bad)
           /\ Cardinality(Good) \in Nat /\ Cardinality(Bad) \in Nat
           /\ Cardinality(Good) + Cardinality(Bad) = Len(display)
  <1>1. Len(display) \in Nat /\ DOMAIN display = 1..Len(display)
    BY SeqDomain DEF DisplayInv
  <1>2. IsFiniteSet(1..Len(display)) /\ Cardinality(1..Len(display)) = Len(display)
    BY <1>1, UpTo
  <1>3. Good \in SUBSET (1..Len(display)) /\ Bad \in SUBSET (1..Len(display))
    BY <1>1 DEF Good, Bad
  <1>4. IsFiniteSet(Good) /\ IsFiniteSet(Bad)
    BY <1>2, <1>3, FS_Subset
  <1>5. Cardinality(Good) \in Nat /\ Cardinality(Bad) \in Nat
    BY <1>4, FS_CardinalityType
  <1>6. Good \cup Bad = 1..Len(display) /\ Good \cap Bad = {}
    BY <1>1 DEF Good, Bad
  <1>7. Cardinality(Good \cap Bad) = 0
    BY <1>6, FS_EmptySet
  <1>8. Cardinality(Good \cup Bad) = Cardinality(Good) + Cardinality(Bad) - Cardinality(Good \cap Bad)
    BY <1>4, FS_Union
  <1>9. Cardinality(Good \cup Bad) = Len(display)
    BY <1>2, <1>6
  <1>10. QED
    BY <1>4, <1>5, <1>7, <1>8, <1>9

\* The rows of failed nodes are the first ones, as many as there are.
LEMMA FailedOnTop ==
    ASSUME DisplayInv, pc = "print"
    PROVE  \A i \in DOMAIN display : display[i].has_metrics <=> i > Cardinality(Bad)
  <1>1. Len(display) \in Nat /\ DOMAIN display = 1..Len(display)
    BY SeqDomain DEF DisplayInv
  <1>2. \A i, j \in DOMAIN display : i < j /\ j \in Bad => i \in Bad
    <2> SUFFICES ASSUME NEW i \in DOMAIN display, NEW j \in DOMAIN display, i < j, j \in Bad
                 PROVE  i \in Bad
      OBVIOUS
    <2> DEFINE s == display[i]
               t == display[j]
    <2>1. s \in Status /\ t \in Status /\ (s.has_metrics <=> s.state = "OK") /\ t.state # "OK"
      BY DEF DisplayInv, Shown, Bad
    <2>2. compare(s, t) <= 0 /\ sort_mode \in {"host", "resp", "state"}
      BY DEF DisplayInv, RowsOK
    <2> HIDE DEF s, t
    <2>3. unhealthy(t) = 1
      BY <2>1 DEF unhealthy
    <2>4. unhealthy(s) # unhealthy(t) => compare(s, t) = unhealthy(t) - unhealthy(s)
      BY <2>1, <2>2, ByHost, ByResp, ByState DEF compare
    <2>5. unhealthy(s) = 1
      BY <2>1, <2>2, <2>3, <2>4, RowFacts
    <2>6. ~s.has_metrics
      BY <2>1, <2>5 DEF unhealthy
    <2>7. QED
      BY <2>6 DEF s, Bad
  <1>3. Bad \in SUBSET (1..Len(display)) /\ IsFiniteSet(Bad) /\ Cardinality(Bad) \in Nat
    BY <1>1, CountFacts DEF Bad
  <1>4. ASSUME NEW i \in DOMAIN display, i \in Bad
        PROVE  i <= Cardinality(Bad)
    <2>1. 1..i \in SUBSET Bad
      BY <1>1, <1>2, <1>4
    <2>2. Cardinality(1..i) <= Cardinality(Bad)
      BY <1>3, <2>1, FS_Subset
    <2>3. Cardinality(1..i) = i
      BY <1>1, UpTo
    <2>4. QED
      BY <2>2, <2>3
  <1>5. ASSUME NEW i \in DOMAIN display, i \notin Bad
        PROVE  Cardinality(Bad) < i
    <2>1. Bad \in SUBSET (1..i - 1)
      BY <1>1, <1>2, <1>3, <1>5
    <2>2. IsFiniteSet(1..i - 1) /\ Cardinality(1..i - 1) = i - 1
      <3>1. i - 1 \in Nat
        BY <1>1
      <3>2. QED
        BY <3>1, UpTo
    <2>3. Cardinality(Bad) <= i - 1
      BY <2>1, <2>2, FS_Subset
    <2>4. QED
      BY <1>1, <1>3, <2>3
  <1>6. \A i \in DOMAIN display : display[i].has_metrics <=> i \notin Bad
    BY DEF Bad
  <1>7. QED
    BY <1>1, <1>3, <1>4, <1>5, <1>6

\* Variables keep their types: no counter of rows or filters leaves its array.
THEOREM DisplayTypeCorrect == Spec => []TypeOK
  <1>1. DisplayInv => TypeOK
    <2> SUFFICES ASSUME DisplayInv
                 PROVE  TypeOK
      OBVIOUS
    <2> USE DEF DisplayInv
    <2>1. \A i \in DOMAIN filters : filters[i].op \in Operators \ {"=="}
      <3> TAKE i \in DOMAIN filters
      <3>1. Accepted(typed[i]) /\ filters[i] = Parsed(typed[i])
        BY DEF FiltersOK
      <3>2. QED
        BY <3>1 DEF Accepted, Parsed, Operators
    <2>2. statuses \in Seq(Status) /\ Len(statuses) \in Nat /\ Len(statuses) <= NodeCount
      <3>1. CASE statuses = <<>>
        <4>1. <<>> \in Seq(Status) /\ Len(<<>>) = 0
          OBVIOUS
        <4>2. QED
          BY <3>1, <4>1, DisplayAssumption
      <3>2. CASE statuses \in [Nodes -> Status]
        BY <3>2, DisplayAssumption DEF Nodes
      <3>3. QED
        BY <3>1, <3>2 DEF RowsOK
    <2>3. Len(display) \in Nat /\ Len(display) <= NodeCount
      <3>1. Len(display) \in Nat
        BY SeqDomain
      <3>2. QED
        BY <2>2, <3>1, DisplayAssumption
    <2>4. ok_count \in 0..NodeCount /\ fail_count \in 0..NodeCount
      BY <2>3, CountFacts, DisplayAssumption
    <2>5. Len(typed) = Len(filters) /\ Len(filters) <= MaxFilters /\ typed \in Seq(Exprs)
      BY DEF FiltersOK
    <2>6. QED
      BY <2>1, <2>2, <2>4, <2>5 DEF TypeOK, RowsOK
  <1>2. QED
    BY <1>1, DisplayInvariant, PTL

\* The footer counts the rows above it, and the failed ones are on top.
THEOREM DisplayFooterMatches == Spec => []FooterMatches
  <1>1. DisplayInv => FooterMatches
    BY CountFacts, FailedOnTop DEF FooterMatches, DisplayInv
  <1>2. QED
    BY <1>1, DisplayInvariant, PTL

\* A health filter leaves no row of the other kind.
THEOREM DisplayHealthFilters == Spec => []HealthFilters
  <1>1. DisplayInv => HealthFilters
    <2> SUFFICES ASSUME DisplayInv, pc = "print", NEW i \in DOMAIN typed,
                        typed[i].field = "state", typed[i].value = "OK"
                 PROVE  /\ typed[i].op \in {"=", "=="} => fail_count = 0
                        /\ typed[i].op = "!=" => ok_count = 0
      BY DEF HealthFilters
    <2>1. ok_count = Cardinality(Good) /\ fail_count = Cardinality(Bad)
      BY DEF DisplayInv
    <2>2. i \in DOMAIN filters /\ filters[i] = Parsed(typed[i])
      <3>1. typed \in Seq(Exprs) /\ filters \in Seq(Filter) /\ Len(filters) = Len(typed)
        BY DEF DisplayInv, FiltersOK
      <3>2. DOMAIN filters = DOMAIN typed
        BY <3>1, SeqDomain
      <3>3. QED
        BY <3>2 DEF DisplayInv, FiltersOK
    <2> DEFINE f == filters[i]
    <2>3. /\ f.field = "state" /\ f.value = "OK"
          /\ typed[i].op \in {"=", "=="} => f.op = "="
          /\ typed[i].op = "!=" => f.op = "!="
      BY <2>2 DEF Parsed, StateNames
    <2>4. \A k \in DOMAIN display :
            /\ display[k].has_metrics <=> display[k].state = "OK"
            /\ eval_filter(display[k], f)
      BY <2>2 DEF DisplayInv, Shown, MatchesAll
    <2> HIDE DEF f
    <2>5. CASE typed[i].op \in {"=", "=="}
      <3>1. Bad = {}
        BY <2>3, <2>4, <2>5 DEF eval_filter, Bad
      <3>2. QED
        BY <2>1, <2>5, <3>1, FS_EmptySet
    <2>6. CASE typed[i].op = "!="
      <3>1. Good = {}
        BY <2>3, <2>4, <2>6 DEF eval_filter, Good
      <3>2. QED
        BY <2>1, <2>6, <3>1, FS_EmptySet
    <2>7. QED
      BY <2>5, <2>6
  <1>2. QED
    BY <1>1, DisplayInvariant, PTL

\* Buckets first, then the time itself: that is the order of the times.
THEOREM DisplayRespIsByLatency == Spec => []RespIsByLatency
  <1>1. DisplayInv => RespIsByLatency
    <2> SUFFICES ASSUME DisplayInv, pc = "print", sort_mode = "resp",
                        NEW i \in DOMAIN display, NEW j \in DOMAIN display, i < j,
                        display[i].has_metrics, display[j].has_metrics
                 PROVE  display[i].latency <= display[j].latency
      BY DEF RespIsByLatency
    <2> DEFINE s == display[i]
               t == display[j]
    <2>1. s \in Status /\ t \in Status /\ s.state = "OK" /\ t.state = "OK"
      BY DEF DisplayInv, Shown
    <2>2. compare(s, t) <= 0 /\ compare(s, t) = compare_status_by_resp(s, t)
      BY DEF DisplayInv, compare
    <2> HIDE DEF s, t
    <2>3. unhealthy(s) = unhealthy(t) /\ state_sort_rank(s) = state_sort_rank(t)
      BY <2>1 DEF unhealthy, state_sort_rank
    <2>4. compare(s, t) = IF s.latency \div 10 # t.latency \div 10
                          THEN s.latency \div 10 - t.latency \div 10
                          ELSE IF s.latency # t.latency THEN s.latency - t.latency
                          ELSE s.host - t.host
      BY <2>1, <2>2, <2>3, ByResp
    <2>5. s.latency \in Nat /\ t.latency \in Nat
      BY <2>1, RowFacts
    <2>6. s.latency <= t.latency
      BY <2>2, <2>4, <2>5
    <2>7. QED
      BY <2>6 DEF s, t
  <1>2. QED
    BY <1>1, DisplayInvariant, PTL
=============================================================================
