--------------------------- MODULE NodectlProofs ----------------------------
(***************************************************************************)
(* Theorems about Nodectl, for any command line, any inventory files and   *)
(* any outcomes of the fetches: the options and the loader keep inside     *)
(* their arrays, a detail view says what it was asked, the loader reads    *)
(* documented files as they are meant, and the option loop understands the *)
(* command line as a whole.                                                *)
(***************************************************************************)
EXTENDS Nodectl, FiniteSetTheorems, TLAPS

-----------------------------------------------------------------------------
(* The inductive invariant.                                                *)

\* Nothing is loaded before the options are read, nothing fetched before the
\* nodes are loaded.
Phases ==
    /\ pc \in {"start", "options", "usage"} => stage = "closed" /\ nodes = <<>>
    /\ pc \notin {"render", "print"} => statuses = <<>>
    /\ pc # "print" => ok_count = 0 /\ fail_count = 0
    /\ stage = "closed" => at = 0

\* Only nodes of the group asked for are kept.
NodesWanted ==
    /\ current_group \in GroupName
    /\ group_filter # NULL => \A k \in DOMAIN nodes : nodes[k].group = group_filter

\* Row k is of node k, and has numbers only if there were any.
RowsTrue ==
    \A k \in DOMAIN statuses :
        /\ k \in DOMAIN nodes /\ statuses[k].node = nodes[k]
        /\ statuses[k].has_metrics =>
             /\ statuses[k].state = "OK"
             /\ statuses[k].body \notin {"none"} \cup (IF view_mode = "cpu" THEN {"part", "zero"} ELSE {})

FooterTrue ==
    /\ ok_count \in Nat /\ fail_count \in Nat
    /\ pc = "print" /\ view_mode # "default" => Len(statuses) = Len(nodes)
    /\ pc = "print" /\ view_mode \notin {"default", "debug"} =>
         ok_count = Cardinality(Counted) /\ fail_count = Len(statuses) - Cardinality(Counted)

NodectlInv == TypeOK /\ Phases /\ NodesWanted /\ RowsTrue /\ FooterTrue

LEMMA SeqFacts ==
    ASSUME NEW S, NEW q \in Seq(S)
    PROVE  Len(q) \in Nat /\ DOMAIN q = 1..Len(q) /\ \A k \in DOMAIN q : q[k] \in S
  OBVIOUS

LEMMA EmptySeq == \A S : <<>> \in Seq(S) /\ Len(<<>>) = 0 /\ DOMAIN <<>> = {}
  OBVIOUS

LEMMA Appended ==
    ASSUME NEW S, NEW q \in Seq(S), NEW x \in S
    PROVE  /\ Append(q, x) \in Seq(S)
           /\ Len(Append(q, x)) = Len(q) + 1 /\ Len(q) \in Nat
           /\ \A k \in DOMAIN Append(q, x) : Append(q, x)[k] = IF k = Len(q) + 1 THEN x ELSE q[k]
           /\ \A k \in DOMAIN Append(q, x) : k # Len(q) + 1 => k \in DOMAIN q
           /\ DOMAIN Append(q, x) = 1..Len(q) + 1 /\ DOMAIN q = 1..Len(q)
  OBVIOUS

LEMMA NodectlInit == Init => NodectlInv
  <1> SUFFICES ASSUME Init
               PROVE  NodectlInv
    OBVIOUS
  <1>1. argv \in Seq(STRING) /\ i \in 0..Len(argv) + 1
    <2>1. argv \in Seq(STRING) /\ i = 0
      BY NodectlAssumption DEF Init
    <2>2. QED
      BY <2>1, SeqFacts
  <1>2. nodes = <<>> /\ statuses = <<>> /\ stage = "closed" /\ pc = "start"
    BY DEF Init
  <1>3. ReaderTypeOK
    <2>1. file = <<>> /\ at = 0 /\ form = "yaml" /\ ~in_groups_section /\ ~in_hosts_list
          /\ in_groups_section \in BOOLEAN /\ in_hosts_list \in BOOLEAN
      BY DEF Init, Idle
    <2>2. at \in 0..Len(file) /\ nodes \in Seq(Node) /\ Len(nodes) <= MaxNodes
      BY <1>2, <2>1, EmptySeq, InventoryAssumption
    <2>3. QED
      BY <1>2, <2>1, <2>2 DEF ReaderTypeOK
  <1>4. TypeOK
    <2>1. statuses \in Seq(Status) /\ Len(statuses) = 0 /\ Len(nodes) = 0 /\ ok_count = 0 /\ fail_count = 0
      BY <1>2, EmptySeq DEF Init
    <2>2. /\ filter_count = 0 /\ watch_mode \in BOOLEAN /\ colors_enabled \in BOOLEAN
          /\ view_mode \in Views /\ sort_mode \in SortModes
      BY DEF Init, Views, SortModes
    <2>3. QED
      BY <1>1, <1>2, <1>3, <2>1, <2>2, NodectlAssumption DEF TypeOK
  <1>5. NodesWanted
    BY DEF Init, Idle, NodesWanted, GroupName
  <1>6. RowsTrue
    BY <1>2, EmptySeq DEF RowsTrue
  <1>7. Phases /\ FooterTrue
    BY <1>2 DEF Init, Idle, Phases, FooterTrue
  <1>8. QED
    BY <1>4, <1>5, <1>6, <1>7 DEF NodectlInv

-----------------------------------------------------------------------------
(* The options.                                                            *)

LEMMA OptionsStep ==
    ASSUME NodectlInv, ReadOptions
    PROVE  NodectlInv'
  <1> USE DEF NodectlInv
  <1>1. /\ pc \in {"start", "options"} /\ pc' \in {"options", "load", "usage"}
        /\ UNCHANGED <<loaded, view>>
    BY DEF ReadOptions, NoCommand, Command, SetView, NoColor, AddFilter, SetSort, SetGroup, Usage,
           OptionsEnd, Goto, At
  <1>2. /\ stage = "closed" /\ nodes = <<>> /\ statuses = <<>> /\ ok_count = 0 /\ fail_count = 0
        /\ UNCHANGED <<stage, form, file, at, in_groups_section, in_hosts_list, current_group, nodes,
                       statuses, ok_count, fail_count>>
    BY <1>1 DEF Phases, loaded, reader, view
  <1>3. argv \in Seq(STRING) /\ i \in 0..Len(argv) + 1 /\ Len(argv) \in Nat /\ DOMAIN argv = 1..Len(argv)
    BY SeqFacts DEF TypeOK
  <1>4. argv' \in Seq(STRING) /\ i' \in 0..Len(argv') + 1
    <2>1. CASE NoCommand
      BY <1>3, <2>1 DEF NoCommand, loop
    <2>2. CASE Command
      <3>1. argv # <<>> /\ argv' = argv /\ i' \in {i, 2}
        BY <2>2 DEF Command
      <3>2. Len(argv) # 0
        BY <1>3, <3>1
      <3>3. QED
        BY <1>3, <3>1, <3>2
    <2>3. CASE SetView \/ NoColor \/ SetGroup
      BY <1>3, <2>3 DEF SetView, NoColor, SetGroup, Goto, At
    <2>4. CASE AddFilter \/ SetSort
      BY <1>3, <2>4 DEF AddFilter, SetSort, Goto, At, FilterTaken, SortTaken
    <2>5. CASE Usage
      BY <1>3, <2>5 DEF Usage, loop
    <2>6. CASE OptionsEnd
      BY <2>6 DEF OptionsEnd
    <2>7. QED
      BY <2>1, <2>2, <2>3, <2>4, <2>5, <2>6 DEF ReadOptions
  <1>5. watch_mode' \in BOOLEAN /\ colors_enabled' \in BOOLEAN
    BY DEF TypeOK, ReadOptions, NoCommand, Command, SetView, NoColor, AddFilter, SetSort, SetGroup,
           Usage, OptionsEnd, Goto, options
  <1>6. view_mode' \in Views
    <2>1. CASE SetView
      BY <2>1 DEF SetView, At, ViewOptions, ViewOf, Views
    <2>2. CASE ~SetView
      BY <2>2 DEF TypeOK, ReadOptions, NoCommand, Command, NoColor, AddFilter, SetSort, SetGroup,
           Usage, OptionsEnd, options
    <2>3. QED
      BY <2>1, <2>2
  <1>7. sort_mode' \in SortModes
    <2>1. CASE SetSort
      BY <2>1 DEF SetSort, SortTaken
    <2>2. CASE ~SetSort
      BY <2>2 DEF TypeOK, ReadOptions, NoCommand, Command, SetView, NoColor, AddFilter, SetGroup,
           Usage, OptionsEnd, options
    <2>3. QED
      BY <2>1, <2>2
  <1>8. filter_count' \in 0..MaxFilters
    <2>1. CASE AddFilter
      <3>1. filter_count \in 0..MaxFilters
        BY DEF TypeOK
      <3>2. filter_count < MaxFilters /\ filter_count' = filter_count + 1
        BY <2>1 DEF AddFilter, FilterTaken
      <3>3. QED
        BY <3>1, <3>2, NodectlAssumption
    <2>2. CASE ~AddFilter
      BY <2>2 DEF TypeOK, ReadOptions, NoCommand, Command, SetView, NoColor, SetSort, SetGroup,
           Usage, OptionsEnd, options
    <2>3. QED
      BY <2>1, <2>2
  <1>9. ReaderTypeOK'
    BY <1>2 DEF TypeOK, ReaderTypeOK
  <1>10. TypeOK'
    BY <1>1, <1>2, <1>4, <1>5, <1>6, <1>7, <1>8, <1>9 DEF TypeOK
  <1>11. NodesWanted' /\ RowsTrue'
    BY <1>2 DEF NodesWanted, RowsTrue
  <1>12. Phases' /\ FooterTrue'
    BY <1>1, <1>2 DEF Phases, FooterTrue
  <1>13. QED
    BY <1>10, <1>11, <1>12

-----------------------------------------------------------------------------
(* The inventory.                                                          *)

\* A line of a file, and what Store may make of it.
LEMMA LineFacts ==
    ASSUME TypeOK, at < Len(file)
    PROVE  /\ at + 1 \in 1..Len(file) /\ Len(file) \in Nat
           /\ file[at + 1].name \in STRING /\ file[at + 1].entry \in Entry
  <1>0. at \in 0..Len(file)
    BY DEF TypeOK, ReaderTypeOK
  <1>1. CASE file = <<>>
    <2>1. Len(file) = 0
      BY <1>1, EmptySeq
    <2>2. QED
      BY <1>0, <2>1
  <1>2. CASE file # <<>>
    <2>1. PICK f \in Files : file = f.lines
      BY <1>2 DEF TypeOK, ReaderTypeOK
    <2>2. file \in Seq(Line)
      BY <2>1, InventoryAssumption
    <2>3. Len(file) \in Nat /\ DOMAIN file = 1..Len(file) /\ \A k \in DOMAIN file : file[k] \in Line
      BY <2>2, SeqFacts
    <2>4. at + 1 \in 1..Len(file)
      BY <1>0, <2>3
    <2>5. file[at + 1] \in Line
      BY <2>3, <2>4
    <2>6. QED
      BY <2>3, <2>4, <2>5 DEF Line
  <1>3. QED
    BY <1>1, <1>2

\* Storing an entry keeps the nodes typed and of the group asked for.
LEMMA StoreFacts ==
    ASSUME NEW e \in Entry, Store(e), nodes \in Seq(Node), NodesWanted, Len(nodes) < MaxNodes
    PROVE  /\ nodes' \in Seq(Node) /\ Len(nodes') <= MaxNodes
           /\ group_filter # NULL => \A k \in DOMAIN nodes' : nodes'[k].group = group_filter
  <1>1. CASE Wanted(current_group) /\ e.host # "" /\ ParsesAsHost(e)
    <2> DEFINE n == NodeOf(e, current_group)
    <2>1. nodes' = Append(nodes, n)
      BY <1>1 DEF Store
    <2>2. n \in Node /\ n.group = current_group
      <3> DEFINE p == IF e.colon THEN e.port ELSE DefaultPort
      <3>1. p \in Ports
        <4>1. DefaultPort \in Ports
          BY DEF DefaultPort, Ports
        <4>2. QED
          BY <1>1, <4>1 DEF ParsesAsHost
      <3>2. e.host \in STRING /\ current_group \in GroupName
        BY DEF Entry, NodesWanted
      <3>3. n = [host |-> e.host, port |-> p, group |-> current_group]
        BY DEF NodeOf
      <3> HIDE DEF p, n
      <3>4. QED
        BY <3>1, <3>2, <3>3 DEF Node
    <2>3. group_filter # NULL => n.group = group_filter
      BY <1>1, <2>2 DEF Wanted
    <2> HIDE DEF n
    <2>4. QED
      BY <2>1, <2>2, <2>3, Appended, InventoryAssumption DEF NodesWanted
  <1>2. CASE ~(Wanted(current_group) /\ e.host # "" /\ ParsesAsHost(e))
    <2>1. nodes' = nodes /\ Len(nodes) \in Nat
      BY <1>2, SeqFacts DEF Store
    <2>2. QED
      BY <2>1, InventoryAssumption DEF NodesWanted
  <1>3. QED
    BY <1>1, <1>2

LEMMA ReadLineFacts ==
    ASSUME NodectlInv, ReadLine
    PROVE  ReaderTypeOK' /\ NodesWanted'
  <1> USE DEF NodectlInv
  <1> DEFINE l == file[at + 1]
  <1>1. /\ at < Len(file) /\ Len(nodes) < MaxNodes /\ at' = at + 1
        /\ UNCHANGED <<stage, form, file, group_filter>>
    BY DEF ReadLine, More
  <1>2. at' \in 1..Len(file) /\ l.name \in STRING /\ l.entry \in Entry
    BY <1>1, LineFacts
  <1>3. nodes \in Seq(Node) /\ form \in {"yaml", "ini"} /\ Len(nodes) <= MaxNodes
    BY DEF TypeOK, ReaderTypeOK
  <1>4. IF form = "yaml" THEN YamlLine(l) ELSE IniLine(l)
    BY <1>1 DEF ReadLine
  <1> HIDE DEF l
  <1>5. Store(l.entry) \/ UNCHANGED nodes
    BY <1>4 DEF YamlLine, IniLine
  <1>6. /\ nodes' \in Seq(Node) /\ Len(nodes') <= MaxNodes
        /\ group_filter # NULL => \A k \in DOMAIN nodes' : nodes'[k].group = group_filter
    <2>1. CASE Store(l.entry)
      BY <1>1, <1>2, <1>3, <2>1, StoreFacts
    <2>2. CASE UNCHANGED nodes
      BY <1>3, <2>2 DEF NodesWanted
    <2>3. QED
      BY <1>5, <2>1, <2>2
  <1>7. current_group' \in GroupName
    <2>1. CASE form = "yaml"
      <3>1. current_group' = NextGroup(l)
        BY <1>4, <2>1 DEF YamlLine
      <3>2. QED
        BY <1>2, <3>1 DEF NextGroup, NodesWanted, GroupName
    <2>2. CASE form # "yaml"
      BY <1>2, <1>4, <2>2 DEF IniLine, NodesWanted, GroupName
    <2>3. QED
      BY <2>1, <2>2
  <1>8. in_groups_section' \in BOOLEAN /\ in_hosts_list' \in BOOLEAN
    <2>1. in_groups_section \in BOOLEAN /\ in_hosts_list \in BOOLEAN
      BY DEF TypeOK, ReaderTypeOK
    <2>2. CASE form = "yaml"
      BY <1>4, <2>2 DEF YamlLine
    <2>3. CASE form # "yaml"
      BY <1>4, <2>1, <2>3 DEF IniLine
    <2>4. QED
      BY <2>2, <2>3
  <1>9. at' \in 0..Len(file')
    BY <1>1, <1>2
  <1>10. QED
    BY <1>1, <1>6, <1>7, <1>8, <1>9 DEF TypeOK, ReaderTypeOK, NodesWanted

LEMMA LoadStep ==
    ASSUME NodectlInv, LoadNodes
    PROVE  NodectlInv'
  <1> USE DEF NodectlInv
  <1>1. pc = "load" /\ Load /\ UNCHANGED <<pc, loop, options, view>>
    BY DEF LoadNodes
  <1>2. /\ UNCHANGED <<pc, argv, i, watch_mode, view_mode, sort_mode, colors_enabled, filter_count,
                       statuses, ok_count, fail_count>>
        /\ UNCHANGED group_filter
    BY <1>1 DEF loop, options, view, Load, Open, OpenFails, ReadLine, Close
  <1>3. statuses = <<>> /\ ok_count = 0 /\ fail_count = 0
    BY <1>1 DEF Phases
  <1>4. ReaderTypeOK' /\ NodesWanted'
    <2>1. CASE Open
      <3>1. PICK f \in Files : form' = f.form /\ file' = f.lines
                               /\ current_group' = IF f.form = "yaml" THEN NoGroup ELSE "default"
        BY <2>1 DEF Open
      <3>2. f.form \in {"yaml", "ini"} /\ f.lines \in Seq(Line)
        BY InventoryAssumption
      <3>3. /\ stage' = "reading" /\ nodes' = <<>> /\ stage = "closed"
            /\ UNCHANGED <<at, in_groups_section, in_hosts_list>>
        BY <2>1 DEF Open
      <3>4. nodes' \in Seq(Node) /\ Len(nodes') <= MaxNodes
        BY <3>3, EmptySeq, InventoryAssumption
      <3>5. at' \in 0..Len(file')
        <4>1. at = 0
          BY <3>3 DEF Phases
        <4>2. Len(file') \in Nat
          BY <3>1, <3>2, SeqFacts
        <4>3. QED
          BY <3>3, <4>1, <4>2
      <3>6. QED
        <4>1. in_groups_section' \in BOOLEAN /\ in_hosts_list' \in BOOLEAN
          BY <3>3 DEF TypeOK, ReaderTypeOK
        <4>2. ReaderTypeOK'
          BY <3>1, <3>2, <3>3, <3>4, <3>5, <4>1 DEF ReaderTypeOK
        <4>3. current_group' \in GroupName
          BY <3>1 DEF GroupName
        <4>4. QED
          BY <3>3, <4>2, <4>3, EmptySeq DEF NodesWanted
    <2>2. CASE OpenFails
      BY <2>2 DEF OpenFails, reader, TypeOK, ReaderTypeOK, NodesWanted
    <2>3. CASE ReadLine
      BY <2>3, ReadLineFacts
    <2>4. CASE Close
      BY <2>4 DEF Close, reader, TypeOK, ReaderTypeOK, NodesWanted
    <2>5. QED
      BY <1>1, <2>1, <2>2, <2>3, <2>4 DEF Load
  <1>5. Len(statuses') <= Len(nodes') /\ ok_count' + fail_count' \in 0..Len(nodes')
    <2>1. Len(nodes') \in Nat
      BY <1>4, SeqFacts DEF ReaderTypeOK
    <2>2. QED
      BY <1>2, <1>3, <2>1, EmptySeq
  <1>6. TypeOK'
    BY <1>2, <1>4, <1>5 DEF TypeOK
  <1>7. RowsTrue'
    BY <1>2, <1>3, EmptySeq DEF RowsTrue
  <1>8. Phases' /\ FooterTrue'
    <2>1. stage' = "closed" => at' = 0
      BY <1>1 DEF Load, Open, OpenFails, ReadLine, Close
    <2>2. QED
      BY <1>1, <1>2, <1>3, <2>1 DEF Phases, FooterTrue
  <1>9. QED
    BY <1>4, <1>6, <1>7, <1>8

LEMMA LoadedStep ==
    ASSUME NodectlInv, NodesLoaded
    PROVE  NodectlInv'
  <1> USE DEF NodectlInv
  <1>1. /\ pc = "load" /\ pc' \in {"no nodes", "render"}
        /\ stage' = "closed" /\ form' = "yaml" /\ file' = <<>> /\ at' = 0
        /\ in_groups_section' = FALSE /\ in_hosts_list' = FALSE /\ current_group' = NoGroup
    BY DEF NodesLoaded, Return
  <1>2. UNCHANGED <<argv, i, watch_mode, view_mode, sort_mode, colors_enabled, filter_count,
                    nodes, group_filter, statuses, ok_count, fail_count>>
    BY DEF NodesLoaded, Return, loop, options, view
  <1>3. TypeOK'
    <2>1. at' \in 0..Len(file')
      <3>1. at' = 0 /\ Len(file') = 0
        BY <1>1, EmptySeq
      <3>2. QED
        BY <3>1
    <2>2. nodes' \in Seq(Node) /\ Len(nodes') <= MaxNodes
      BY <1>2 DEF TypeOK, ReaderTypeOK
    <2>3. ReaderTypeOK'
      BY <1>1, <2>1, <2>2 DEF ReaderTypeOK
    <2>4. QED
      BY <1>1, <1>2, <2>3 DEF TypeOK
  <1>4. NodesWanted' /\ RowsTrue'
    BY <1>1, <1>2 DEF NodesWanted, RowsTrue, GroupName
  <1>5. Phases' /\ FooterTrue'
    BY <1>1, <1>2 DEF Phases, FooterTrue
  <1>6. QED
    BY <1>3, <1>4, <1>5

-----------------------------------------------------------------------------
(* The views.                                                              *)

\* What Render leaves alone
Settled == <<argv, i, watch_mode, view_mode, sort_mode, colors_enabled, filter_count, group_filter,
             stage, form, file, at, in_groups_section, in_hosts_list, current_group, nodes>>

LEMMA SettledStep ==
    ASSUME NodectlInv, UNCHANGED Settled
    PROVE  /\ ReaderTypeOK' /\ NodesWanted'
           /\ argv' \in Seq(STRING) /\ i' \in 0..Len(argv') + 1
           /\ watch_mode' \in BOOLEAN /\ view_mode' \in Views /\ sort_mode' \in SortModes
           /\ colors_enabled' \in BOOLEAN /\ filter_count' \in 0..MaxFilters
  BY DEF NodectlInv, Settled, TypeOK, ReaderTypeOK, NodesWanted

\* The rows with numbers and the other rows are all the rows.
LEMMA CountFacts ==
    ASSUME NEW S, statuses \in Seq(S)
    PROVE  /\ Cardinality(Counted) \in 0..Len(statuses)
           /\ Cardinality({k \in DOMAIN statuses : ~statuses[k].has_metrics})
                = Len(statuses) - Cardinality(Counted)
  <1> DEFINE n == Len(statuses)
             Rest == {k \in DOMAIN statuses : ~statuses[k].has_metrics}
  <1>1. n \in Nat /\ DOMAIN statuses = 1..n
    BY SeqFacts
  <1>2. IsFiniteSet(1..n) /\ Cardinality(1..n) = n
    <2>1. 1 \in Int /\ n \in Int
      BY <1>1
    <2>2. IsFiniteSet(1..n) /\ Cardinality(1..n) = IF 1 > n THEN 0 ELSE n - 1 + 1
      BY <2>1, FS_Interval
    <2>3. (IF 1 > n THEN 0 ELSE n - 1 + 1) = n
      BY <1>1
    <2>4. QED
      BY <2>2, <2>3
  <1>3. Counted \in SUBSET (1..n) /\ Rest \in SUBSET (1..n)
    BY <1>1 DEF Counted
  <1>4. Counted \cup Rest = 1..n /\ Counted \cap Rest = {}
    BY <1>1 DEF Counted
  <1> HIDE DEF Rest
  <1>5. IsFiniteSet(Counted) /\ IsFiniteSet(Rest) /\ Cardinality(Counted) <= n
    BY <1>2, <1>3, FS_Subset
  <1>6. Cardinality(Counted) \in Nat /\ Cardinality(Rest) \in Nat
    BY <1>5, FS_CardinalityType
  <1>7. Cardinality(Counted \cap Rest) = 0
    BY <1>4, FS_EmptySet
  <1>8. Cardinality(Counted \cup Rest) = Cardinality(Counted) + Cardinality(Rest) - Cardinality(Counted \cap Rest)
    BY <1>5, FS_Union
  <1>9. Cardinality(Counted \cup Rest) = n
    BY <1>2, <1>4
  <1>10. Cardinality(Rest) = n - Cardinality(Counted)
    BY <1>1, <1>6, <1>7, <1>8, <1>9
  <1>11. QED
    BY <1>1, <1>5, <1>6, <1>10 DEF Rest

LEMMA TableStep ==
    ASSUME NodectlInv, RenderTable
    PROVE  NodectlInv'
  <1>1. /\ pc = "render" /\ view_mode = "default" /\ pc' = "print" /\ UNCHANGED Settled
        /\ UNCHANGED <<statuses, ok_count, fail_count>>
    BY DEF RenderTable, loop, options, loaded, reader, view, Settled
  <1>2. view_mode' = view_mode /\ nodes' = nodes
    BY <1>1 DEF Settled
  <1>3. TypeOK'
    BY <1>1, <1>2, SettledStep DEF NodectlInv, TypeOK
  <1>4. Phases' /\ RowsTrue' /\ FooterTrue'
    BY <1>1, <1>2 DEF NodectlInv, Phases, RowsTrue, FooterTrue, Settled
  <1>5. QED
    BY <1>1, <1>3, <1>4, SettledStep DEF NodectlInv

LEMMA FetchNodeStep ==
    ASSUME NodectlInv, FetchNode
    PROVE  NodectlInv'
  <1> USE DEF NodectlInv
  <1>1. /\ pc = "render" /\ pc' = pc /\ UNCHANGED Settled /\ UNCHANGED <<ok_count, fail_count>>
        /\ Len(statuses) < Len(nodes)
    BY DEF FetchNode, loop, options, loaded, reader, Settled
  <1>2. view_mode' = view_mode /\ nodes' = nodes
    BY <1>1 DEF Settled
  <1>3. statuses \in Seq(Status) /\ nodes \in Seq(Node) /\ ok_count = 0 /\ fail_count = 0
    BY <1>1 DEF TypeOK, ReaderTypeOK, Phases
  <1>4. PICK a \in Answers :
          statuses' = Append(statuses, [node |-> nodes[Len(statuses) + 1], state |-> a.state,
                                        has_metrics |-> HasMetrics(a), body |-> a.body])
    BY DEF FetchNode
  <1> DEFINE k0 == Len(statuses) + 1
             r  == [node |-> nodes[k0], state |-> a.state, has_metrics |-> HasMetrics(a), body |-> a.body]
  <1>5. /\ Len(statuses) \in Nat /\ Len(nodes) \in Nat /\ DOMAIN nodes = 1..Len(nodes)
        /\ k0 \in DOMAIN nodes /\ nodes[k0] \in Node
    <2>1. /\ Len(statuses) \in Nat /\ Len(nodes) \in Nat /\ DOMAIN nodes = 1..Len(nodes)
          /\ \A k \in DOMAIN nodes : nodes[k] \in Node
      BY <1>3, SeqFacts
    <2>2. k0 \in DOMAIN nodes
      BY <1>1, <2>1
    <2>3. QED
      BY <2>1, <2>2
  <1>6. a.state \in FetchState /\ a.body \in Body
    BY NodectlAssumption
  <1>7. HasMetrics(a) \in BOOLEAN
    BY DEF HasMetrics
  <1>8. HasMetrics(a) => /\ a.state = "OK"
                         /\ a.body \notin {"none"} \cup (IF view_mode = "cpu" THEN {"part", "zero"} ELSE {})
    BY <1>6 DEF HasMetrics, CpuFound, AnyFound, Body
  <1>9. r \in Status
    BY <1>5, <1>6, <1>7 DEF Status
  <1>10. r.node = nodes[k0] /\ r.state = a.state /\ r.has_metrics = HasMetrics(a) /\ r.body = a.body
    OBVIOUS
  <1>11. statuses' = Append(statuses, r)
    BY <1>4
  <1> HIDE DEF r
  <1>12. /\ statuses' \in Seq(Status) /\ Len(statuses') = k0
         /\ \A k \in DOMAIN statuses' : statuses'[k] = IF k = k0 THEN r ELSE statuses[k]
         /\ \A k \in DOMAIN statuses' : k # k0 => k \in DOMAIN statuses
    BY <1>3, <1>9, <1>11, Appended
  <1>13. Len(statuses') <= Len(nodes')
    BY <1>1, <1>2, <1>5, <1>12
  <1>14. TypeOK'
    BY <1>1, <1>2, <1>12, <1>13, SettledStep DEF TypeOK
  <1>15. RowsTrue'
    <2> SUFFICES ASSUME NEW k \in DOMAIN statuses'
                 PROVE  /\ k \in DOMAIN nodes /\ statuses'[k].node = nodes[k]
                        /\ statuses'[k].has_metrics =>
                             /\ statuses'[k].state = "OK"
                             /\ statuses'[k].body \notin {"none"} \cup (IF view_mode = "cpu" THEN {"part", "zero"} ELSE {})
      BY <1>2 DEF RowsTrue
    <2>1. CASE k = k0
      <3>1. statuses'[k] = r
        BY <1>12, <2>1
      <3>2. QED
        BY <1>5, <1>8, <1>10, <2>1, <3>1
    <2>2. CASE k # k0
      <3>1. statuses'[k] = statuses[k] /\ k \in DOMAIN statuses
        BY <1>12, <2>2
      <3>2. QED
        BY <3>1 DEF RowsTrue
    <2>3. QED
      BY <2>1, <2>2
  <1>16. Phases' /\ FooterTrue'
    BY <1>1, <1>2, <1>3 DEF Phases, FooterTrue, Settled
  <1>17. QED
    BY <1>1, <1>14, <1>15, <1>16, SettledStep

LEMMA PrintStep ==
    ASSUME NodectlInv, PrintView
    PROVE  NodectlInv'
  <1> USE DEF NodectlInv
  <1>1. /\ pc = "render" /\ pc' = "print" /\ UNCHANGED Settled /\ statuses' = statuses
        /\ Len(statuses) = Len(nodes)
        /\ ok_count' = IF view_mode = "debug" THEN 0 ELSE Cardinality(Counted)
        /\ fail_count' = IF view_mode = "debug" THEN 0 ELSE Len(statuses) - Cardinality(Counted)
    BY DEF PrintView, loop, options, loaded, reader, Settled
  <1>2. view_mode' = view_mode /\ nodes' = nodes /\ Counted' = Counted
    BY <1>1 DEF Settled, Counted
  <1>3. statuses \in Seq(Status)
    BY DEF TypeOK
  <1>4. Cardinality(Counted) \in 0..Len(statuses) /\ Len(statuses) \in Nat
    BY <1>3, CountFacts, SeqFacts
  <1>5. /\ ok_count' \in Nat /\ fail_count' \in Nat /\ ok_count' + fail_count' \in 0..Len(nodes')
    BY <1>1, <1>2, <1>4
  <1>6. TypeOK'
    BY <1>1, <1>2, <1>5, SettledStep DEF TypeOK
  <1>7. RowsTrue'
    BY <1>1, <1>2 DEF RowsTrue
  <1>8. Phases' /\ FooterTrue'
    BY <1>1, <1>2, <1>5 DEF Phases, FooterTrue, Settled
  <1>9. QED
    BY <1>1, <1>6, <1>7, <1>8, SettledStep

LEMMA RoundStep ==
    ASSUME NodectlInv, NextRound
    PROVE  NodectlInv'
  <1> USE DEF NodectlInv
  <1>1. /\ pc = "print" /\ pc' \in {"render", "done"} /\ UNCHANGED Settled
        /\ statuses' = <<>> /\ ok_count' = 0 /\ fail_count' = 0
    BY DEF NextRound, loop, options, loaded, reader, Settled
  <1>2. nodes' = nodes /\ Len(nodes) \in Nat
    BY <1>1, SeqFacts DEF Settled, TypeOK, ReaderTypeOK
  <1>3. statuses' \in Seq(Status) /\ Len(statuses') = 0
    BY <1>1, EmptySeq
  <1>4. TypeOK'
    <2>1. Len(statuses') <= Len(nodes') /\ ok_count' + fail_count' \in 0..Len(nodes')
      BY <1>1, <1>2, <1>3
    <2>2. pc' \in {"render", "done"}
      BY <1>1
    <2>3. QED
      BY <1>1, <1>3, <2>1, <2>2, SettledStep DEF TypeOK
  <1>5. RowsTrue'
    BY <1>1, EmptySeq DEF RowsTrue
  <1>6. Phases' /\ FooterTrue'
    BY <1>1 DEF Phases, FooterTrue, Settled
  <1>7. QED
    BY <1>1, <1>4, <1>5, <1>6, SettledStep

LEMMA StutterStep ==
    ASSUME NodectlInv, UNCHANGED vars
    PROVE  NodectlInv'
  <1>1. /\ UNCHANGED <<pc, statuses, ok_count, fail_count>> /\ UNCHANGED Settled
    BY DEF vars, loop, options, loaded, reader, view, Settled
  <1>2. view_mode' = view_mode /\ nodes' = nodes /\ Counted' = Counted
    BY <1>1 DEF Settled, Counted
  <1>3. TypeOK'
    BY <1>1, <1>2, SettledStep DEF NodectlInv, TypeOK
  <1>4. Phases' /\ RowsTrue' /\ FooterTrue'
    BY <1>1, <1>2 DEF NodectlInv, Phases, RowsTrue, FooterTrue, Settled
  <1>5. QED
    BY <1>1, <1>3, <1>4, SettledStep DEF NodectlInv

-----------------------------------------------------------------------------
(* The theorems.                                                           *)

\* From the command line to the exit, phase by phase.
THEOREM NodectlInvariant == Spec => []NodectlInv
  <1>1. NodectlInv /\ [Next]_vars => NodectlInv'
    <2> SUFFICES ASSUME NodectlInv, [Next]_vars
                 PROVE  NodectlInv'
      OBVIOUS
    <2>1. CASE ReadOptions
      BY <2>1, OptionsStep
    <2>2. CASE LoadNodes
      BY <2>2, LoadStep
    <2>3. CASE NodesLoaded
      BY <2>3, LoadedStep
    <2>4. CASE Render
      BY <2>4, TableStep, FetchNodeStep, PrintStep, RoundStep DEF Render
    <2>5. CASE UNCHANGED vars
      BY <2>5, StutterStep
    <2>6. QED
      BY <2>1, <2>2, <2>3, <2>4, <2>5 DEF Next, Returned
  <1>2. QED
    BY <1>1, NodectlInit, PTL DEF Spec

\* No argument is read past the last, no filter or node stored past its array.
THEOREM NodectlTypeCorrect == Spec => []TypeOK
  <1>1. NodectlInv => TypeOK
    BY DEF NodectlInv
  <1>2. QED
    BY <1>1, NodectlInvariant, PTL

\* A detail view shows every node of the group asked for, once and in order,
\* unless there are filters, and its footer counts what it shows.
THEOREM NodectlViewAsAsked == Spec => []ViewAsAsked
  <1>1. NodectlInv => ViewAsAsked
    <2> SUFFICES ASSUME NodectlInv, pc = "print", view_mode # "default"
                 PROVE  /\ filter_count = 0 => [k \in DOMAIN statuses |-> statuses[k].node] = nodes
                        /\ group_filter # NULL => \A k \in DOMAIN nodes : nodes[k].group = group_filter
                        /\ \A k \in DOMAIN statuses : statuses[k].has_metrics =>
                             /\ Diagnosis(statuses[k]).read = "ok"
                             /\ statuses[k].body \notin {"none"} \cup (IF view_mode = "cpu" THEN {"part", "zero"} ELSE {})
                        /\ view_mode # "debug" =>
                             /\ ok_count = Cardinality(Counted)
                             /\ fail_count = Cardinality({k \in DOMAIN statuses : ~statuses[k].has_metrics})
      BY DEF ViewAsAsked, Counted
    <2> USE DEF NodectlInv
    <2>1. statuses \in Seq(Status) /\ nodes \in Seq(Node) /\ Len(statuses) = Len(nodes)
      BY DEF TypeOK, ReaderTypeOK, FooterTrue
    <2>2. [k \in DOMAIN statuses |-> statuses[k].node] = nodes
      <3>1. DOMAIN statuses = DOMAIN nodes /\ nodes = [k \in DOMAIN nodes |-> nodes[k]]
        BY <2>1, SeqFacts
      <3>2. \A k \in DOMAIN statuses : statuses[k].node = nodes[k]
        BY DEF RowsTrue
      <3>3. QED
        BY <3>1, <3>2
    <2>3. \A k \in DOMAIN statuses : statuses[k].has_metrics => Diagnosis(statuses[k]).read = "ok"
      BY DEF RowsTrue, Diagnosis
    <2>4. view_mode # "debug" =>
            /\ ok_count = Cardinality(Counted)
            /\ fail_count = Cardinality({k \in DOMAIN statuses : ~statuses[k].has_metrics})
      BY <2>1, CountFacts DEF FooterTrue
    <2>5. QED
      BY <2>2, <2>3, <2>4 DEF NodesWanted, RowsTrue
  <1>2. QED
    BY <1>1, NodectlInvariant, PTL

-----------------------------------------------------------------------------
(* What is loaded is what is listed.                                       *)

\* The headings read so far, and the group they leave the reader in.
Named == {j \in Said : file[j].kind \in {"key", "section"}}

GroupNow ==
    IF Named = {} THEN IF form = "yaml" THEN NoGroup ELSE "default"
    ELSE IF form = "ini" /\ file[Last(Named)].name = "" THEN "default"
    ELSE file[Last(Named)].name

\* The nodes are those listed.
AllListed ==
    /\ Len(nodes) = IF Cardinality(Listed) < MaxNodes THEN Cardinality(Listed) ELSE MaxNodes
    /\ \A k \in Listed : Rank(k) <= MaxNodes => nodes[Rank(k)] = NodeAt(k)

\* As long as what was read is as documented, the three locals of the reader say
\* what its lines say, and the nodes are those listed.
Following ==
    /\ form = "yaml" =>
         /\ in_groups_section <=> Said # {}
         /\ \A k \in Said : (\A j \in Said : j <= k) =>
              (in_hosts_list <=> file[k].kind \in {"hosts:", "item"})
         /\ \A k \in Said : file[k].kind \in {"hosts:", "item"} => Named # {}
    /\ current_group = GroupNow
    /\ AllListed

ReadInv ==
    /\ stage = "closed" => ~in_groups_section
    /\ stage = "reading" /\ Documented => Following
    /\ stage = "loaded" /\ Documented => AllListed

\* The next line says something; it is a heading; it has a host that is wanted.
SaysNext == file[at + 1].kind # "blank" /\ ~file[at + 1].cont
HeadNext == SaysNext /\ file[at + 1].kind \in {"key", "section"}
ListNext ==
    /\ SaysNext /\ file[at + 1].kind \in {"item", "text"}
    /\ file[at + 1].entry.host # ""
    /\ file[at + 1].entry.colon => file[at + 1].entry.port \in Ports
    /\ group_filter \in {NULL, GroupAt(at + 1)}

LEMMA LastIn ==
    ASSUME NEW S, NEW j \in S, \A k \in S : k <= j
    PROVE  Last(S) \in S /\ \A k \in S : k <= Last(S)
  BY DEF Last

LEMMA LastIs ==
    ASSUME NEW S, S \subseteq Int, NEW j \in S, \A k \in S : k <= j
    PROVE  Last(S) = j
  <1>1. Last(S) \in S /\ \A k \in S : k <= Last(S)
    BY LastIn, Zenon
  <1>2. j \in Int /\ Last(S) \in Int
    BY <1>1
  <1>3. j <= Last(S) /\ Last(S) <= j
    BY <1>1
  <1>4. QED
    BY <1>2, <1>3

\* One more line has been read.
LEMMA OneLineMore ==
    ASSUME NodectlInv, ReadLine
    PROVE  /\ at \in Nat /\ at' = at + 1 /\ form \in {"yaml", "ini"}
           /\ UNCHANGED <<stage, form, file, group_filter>>
           /\ Judged = 1..at /\ Judged' = 1..at'
           /\ 1..at' = (1..at) \cup {at + 1} /\ at + 1 \notin 1..at
           /\ Said \subseteq 1..at
           /\ Said' = IF SaysNext THEN Said \cup {at + 1} ELSE Said
  <1>1. /\ at' = at + 1 /\ UNCHANGED <<stage, form, file, group_filter>>
    BY DEF ReadLine
  <1>2. at \in 0..Len(file) /\ form \in {"yaml", "ini"}
    BY DEF NodectlInv, TypeOK, ReaderTypeOK
  <1>3. at \in Nat
    BY <1>2
  <1>4. 1..at' = (1..at) \cup {at + 1} /\ at + 1 \notin 1..at
    BY <1>1, <1>3
  <1>0. Judged = 1..at /\ Judged' = 1..at'
    BY DEF ReadLine, Judged
  <1>5. Said \subseteq 1..at
    BY <1>0 DEF Said
  <1>6. Said' = IF SaysNext THEN Said \cup {at + 1} ELSE Said
    <2>1. Said' = {k \in 1..at' : file[k].kind # "blank" /\ ~file[k].cont}
      BY <1>0, <1>1 DEF Said
    <2>2. QED
      BY <1>0, <1>4, <2>1 DEF Said, SaysNext
  <1>7. QED
    BY <1>0, <1>1, <1>2, <1>3, <1>4, <1>5, <1>6

\* A line does not change what stands above the others, nor above itself.
LEMMA HeadsKept ==
    ASSUME NodectlInv, ReadLine, NEW k \in 1..(at + 1)
    PROVE  Heads(k)' = Heads(k) /\ GroupAt(k)' = GroupAt(k)
  <1>1. /\ at \in Nat /\ file' = file /\ form' = form /\ Said \subseteq 1..at
        /\ Said' = IF SaysNext THEN Said \cup {at + 1} ELSE Said
    BY OneLineMore
  <1>2. Heads(k)' = {j \in Said' : j < k /\ file[j].kind \in {"key", "section"}}
    BY <1>1 DEF Heads
  <1>3. ~(at + 1 < k)
    BY <1>1
  <1>4. Heads(k)' = Heads(k)
    BY <1>1, <1>2, <1>3 DEF Heads
  <1>5. QED
    BY <1>1, <1>4 DEF GroupAt

LEMMA NamedNext ==
    ASSUME NodectlInv, ReadLine
    PROVE  /\ Heads(at + 1) = Named
           /\ Named \subseteq 1..at
           /\ Named' = IF HeadNext THEN Named \cup {at + 1} ELSE Named
  <1>1. /\ at \in Nat /\ file' = file /\ Said \subseteq 1..at
        /\ Said' = IF SaysNext THEN Said \cup {at + 1} ELSE Said
    BY OneLineMore
  <1>2. \A j \in Said : j < at + 1
    BY <1>1
  <1>3. Heads(at + 1) = Named
    BY <1>2 DEF Heads, Named
  <1>4. Named' = {j \in Said' : file[j].kind \in {"key", "section"}}
    BY <1>1 DEF Named
  <1>5. QED
    BY <1>1, <1>3, <1>4 DEF Named, HeadNext

\* The lines listed before are still listed, in their places, and the new one
\* comes last.
LEMMA ListedNext ==
    ASSUME NodectlInv, ReadLine
    PROVE  /\ Listed \subseteq 1..at
           /\ Listed' = IF ListNext THEN Listed \cup {at + 1} ELSE Listed
  <1>1. /\ at \in Nat /\ file' = file /\ form' = form /\ group_filter' = group_filter
        /\ Said \subseteq 1..at /\ at + 1 \notin 1..at
        /\ Said' = IF SaysNext THEN Said \cup {at + 1} ELSE Said
    BY OneLineMore
  <1> DEFINE Fits(k) == /\ file[k].kind \in {"item", "text"}
                        /\ file[k].entry.host # ""
                        /\ file[k].entry.colon => file[k].entry.port \in Ports
             Mine(k) == group_filter \in {NULL, GroupAt(k)}
  <1>2. Listed = {k \in Said : Fits(k) /\ Mine(k)}
    BY DEF Listed
  <1>3. Listed' = {k \in Said' : Fits(k) /\ Mine(k)'}
    BY <1>1 DEF Listed
  <1>4. \A k \in Said' : Mine(k)' <=> Mine(k)
    <2>1. ASSUME NEW k \in Said' PROVE Mine(k)' <=> Mine(k)
      <3>1. k \in 1..(at + 1)
        BY <1>1
      <3>2. QED
        BY <1>1, <3>1, HeadsKept
    <2>2. QED
      BY <2>1
  <1>5. ListNext <=> SaysNext /\ Fits(at + 1) /\ Mine(at + 1)
    BY DEF ListNext
  <1>6. Listed' = {k \in Said' : Fits(k) /\ Mine(k)}
    BY <1>3, <1>4
  <1> HIDE DEF Fits, Mine
  <1>7. QED
    BY <1>1, <1>2, <1>5, <1>6

\* A file is as documented line by line.
LEMMA DocumentedNext ==
    ASSUME NodectlInv, ReadLine, Documented'
    PROVE  /\ Documented
           /\ form = "ini" => file[at + 1].kind \in {"blank", "section", "text"} /\ ~file[at + 1].cont
           /\ form = "yaml" /\ ~SaysNext =>
                file[at + 1].kind = "blank" \/ (file[at + 1].kind = "text" /\ file[at + 1].indent < 2)
           /\ form = "yaml" /\ SaysNext =>
                \/ Said = {} /\ Groups(file[at + 1])
                \/ \E j \in Said :
                     /\ \A m \in Said : m <= j
                     /\ \/ file[at + 1].kind = "key" /\ file[at + 1].indent = 2
                        \/ /\ file[at + 1].kind = "hosts:" /\ file[at + 1].indent = 4
                           /\ file[j].kind = "key"
                        \/ /\ file[at + 1].kind = "item" /\ file[at + 1].indent = 6
                           /\ file[j].kind \in {"hosts:", "item"}
  <1>1. /\ at \in Nat /\ at' = at + 1 /\ file' = file /\ form' = form /\ form \in {"yaml", "ini"}
        /\ 1..at' = (1..at) \cup {at + 1} /\ Said \subseteq 1..at
        /\ Judged = 1..at /\ Judged' = 1..at'
        /\ Said' = IF SaysNext THEN Said \cup {at + 1} ELSE Said
    BY OneLineMore
  <1>2. CASE form = "ini"
    <2>1. \A k \in 1..at' : file[k].kind \in {"blank", "section", "text"} /\ ~file[k].cont
      BY <1>1, <1>2 DEF Documented, DocumentedIni
    <2>2. QED
      BY <1>1, <1>2, <2>1 DEF Documented, DocumentedIni
  <1>3. CASE form = "yaml"
    <2> DEFINE Follows(j, k) ==
                 \/ file[k].kind = "key" /\ file[k].indent = 2
                 \/ file[k].kind = "hosts:" /\ file[k].indent = 4 /\ file[j].kind = "key"
                 \/ file[k].kind = "item" /\ file[k].indent = 6 /\ file[j].kind \in {"hosts:", "item"}
    <2>1. \A k \in 1..at' : file[k].cont => file[k].indent < 2 /\ file[k].kind = "text"
      BY <1>1, <1>3 DEF Documented, DocumentedYaml
    <2>2. \A k \in Said' :
            \/ (\A j \in Said' : k <= j) /\ Groups(file[k])
            \/ \E j \in Said' : /\ j < k /\ \A m \in Said' : m < k => m <= j
                                /\ Follows(j, k)
      BY <1>1, <1>3 DEF Documented, DocumentedYaml, Above, Groups
    <2> HIDE DEF Follows
    <2>3. ASSUME NEW k \in Said
          PROVE  \/ (\A j \in Said : k <= j) /\ Groups(file[k])
                 \/ \E j \in Said : Above(j, k) /\ Follows(j, k)
      <3>1. k \in Said' /\ k \in 1..at
        BY <1>1
      <3>2. CASE (\A j \in Said' : k <= j) /\ Groups(file[k])
        BY <1>1, <3>2
      <3>3. CASE \E j \in Said' : /\ j < k /\ \A m \in Said' : m < k => m <= j
                                  /\ Follows(j, k)
        <4>1. PICK j \in Said' : /\ j < k /\ \A m \in Said' : m < k => m <= j
                                 /\ Follows(j, k)
          BY <3>3
        <4>2. j \in Said
          BY <1>1, <3>1, <4>1
        <4>3. Above(j, k)
          BY <1>1, <4>1, <4>2 DEF Above
        <4>4. QED
          BY <4>1, <4>2, <4>3
      <3>4. QED
        BY <2>2, <3>1, <3>2, <3>3
    <2>4. Documented
      <3>1. \A k \in 1..at : file[k].cont => file[k].indent < 2 /\ file[k].kind = "text"
        BY <1>1, <2>1
      <3>2. \A k \in Judged : file[k].cont => file[k].indent < 2 /\ file[k].kind = "text"
        BY <1>1, <3>1
      <3>3. QED
        BY <1>3, <2>3, <3>2 DEF Documented, DocumentedYaml, Follows
    <2>5. ASSUME SaysNext
          PROVE  \/ Said = {} /\ Groups(file[at + 1])
                 \/ \E j \in Said : (\A m \in Said : m <= j) /\ Follows(j, at + 1)
      <3>1. at + 1 \in Said' /\ \A m \in Said : m < at + 1
        BY <1>1, <2>5
      <3>2. CASE (\A j \in Said' : at + 1 <= j) /\ Groups(file[at + 1])
        <4>1. \A j \in Said : at + 1 <= j
          BY <1>1, <3>2
        <4>2. QED
          BY <1>1, <3>1, <3>2, <4>1
      <3>3. CASE \E j \in Said' : /\ j < at + 1 /\ \A m \in Said' : m < at + 1 => m <= j
                                  /\ Follows(j, at + 1)
        <4>1. PICK j \in Said' : /\ j < at + 1 /\ \A m \in Said' : m < at + 1 => m <= j
                                 /\ Follows(j, at + 1)
          BY <3>3
        <4>2. j \in Said
          BY <1>1, <4>1
        <4>3. \A m \in Said : m <= j
          BY <1>1, <3>1, <4>1
        <4>4. QED
          BY <4>1, <4>2, <4>3
      <3>4. QED
        BY <2>2, <3>1, <3>2, <3>3
    <2>6. ~SaysNext => file[at + 1].kind = "blank" \/ (file[at + 1].kind = "text" /\ file[at + 1].indent < 2)
      BY <1>1, <2>1 DEF SaysNext
    <2>7. QED
      BY <1>3, <2>4, <2>5, <2>6 DEF Follows
  <1>4. QED
    BY <1>1, <1>2, <1>3

\* The reader follows a YAML file: a documented line has the effect it should,
\* and exactly the host lines are stored.
LEMMA YamlFollows ==
    ASSUME NodectlInv, ReadInv, ReadLine, Documented', form = "yaml"
    PROVE  /\ in_groups_section' <=> Said' # {}
           /\ \A k \in Said' : (\A j \in Said' : j <= k) =>
                (in_hosts_list' <=> file[k].kind \in {"hosts:", "item"})
           /\ \A k \in Said' : file[k].kind \in {"hosts:", "item"} => Named' # {}
           /\ current_group' = GroupNow'
           /\ HostItem(file[at + 1]) <=> SaysNext /\ file[at + 1].kind \in {"item", "text"}
           /\ HostItem(file[at + 1]) => current_group = GroupAt(at + 1)
  <1> DEFINE n == at + 1
             l == file[n]
  <1>1. /\ at \in Nat /\ at' = n /\ file' = file /\ form' = form
        /\ Said \subseteq 1..at
        /\ Said' = IF SaysNext THEN Said \cup {n} ELSE Said
    BY OneLineMore
  <1>2. Documented /\ stage = "reading"
    BY DocumentedNext DEF ReadLine
  <1>3. /\ in_groups_section <=> Said # {}
        /\ \A k \in Said : (\A j \in Said : j <= k) =>
             (in_hosts_list <=> file[k].kind \in {"hosts:", "item"})
        /\ \A k \in Said : file[k].kind \in {"hosts:", "item"} => Named # {}
        /\ current_group = GroupNow
    BY <1>2 DEF ReadInv, Following
  <1>4. /\ in_groups_section' = (in_groups_section \/ Groups(l))
        /\ in_hosts_list' = (HostsKey(l) \/ (in_hosts_list /\ ~Groups(l) /\ ~Heading(l)))
        /\ current_group' = NextGroup(l)
    BY <1>1 DEF ReadLine, YamlLine
  <1>5. /\ Named \subseteq Said /\ Named \subseteq 1..at /\ Heads(n) = Named
        /\ Named' = IF HeadNext THEN Named \cup {n} ELSE Named
    BY NamedNext DEF Named
  <1>6. ~HeadNext => GroupNow' = GroupNow
    BY <1>1, <1>5 DEF GroupNow
  <1>7. \A k \in Said : k < n
    BY <1>1
  <1>8. SaysNext => \A k \in Said' : (\A j \in Said' : j <= k) => k = n
    BY <1>1, <1>7
  <1> HIDE DEF l
  <1>9. CASE ~SaysNext
    <2>1. l.kind = "blank" \/ (l.kind = "text" /\ l.indent < 2)
      BY <1>9, DocumentedNext DEF l
    <2>2. ~Groups(l) /\ ~Heading(l) /\ ~HostsKey(l) /\ ~HostItem(l)
      BY <2>1 DEF Groups, Heading, HostsKey, HostItem
    <2>3. /\ in_groups_section' <=> in_groups_section
          /\ in_hosts_list' <=> in_hosts_list
          /\ current_group' = current_group
      BY <1>4, <2>2 DEF NextGroup
    <2>4. ~HeadNext
      BY <1>9 DEF HeadNext
    <2>5. Said' = Said /\ Named' = Named /\ current_group' = GroupNow'
      BY <1>1, <1>3, <1>5, <1>6, <1>9, <2>3, <2>4
    <2>6. /\ in_groups_section' <=> Said' # {}
          /\ \A k \in Said' : (\A j \in Said' : j <= k) =>
               (in_hosts_list' <=> file[k].kind \in {"hosts:", "item"})
          /\ \A k \in Said' : file[k].kind \in {"hosts:", "item"} => Named' # {}
      BY <1>3, <2>3, <2>5
    <2>7. ~HostItem(file[at + 1])
      BY <2>2 DEF l
    <2>8. QED
      BY <1>9, <2>5, <2>6, <2>7, Zenon
  <1>10. CASE SaysNext /\ Said = {} /\ Groups(l)
    <2>1. l.kind = "groups:" /\ l.indent = 0
      BY <1>10 DEF Groups
    <2>2. ~Heading(l) /\ ~HostsKey(l) /\ ~HostItem(l)
      BY <2>1 DEF Heading, HostsKey, HostItem
    <2>3. in_groups_section' /\ ~in_hosts_list' /\ current_group' = NoGroup
      BY <1>4, <1>10, <2>2 DEF NextGroup
    <2>4. ~HeadNext /\ Named' = {} /\ Said' = {n}
      BY <1>1, <1>5, <1>10, <2>1 DEF HeadNext, l
    <2>5. GroupNow' = NoGroup
      BY <1>1, <2>4 DEF GroupNow
    <2>6. file[n].kind = "groups:"
      BY <2>1 DEF l
    <2>7. QED
      BY <2>2, <2>3, <2>4, <2>5, <2>6 DEF l
  <1>11. CASE SaysNext /\ ~(Said = {} /\ Groups(l))
    <2>1. PICK j \in Said :
            /\ \A m \in Said : m <= j
            /\ \/ l.kind = "key" /\ l.indent = 2
               \/ l.kind = "hosts:" /\ l.indent = 4 /\ file[j].kind = "key"
               \/ l.kind = "item" /\ l.indent = 6 /\ file[j].kind \in {"hosts:", "item"}
      BY <1>11, DocumentedNext DEF l
    <2>2. in_groups_section /\ in_groups_section' /\ ~Groups(l) /\ Said' # {}
      BY <1>1, <1>3, <1>4, <1>11, <2>1 DEF Groups
    <2>3. in_hosts_list <=> file[j].kind \in {"hosts:", "item"}
      BY <1>3, <2>1
    <2>4. CASE l.kind = "key" /\ l.indent = 2
      <3>1. Heading(l) /\ ~HostsKey(l) /\ ~HostItem(l) /\ HeadNext
        BY <1>11, <2>2, <2>4 DEF Heading, HostsKey, HostItem, HeadNext, l
      <3>2. ~in_hosts_list' /\ current_group' = l.name
        BY <1>4, <2>2, <3>1 DEF NextGroup
      <3>3. Named' = Named \cup {n} /\ \A k \in Named' : k <= n
        BY <1>1, <1>5, <3>1
      <3>4. Last(Named') = n
        <4>1. Named' \subseteq Int /\ n \in Named'
          BY <1>1, <1>5, <3>3
        <4>2. QED
          BY <3>3, <4>1, LastIs
      <3>5. GroupNow' = l.name
        <4>1. Named' # {} /\ form' # "ini"
          BY <1>1, <3>3
        <4>2. QED
          BY <1>1, <3>4, <4>1 DEF GroupNow, l
      <3>6. \A k \in Said' : (\A m \in Said' : m <= k) =>
              (in_hosts_list' <=> file[k].kind \in {"hosts:", "item"})
        BY <1>8, <1>11, <2>4, <3>2 DEF l
      <3>7. QED
        BY <2>2, <2>4, <3>1, <3>2, <3>3, <3>5, <3>6 DEF l
    <2>5. CASE l.kind = "hosts:" /\ l.indent = 4 /\ file[j].kind = "key"
      <3>1. HostsKey(l) /\ ~Heading(l) /\ ~HostItem(l) /\ ~HeadNext
        BY <1>11, <2>2, <2>5 DEF Heading, HostsKey, HostItem, HeadNext, l
      <3>2. in_hosts_list' /\ current_group' = current_group
        BY <1>4, <2>2, <3>1 DEF NextGroup
      <3>3. j \in Named /\ Named' = Named
        BY <1>5, <2>1, <2>5, <3>1 DEF Named
      <3>4. \A k \in Said' : (\A m \in Said' : m <= k) =>
              (in_hosts_list' <=> file[k].kind \in {"hosts:", "item"})
        BY <1>8, <1>11, <2>5, <3>2 DEF l
      <3>5. QED
        BY <1>3, <1>6, <2>2, <2>5, <3>1, <3>2, <3>3, <3>4 DEF l
    <2>6. CASE l.kind = "item" /\ l.indent = 6 /\ file[j].kind \in {"hosts:", "item"}
      <3>1. ~HostsKey(l) /\ ~Heading(l) /\ HostItem(l) /\ ~HeadNext
        BY <1>11, <2>2, <2>3, <2>6 DEF Heading, HostsKey, HostItem, HeadNext, l
      <3>2. in_hosts_list' /\ current_group' = current_group
        BY <1>4, <2>2, <2>3, <2>6, <3>1 DEF NextGroup
      <3>3. Named # {} /\ Named' = Named
        BY <1>3, <1>5, <2>1, <2>6, <3>1
      <3>4. current_group = GroupAt(n)
        BY <1>3, <1>5, <3>3 DEF GroupNow, GroupAt
      <3>5. \A k \in Said' : (\A m \in Said' : m <= k) =>
              (in_hosts_list' <=> file[k].kind \in {"hosts:", "item"})
        BY <1>8, <1>11, <2>6, <3>2 DEF l
      <3>6. QED
        BY <1>3, <1>6, <1>11, <2>2, <2>6, <3>1, <3>2, <3>3, <3>4, <3>5 DEF l
    <2>7. QED
      BY <2>1, <2>4, <2>5, <2>6
  <1>12. QED
    BY <1>9, <1>10, <1>11

\* So it does the other form.
LEMMA IniFollows ==
    ASSUME NodectlInv, ReadInv, ReadLine, Documented', form = "ini"
    PROVE  /\ current_group' = GroupNow'
           /\ file[at + 1].kind \notin {"blank", "section"} <=>
                SaysNext /\ file[at + 1].kind \in {"item", "text"}
           /\ current_group = GroupAt(at + 1)
  <1> DEFINE n == at + 1
             l == file[n]
  <1>1. at \in Nat /\ at' = n /\ file' = file /\ form' = form
    BY OneLineMore
  <1>2. Documented /\ stage = "reading" /\ l.kind \in {"blank", "section", "text"} /\ ~l.cont
    BY DocumentedNext DEF ReadLine
  <1>3. current_group = GroupNow
    BY <1>2 DEF ReadInv, Following
  <1>4. current_group' = IF l.kind # "section" THEN current_group
                         ELSE IF l.name = "" THEN "default" ELSE l.name
    BY <1>1 DEF ReadLine, IniLine
  <1>5. /\ Named \subseteq 1..at /\ Heads(n) = Named
        /\ Named' = IF HeadNext THEN Named \cup {n} ELSE Named
    BY NamedNext
  <1>6. current_group = GroupAt(n)
    BY <1>3, <1>5 DEF GroupNow, GroupAt
  <1>7. (SaysNext <=> l.kind # "blank") /\ (HeadNext <=> l.kind = "section")
    BY <1>2 DEF SaysNext, HeadNext
  <1> HIDE DEF l
  <1>8. current_group' = GroupNow'
    <2>1. CASE l.kind = "section"
      <3>1. Named' = Named \cup {n} /\ \A k \in Named' : k <= n
        BY <1>1, <1>5, <1>7, <2>1
      <3>2. Last(Named') = n
        <4>1. Named' \subseteq Int /\ n \in Named'
          BY <1>1, <1>5, <3>1
        <4>2. QED
          BY <3>1, <4>1, LastIs
      <3>3. GroupNow' = IF l.name = "" THEN "default" ELSE l.name
        <4>1. Named' # {} /\ form' = "ini"
          BY <1>1, <3>1
        <4>2. QED
          BY <1>1, <3>2, <4>1 DEF GroupNow, l
      <3>4. QED
        BY <1>4, <2>1, <3>3
    <2>2. CASE l.kind # "section"
      <3>1. current_group' = current_group /\ Named' = Named
        BY <1>4, <1>5, <1>7, <2>2
      <3>2. GroupNow' = GroupNow
        BY <1>1, <3>1 DEF GroupNow
      <3>3. QED
        BY <1>3, <3>1, <3>2
    <2>3. QED
      BY <2>1, <2>2
  <1>9. QED
    BY <1>2, <1>6, <1>7, <1>8 DEF l

\* A line is stored if and only if it is listed, as the node it stands for.
LEMMA StoredNext ==
    ASSUME NodectlInv, ReadInv, ReadLine, Documented'
    PROVE  nodes' = IF ListNext THEN Append(nodes, NodeAt(at + 1)) ELSE nodes
  <1> DEFINE l == file[at + 1]
             Host == SaysNext /\ l.kind \in {"item", "text"}
  <1>1. form \in {"yaml", "ini"} /\ at' = at + 1
    BY OneLineMore
  <1>2. ListNext <=> /\ Host /\ l.entry.host # ""
                     /\ l.entry.colon => l.entry.port \in Ports
                     /\ group_filter \in {NULL, GroupAt(at + 1)}
    BY DEF ListNext
  <1>3. Host => current_group = GroupAt(at + 1)
    BY <1>1, YamlFollows, IniFollows
  <1>4. IF Host THEN Store(l.entry) ELSE UNCHANGED nodes
    <2>1. CASE form = "yaml"
      <3>1. HostItem(l) <=> Host
        BY <2>1, YamlFollows
      <3>2. IF HostItem(l) THEN Store(l.entry) ELSE UNCHANGED nodes
        BY <1>1, <2>1 DEF ReadLine, YamlLine
      <3>3. QED
        BY <3>1, <3>2
    <2>2. CASE form = "ini"
      <3>1. l.kind \notin {"blank", "section"} <=> Host
        BY <2>2, IniFollows
      <3>2. IF l.kind \in {"blank", "section"} THEN UNCHANGED nodes ELSE Store(l.entry)
        BY <1>1, <2>2 DEF ReadLine, IniLine
      <3>3. QED
        BY <3>1, <3>2
    <2>3. QED
      BY <1>1, <2>1, <2>2
  <1>5. CASE Host
    <2>1. Wanted(current_group) <=> group_filter \in {NULL, GroupAt(at + 1)}
      BY <1>3, <1>5 DEF Wanted
    <2>2. l.entry.host # "" =>
            (ParsesAsHost(l.entry) <=> (l.entry.colon => l.entry.port \in Ports))
      BY DEF ParsesAsHost
    <2>3. NodeOf(l.entry, current_group) = NodeAt(at + 1)
      BY <1>3, <1>5 DEF NodeOf, NodeAt
    <2>4. Store(l.entry)
      BY <1>4, <1>5
    <2> HIDE DEF l, Host
    <2>5. QED
      BY <1>2, <1>5, <2>1, <2>2, <2>3, <2>4 DEF Store
  <1>6. CASE ~Host
    BY <1>2, <1>4, <1>6
  <1>7. QED
    BY <1>5, <1>6

\* Places up to n are finitely many.
LEMMA PlacesFinite ==
    ASSUME NEW n \in Nat, NEW S, S \subseteq 1..n
    PROVE  IsFiniteSet(S) /\ Cardinality(S) \in 0..n
  <1>1. 1 \in Int /\ n \in Int
    OBVIOUS
  <1>2. IsFiniteSet(1..n) /\ Cardinality(1..n) = IF 1 > n THEN 0 ELSE n - 1 + 1
    BY <1>1, FS_Interval
  <1>3. (IF 1 > n THEN 0 ELSE n - 1 + 1) = n
    OBVIOUS
  <1>4. S \in SUBSET (1..n)
    OBVIOUS
  <1>5. IsFiniteSet(S) /\ Cardinality(S) <= Cardinality(1..n)
    BY <1>2, <1>4, FS_Subset
  <1>6. Cardinality(S) \in Nat
    BY <1>5, FS_CardinalityType
  <1>7. QED
    BY <1>2, <1>3, <1>5, <1>6

LEMMA SeqMore ==
    ASSUME NEW S, NEW T, NEW q \in Seq(S), S \subseteq T
    PROVE  q \in Seq(T)
  OBVIOUS

\* The nodes are those listed, one more of them or not.
LEMMA LoadedNext ==
    ASSUME NodectlInv, ReadInv, ReadLine, Documented'
    PROVE  /\ Len(nodes') = IF Cardinality(Listed') < MaxNodes THEN Cardinality(Listed') ELSE MaxNodes
           /\ \A k \in Listed' : Rank(k)' <= MaxNodes => nodes'[Rank(k)'] = NodeAt(k)'
  <1> DEFINE n == at + 1
             c == Cardinality(Listed)
  <1>1. /\ at \in Nat /\ at' = n /\ file' = file /\ form' = form
        /\ Len(nodes) < MaxNodes /\ nodes \in Seq(Node) /\ MaxNodes \in Nat
    BY OneLineMore, InventoryAssumption DEF ReadLine, More, NodectlInv, TypeOK, ReaderTypeOK
  <1>2. /\ Len(nodes) = IF c < MaxNodes THEN c ELSE MaxNodes
        /\ \A k \in Listed : Rank(k) <= MaxNodes => nodes[Rank(k)] = NodeAt(k)
    BY DocumentedNext DEF ReadInv, Following, AllListed, ReadLine
  <1>3. Listed \subseteq 1..at /\ Listed' = IF ListNext THEN Listed \cup {n} ELSE Listed
    BY ListedNext
  <1>4. IsFiniteSet(Listed) /\ c \in Nat /\ Len(nodes) = c
    <2>1. IsFiniteSet(Listed) /\ c \in 0..at
      BY <1>1, <1>3, PlacesFinite
    <2> HIDE DEF c
    <2>2. QED
      BY <1>1, <1>2, <2>1
  <1>5. nodes' = IF ListNext THEN Append(nodes, NodeAt(n)) ELSE nodes
    BY StoredNext
  <1>6. \A k \in 1..n : NodeAt(k)' = NodeAt(k)
    BY <1>1, HeadsKept DEF NodeAt
  <1>7. \A k \in Listed : Rank(k)' = Rank(k) /\ Rank(k) \in 1..c /\ k \in 1..n
    <2> SUFFICES ASSUME NEW k \in Listed
                 PROVE  Rank(k)' = Rank(k) /\ Rank(k) \in 1..c /\ k \in 1..n
      OBVIOUS
    <2> DEFINE B == {j \in Listed : j <= k}
    <2>1. k \in 1..n /\ ~(n <= k)
      BY <1>1, <1>3
    <2>2. {j \in Listed' : j <= k} = B
      BY <1>3, <2>1
    <2>3. B \in SUBSET Listed /\ k \in B
      BY <1>1, <1>3
    <2>4. IsFiniteSet(B) /\ Cardinality(B) <= c
      BY <1>4, <2>3, FS_Subset
    <2>5. Cardinality(B) \in Nat /\ Cardinality(B) # 0
      BY <2>3, <2>4, FS_CardinalityType, FS_EmptySet
    <2>6. Rank(k)' = Cardinality(B) /\ Rank(k) = Cardinality(B)
      BY <2>2 DEF Rank
    <2>7. QED
      BY <1>4, <2>1, <2>4, <2>5, <2>6
  <1>8. CASE ~ListNext
    <2>1. Listed' = Listed /\ nodes' = nodes
      BY <1>3, <1>5, <1>8
    <2>2. QED
      BY <1>2, <1>6, <1>7, <2>1
  <1>9. CASE ListNext
    <2> DEFINE x == NodeAt(n)
    <2>1. Listed' = Listed \cup {n} /\ nodes' = Append(nodes, x) /\ n \notin Listed
      BY <1>1, <1>3, <1>5, <1>9
    <2>2. Cardinality(Listed') = c + 1
      BY <1>4, <2>1, FS_AddElement
    <2>3. ASSUME NEW k, k = n
          PROVE  Rank(k)' = c + 1 /\ NodeAt(k)' = x
      <3>1. {j \in Listed' : j <= k} = Listed'
        <4>1. \A j \in 1..at : j <= k
          BY <1>1, <2>3
        <4>2. k <= k
          BY <1>1, <2>3
        <4>3. \A j \in Listed' : j <= k
          BY <1>3, <2>1, <2>3, <4>1, <4>2
        <4>4. QED
          BY <4>3
      <3>2. Rank(k)' = c + 1
        BY <2>2, <3>1 DEF Rank
      <3>3. k \in 1..n
        BY <1>1, <2>3
      <3>4. NodeAt(k)' = x
        BY <1>6, <2>3, <3>3
      <3>5. QED
        BY <3>2, <3>4
    <2> HIDE DEF x
    <2>4. nodes \in Seq(Node \cup {x})
      BY <1>1, SeqMore
    <2>6. /\ Len(nodes') = c + 1 /\ DOMAIN nodes' = 1..(c + 1)
          /\ \A k \in DOMAIN nodes' : nodes'[k] = IF k = c + 1 THEN x ELSE nodes[k]
      <3>1. x \in Node \cup {x}
        OBVIOUS
      <3>2. /\ Len(Append(nodes, x)) = Len(nodes) + 1
            /\ DOMAIN Append(nodes, x) = 1..Len(nodes) + 1
            /\ \A k \in DOMAIN Append(nodes, x) :
                 Append(nodes, x)[k] = IF k = Len(nodes) + 1 THEN x ELSE nodes[k]
        BY <2>4, <3>1, Appended
      <3>3. QED
        BY <1>4, <2>1, <3>2
    <2>7. Len(nodes') = IF Cardinality(Listed') < MaxNodes THEN Cardinality(Listed') ELSE MaxNodes
      BY <1>1, <1>4, <2>2, <2>6
    <2>8. ASSUME NEW k \in Listed', Rank(k)' <= MaxNodes
          PROVE  nodes'[Rank(k)'] = NodeAt(k)'
      <3>1. CASE k = n
        <4>1. nodes'[c + 1] = x
          BY <1>4, <2>6
        <4>2. QED
          BY <2>3, <3>1, <4>1
      <3>2. CASE k # n
        <4>1. k \in Listed
          BY <2>1, <3>2
        <4>2. Rank(k)' = Rank(k) /\ Rank(k) \in 1..c /\ NodeAt(k)' = NodeAt(k)
          BY <1>6, <1>7, <4>1
        <4>3. nodes'[Rank(k)] = nodes[Rank(k)]
          BY <1>4, <2>6, <4>2
        <4>4. nodes[Rank(k)] = NodeAt(k)
          BY <1>1, <1>2, <1>4, <4>1, <4>2
        <4>5. QED
          BY <4>2, <4>3, <4>4
      <3>3. QED
        BY <3>1, <3>2
    <2>9. QED
      BY <2>7, <2>8
  <1>10. QED
    BY <1>8, <1>9

\* Nothing has been read of a file just opened.
LEMMA NothingRead ==
    ASSUME NodectlInv, Open, ReadInv
    PROVE  ReadInv'
  <1>1. /\ stage = "closed" /\ stage' = "reading" /\ nodes' = <<>> /\ at' = at
        /\ in_groups_section' = in_groups_section
        /\ \E f \in Files : /\ form' = f.form
                            /\ current_group' = IF f.form = "yaml" THEN NoGroup ELSE "default"
    BY DEF Open
  <1>2. at' = 0 /\ ~in_groups_section'
    BY <1>1 DEF NodectlInv, Phases, ReadInv
  <1>3. Said' = {} /\ Named' = {} /\ Listed' = {}
    <2>1. Judged' = {}
      BY <1>1, <1>2 DEF Judged
    <2>2. QED
      BY <2>1 DEF Said, Named, Listed
  <1>4. Cardinality(Listed') = 0 /\ Len(nodes') = 0 /\ MaxNodes \in Nat \ {0}
    BY <1>1, <1>3, FS_EmptySet, EmptySeq, InventoryAssumption
  <1>5. current_group' = GroupNow'
    BY <1>1, <1>3 DEF GroupNow
  <1>6. Following'
    BY <1>2, <1>3, <1>4, <1>5 DEF Following, AllListed
  <1>7. QED
    BY <1>1, <1>6 DEF ReadInv

LEMMA ReadInvLine ==
    ASSUME NodectlInv, ReadInv, ReadLine
    PROVE  ReadInv'
  <1>1. stage = "reading" /\ stage' = "reading" /\ form' = form /\ form \in {"yaml", "ini"}
    BY OneLineMore DEF ReadLine
  <1>2. ASSUME Documented'
        PROVE  Following'
    <2>1. current_group' = GroupNow'
      BY <1>1, <1>2, YamlFollows, IniFollows
    <2>2. form = "yaml" =>
            /\ in_groups_section' <=> Said' # {}
            /\ \A k \in Said' : (\A j \in Said' : j <= k) =>
                 (in_hosts_list' <=> file[k].kind \in {"hosts:", "item"})
            /\ \A k \in Said' : file[k].kind \in {"hosts:", "item"} => Named' # {}
      BY <1>2, YamlFollows
    <2>3. file' = file
      BY OneLineMore
    <2>4. QED
      BY <1>1, <1>2, <2>1, <2>2, <2>3, LoadedNext DEF Following, AllListed
  <1>3. QED
    BY <1>1, <1>2 DEF ReadInv

\* Nothing more is read.
LEMMA SameRead ==
    ASSUME ReadInv, UNCHANGED <<stage, form, file, at, group_filter, in_groups_section, in_hosts_list,
                                current_group, nodes>>
    PROVE  ReadInv'
  <1>1. Judged' = Judged /\ Said' = Said
    BY DEF Judged, Said
  <1>2. Named' = Named /\ GroupNow' = GroupNow
    BY <1>1 DEF Named, GroupNow
  <1>3. \A k : Heads(k)' = Heads(k)
    BY <1>1 DEF Heads
  <1>4. \A k : GroupAt(k)' = GroupAt(k)
    BY <1>3 DEF GroupAt
  <1>5. Listed' = Listed
    BY <1>1, <1>4 DEF Listed
  <1>6. \A k : Rank(k)' = Rank(k) /\ NodeAt(k)' = NodeAt(k)
    BY <1>4, <1>5 DEF Rank, NodeAt
  <1>7. Documented' <=> Documented
    BY <1>1 DEF Documented, DocumentedYaml, DocumentedIni, Above, Groups
  <1>8. (AllListed' <=> AllListed) /\ (Following' <=> Following)
    BY <1>1, <1>2, <1>5, <1>6 DEF Following, AllListed
  <1>9. QED
    BY <1>7, <1>8 DEF ReadInv

\* A file written as documented is so up to any of its lines.
LEMMA DocumentedBefore ==
    ASSUME NodectlInv, Close, Documented'
    PROVE  Documented
  <1>1. stage = "reading" /\ stage' = "loaded" /\ UNCHANGED <<form, file, at>>
    BY DEF Close, reader
  <1>2. at \in 0..Len(file) /\ form \in {"yaml", "ini"}
    BY DEF NodectlInv, TypeOK, ReaderTypeOK
  <1>3. Judged = 1..at /\ Judged' = 1..Len(file)
    BY <1>1 DEF Judged
  <1>4. 1..at \subseteq 1..Len(file)
    BY <1>2
  <1>5. Said' = {k \in 1..Len(file) : file[k].kind # "blank" /\ ~file[k].cont}
    BY <1>1, <1>3 DEF Said
  <1>6. \A k \in Said : k \in Said' /\ k \in 1..at
    BY <1>3, <1>4, <1>5 DEF Said
  <1>7. \A j \in Said', k \in 1..at : j < k => j \in Said
    BY <1>2, <1>3, <1>5 DEF Said
  <1>8. CASE form = "ini"
    BY <1>1, <1>3, <1>4, <1>8 DEF Documented, DocumentedIni
  <1>9. CASE form = "yaml"
    <2> DEFINE Follows(j, k) ==
                 \/ file[k].kind = "key" /\ file[k].indent = 2
                 \/ file[k].kind = "hosts:" /\ file[k].indent = 4 /\ file[j].kind = "key"
                 \/ file[k].kind = "item" /\ file[k].indent = 6 /\ file[j].kind \in {"hosts:", "item"}
    <2>1. \A k \in 1..at : file[k].cont => file[k].indent < 2 /\ file[k].kind = "text"
      BY <1>1, <1>3, <1>4, <1>9 DEF Documented, DocumentedYaml
    <2>2. \A k \in Said' :
            \/ (\A j \in Said' : k <= j) /\ Groups(file[k])
            \/ \E j \in Said' : /\ j < k /\ \A m \in Said' : m < k => m <= j
                                /\ Follows(j, k)
      BY <1>1, <1>9 DEF Documented, DocumentedYaml, Above, Groups
    <2> HIDE DEF Follows
    <2>3. ASSUME NEW k \in Said
          PROVE  \/ (\A j \in Said : k <= j) /\ Groups(file[k])
                 \/ \E j \in Said : Above(j, k) /\ Follows(j, k)
      <3>1. k \in Said' /\ k \in 1..at
        BY <1>6
      <3>2. CASE (\A j \in Said' : k <= j) /\ Groups(file[k])
        BY <1>6, <3>2
      <3>3. CASE \E j \in Said' : /\ j < k /\ \A m \in Said' : m < k => m <= j
                                  /\ Follows(j, k)
        <4>1. PICK j \in Said' : /\ j < k /\ \A m \in Said' : m < k => m <= j
                                 /\ Follows(j, k)
          BY <3>3
        <4>2. j \in Said
          BY <1>7, <3>1, <4>1
        <4>3. Above(j, k)
          BY <1>6, <4>1, <4>2 DEF Above
        <4>4. QED
          BY <4>1, <4>2, <4>3
      <3>4. QED
        BY <2>2, <3>1, <3>2, <3>3
    <2>4. QED
      BY <1>3, <1>9, <2>1, <2>3 DEF Documented, DocumentedYaml, Follows
  <1>10. QED
    BY <1>2, <1>8, <1>9

\* The loop ends when the file does or when the array is full: then the nodes
\* are the first of those the whole file lists.
LEMMA WholeFile ==
    ASSUME NodectlInv, ReadInv, Close
    PROVE  ReadInv'
  <1>1. /\ stage = "reading" /\ stage' = "loaded" /\ ~More
        /\ UNCHANGED <<form, file, at, group_filter, nodes>>
    BY DEF Close, reader
  <1>2. /\ at \in 0..Len(file) /\ Len(nodes) <= MaxNodes /\ nodes \in Seq(Node)
        /\ MaxNodes \in Nat /\ Len(file) \in Nat
    <2>1. at \in 0..Len(file) /\ Len(nodes) <= MaxNodes /\ nodes \in Seq(Node) /\ MaxNodes \in Nat
      BY InventoryAssumption DEF NodectlInv, TypeOK, ReaderTypeOK
    <2>2. file = <<>> \/ file \in Seq(Line)
      BY InventoryAssumption DEF NodectlInv, TypeOK, ReaderTypeOK
    <2>3. Len(file) \in Nat
      BY <2>2, EmptySeq, SeqFacts
    <2>4. QED
      BY <2>1, <2>3
  <1>3. Judged = 1..at /\ Judged' = 1..Len(file)
    BY <1>1 DEF Judged
  <1>4. Said = {k \in Said' : k <= at} /\ Said' \subseteq 1..Len(file)
    BY <1>1, <1>2, <1>3 DEF Said
  <1>5. at = Len(file) \/ Len(nodes) = MaxNodes
    <2>1. Len(nodes) \in Nat
      BY <1>2, SeqFacts
    <2>2. QED
      BY <1>1, <1>2, <2>1 DEF More
  <1>6. \A k : k \in 1..at => Heads(k)' = Heads(k) /\ GroupAt(k)' = GroupAt(k)
    <2> SUFFICES ASSUME NEW k \in 1..at
                 PROVE  Heads(k)' = Heads(k) /\ GroupAt(k)' = GroupAt(k)
      OBVIOUS
    <2>1. Heads(k)' = {j \in Said' : j < k /\ file[j].kind \in {"key", "section"}}
      BY <1>1 DEF Heads
    <2>2. \A j \in Said' : j < k => j <= at
      BY <1>2, <1>4
    <2>3. Heads(k)' = Heads(k)
      BY <1>4, <2>1, <2>2 DEF Heads
    <2>4. QED
      BY <1>1, <2>3 DEF GroupAt
  <1>7. Listed = {k \in Listed' : k <= at} /\ Listed' \subseteq 1..Len(file)
    <2> DEFINE Fits(k) == /\ file[k].kind \in {"item", "text"}
                          /\ file[k].entry.host # ""
                          /\ file[k].entry.colon => file[k].entry.port \in Ports
               Mine(k) == group_filter \in {NULL, GroupAt(k)}
    <2>1. Listed = {k \in Said : Fits(k) /\ Mine(k)}
      BY DEF Listed
    <2>2. Listed' = {k \in Said' : Fits(k) /\ Mine(k)'}
      BY <1>1 DEF Listed
    <2>3. \A k \in 1..at : Mine(k)' <=> Mine(k)
      BY <1>1, <1>6
    <2>4. \A k \in Said : k \in 1..at
      BY <1>3 DEF Said
    <2> HIDE DEF Fits, Mine
    <2>5. QED
      BY <1>4, <2>1, <2>2, <2>3, <2>4
  <1>8. ASSUME Documented'
        PROVE  AllListed'
    <2> DEFINE c == Cardinality(Listed)
               d == Cardinality(Listed')
    <2>1. /\ Len(nodes) = IF c < MaxNodes THEN c ELSE MaxNodes
          /\ \A k \in Listed : Rank(k) <= MaxNodes => nodes[Rank(k)] = NodeAt(k)
      BY <1>1, <1>8, DocumentedBefore DEF ReadInv, Following, AllListed
    <2>2. IsFiniteSet(Listed') /\ d \in Nat
      <3>1. IsFiniteSet(Listed')
        BY <1>2, <1>7, PlacesFinite
      <3>2. QED
        BY <3>1, FS_CardinalityType
    <2>3. Listed \in SUBSET Listed'
      BY <1>7
    <2>4. IsFiniteSet(Listed) /\ c \in Nat /\ c <= d
      <3>1. IsFiniteSet(Listed) /\ c <= d
        BY <2>2, <2>3, FS_Subset
      <3>2. QED
        BY <3>1, FS_CardinalityType
    <2>5. at = Len(file) => Listed' = Listed
      <3>1. at = Len(file) => \A k \in 1..Len(file) : k <= at
        BY <1>2
      <3>2. QED
        BY <1>7, <3>1
    <2>6. ASSUME NEW k \in Listed
          PROVE  Rank(k)' = Rank(k) /\ NodeAt(k)' = NodeAt(k)
      <3>1. k \in 1..at
        BY <1>2, <1>7
      <3>2. {j \in Listed' : j <= k} = {j \in Listed : j <= k}
        <4>1. \A j \in 1..Len(file) : j <= k => j <= at
          BY <1>2, <3>1
        <4>2. QED
          BY <1>7, <4>1
      <3>3. Rank(k)' = Rank(k)
        BY <3>2 DEF Rank
      <3>4. QED
        BY <1>1, <1>6, <3>1, <3>3 DEF NodeAt
    <2>7. ASSUME NEW k \in Listed', k \notin Listed
          PROVE  ~(Rank(k)' <= MaxNodes)
      <3> DEFINE B == {j \in Listed' : j <= k}
      <3>1. at < k /\ k \in Nat /\ at \in Nat
        BY <1>2, <1>7, <2>7
      <3>2. c >= MaxNodes
        <4>1. at # Len(file)
          BY <2>5, <2>7
        <4>2. QED
          BY <1>2, <1>5, <2>1, <2>4, <4>1
      <3>3. \A j \in Listed : j <= k
        BY <1>2, <1>7, <3>1
      <3>4. Listed \cup {k} \in SUBSET B /\ B \in SUBSET Listed'
        BY <2>3, <3>1, <3>3
      <3>5. IsFiniteSet(B) /\ Rank(k)' = Cardinality(B)
        BY <2>2, <3>4, FS_Subset DEF Rank
      <3> HIDE DEF B, c
      <3>6. Cardinality(Listed \cup {k}) = c + 1
        BY <2>4, <2>7, FS_AddElement DEF c
      <3>7. Cardinality(Listed \cup {k}) <= Cardinality(B) /\ Cardinality(B) \in Nat
        BY <3>4, <3>5, FS_Subset, FS_CardinalityType
      <3>8. QED
        BY <1>2, <2>4, <3>2, <3>5, <3>6, <3>7
    <2>8. Len(nodes) = IF d < MaxNodes THEN d ELSE MaxNodes
      <3>1. CASE at = Len(file)
        BY <2>1, <2>5, <3>1
      <3>2. CASE Len(nodes) = MaxNodes
        <4> HIDE DEF c, d
        <4>1. c >= MaxNodes
          BY <1>2, <2>1, <2>4, <3>2
        <4>2. QED
          BY <1>2, <2>2, <2>4, <3>2, <4>1
      <3>3. QED
        BY <1>5, <3>1, <3>2
    <2>9. \A k \in Listed' : Rank(k)' <= MaxNodes => nodes'[Rank(k)'] = NodeAt(k)'
      <3> SUFFICES ASSUME NEW k \in Listed', Rank(k)' <= MaxNodes
                   PROVE  nodes'[Rank(k)'] = NodeAt(k)'
        OBVIOUS
      <3>1. k \in Listed
        BY <2>7
      <3>2. QED
        BY <1>1, <2>1, <2>6, <3>1
    <2>10. QED
      BY <1>1, <2>8, <2>9 DEF AllListed
  <1>9. QED
    BY <1>1, <1>8 DEF ReadInv

\* The reader's locals follow the file, line after line.
THEOREM NodectlReader == Spec => []ReadInv
  <1>1. Init => ReadInv
    BY DEF Init, Idle, ReadInv
  <1>2. NodectlInv /\ ReadInv /\ [Next]_vars => ReadInv'
    <2> SUFFICES ASSUME NodectlInv, ReadInv, [Next]_vars
                 PROVE  ReadInv'
      OBVIOUS
    <2>1. CASE ReadOptions
      <3>1. pc \in {"start", "options"} /\ UNCHANGED loaded
        BY <2>1 DEF ReadOptions, NoCommand, Command, SetView, NoColor, AddFilter, SetSort, SetGroup,
               Usage, OptionsEnd, Goto, At
      <3>2. stage = "closed" /\ stage' = stage /\ in_groups_section' = in_groups_section
        BY <3>1 DEF NodectlInv, Phases, loaded, reader
      <3>3. QED
        BY <3>2 DEF ReadInv
    <2>2. CASE LoadNodes
      <3>1. CASE Open
        BY <3>1, NothingRead
      <3>2. CASE OpenFails
        BY <3>2 DEF OpenFails, ReadInv
      <3>3. CASE ReadLine
        BY <3>3, ReadInvLine
      <3>4. CASE Close
        BY <3>4, WholeFile
      <3>5. QED
        BY <2>2, <3>1, <3>2, <3>3, <3>4 DEF LoadNodes, Load
    <2>5. CASE NodesLoaded
      BY <2>5 DEF NodesLoaded, Return, ReadInv
    <2>3. CASE Render \/ UNCHANGED vars
      <3>1. UNCHANGED <<loaded, group_filter>>
        BY <2>3 DEF Render, RenderTable, FetchNode, PrintView, NextRound, vars
      <3>2. UNCHANGED <<stage, form, file, at, group_filter, in_groups_section, in_hosts_list,
                        current_group, nodes>>
        BY <3>1 DEF loaded, reader
      <3>3. QED
        BY <3>2, SameRead
    <2>4. QED
      BY <2>1, <2>2, <2>3, <2>5 DEF Next, Returned
  <1>3. QED
    BY <1>1, <1>2, NodectlInvariant, PTL DEF Spec

\* From a whole file written as documented exactly the wanted group's hosts are
\* loaded, in order, the first MAX_NODES of them when there are more.
THEOREM NodectlLoadedAsListed == Spec => []LoadedAsListed
  <1>1. ReadInv => LoadedAsListed
    BY DEF ReadInv, Following, AllListed, LoadedAsListed
  <1>2. QED
    BY <1>1, NodectlReader, PTL

-----------------------------------------------------------------------------
(* The option loop reads the command line as a whole.                      *)

\* The arguments taken so far that are not values, those of them in set S, and
\* those that name a group
Taken   == {k \in 2..Len(argv) : k < i /\ ~Value(k)}
Seen(S) == {k \in Taken : argv[k] \in S}
Names   == {k \in Taken : argv[k] \notin Options}

SortOptions == SortAssignments \cup {"--sort"}
SortAt(k) == IF argv[k] = "--sort" THEN argv[k + 1] ELSE AssignedMode(argv[k])

Defaults ==
    /\ view_mode = "default" /\ sort_mode = "state" /\ colors_enabled
    /\ filter_count = 0 /\ group_filter = NULL

\* At the head of the loop the options say what the arguments to the left of i
\* ask for, and argv[i] is no value.
LoopHead ==
    /\ argv # <<>> /\ argv[1] \in {"status", "watch"}
    /\ i \in 2..Len(argv) + 1 /\ ~Value(i)
    /\ \A k \in Seen({"--filter"}) : k < Len(argv) /\ argv[k + 1] \in Exprs
    /\ \A k \in Seen({"--sort"}) : k < Len(argv) /\ argv[k + 1] \in SortModes
    /\ Seen({"--sort=cpu"}) = {}
    /\ view_mode = IF Seen(ViewOptions) = {} THEN "default" ELSE ViewOf(argv[Last(Seen(ViewOptions))])
    /\ sort_mode = IF Seen(SortOptions) = {} THEN "state" ELSE SortAt(Last(Seen(SortOptions)))
    /\ filter_count = Cardinality(Seen({"--filter"}))
    /\ colors_enabled <=> Seen({"--no-color"}) = {}
    /\ \/ Names = {} /\ group_filter = NULL
       \/ \E j \in Taken : Names = {j} /\ group_filter = argv[j]

LoopInv ==
    /\ pc = "start" => Defaults
    /\ pc = "usage" => ~WellFormed
    /\ pc = "options" => LoopHead

\* One turn of the loop: what argv[i] asks for is done, and its value, if it
\* has one, is skipped.
Turn ==
    /\ pc = "options" /\ pc' = "options" /\ i <= Len(argv) /\ argv' = argv
    /\ IF argv[i] \in {"--filter", "--sort"}
       THEN i' = i + 2 /\ i < Len(argv) /\ argv[i + 1] \notin {"--filter", "--sort"}
       ELSE i' = i + 1

LEMMA ArgFacts ==
    ASSUME NodectlInv
    PROVE  argv \in Seq(STRING) /\ Len(argv) \in Nat /\ DOMAIN argv = 1..Len(argv)
           /\ \A k \in 1..Len(argv) : argv[k] \in STRING
  BY SeqFacts DEF NodectlInv, TypeOK

\* One argument more has been taken, and it comes last.
LEMMA TakenNext ==
    ASSUME NodectlInv, LoopHead, Turn
    PROVE  /\ i \in 2..Len(argv) /\ Len(argv) \in Nat
           /\ i' \in 2..Len(argv') + 1 /\ ~Value(i)'
           /\ Taken \subseteq 2..Len(argv) /\ \A k \in Taken : k < i
           /\ Taken' = Taken \cup {i}
  <1>1. Len(argv) \in Nat /\ i \in 2..Len(argv) /\ argv' = argv
    BY ArgFacts DEF LoopHead, Turn
  <1>2. i' \in 2..Len(argv') + 1
    BY <1>1 DEF Turn
  <1>3. ~Value(i)'
    <2>1. CASE argv[i] \in {"--filter", "--sort"}
      <3>1. i' = i + 2 /\ argv[i + 1] \notin {"--filter", "--sort"}
        BY <2>1 DEF Turn
      <3>2. i' - 1 = i + 1
        BY <1>1, <3>1
      <3>3. QED
        BY <1>1, <3>1, <3>2 DEF Value
    <2>2. CASE argv[i] \notin {"--filter", "--sort"}
      <3>1. i' - 1 = i
        BY <1>1, <2>2 DEF Turn
      <3>2. QED
        BY <1>1, <2>2, <3>1 DEF Value
    <2>3. QED
      BY <2>1, <2>2
  <1>4. Taken \subseteq 2..Len(argv) /\ \A k \in Taken : k < i
    BY DEF Taken
  <1>5. \A k : Value(k)' <=> Value(k)
    BY <1>1 DEF Value
  <1>6. Taken' = {k \in 2..Len(argv) : k < i' /\ ~Value(k)}
    BY <1>1, <1>5 DEF Taken
  <1>7. \A k \in 2..Len(argv) : ~Value(k) /\ k < i' <=> ~Value(k) /\ (k < i \/ k = i)
    <2>1. CASE argv[i] \in {"--filter", "--sort"}
      <3>1. i' = i + 2
        BY <2>1 DEF Turn
      <3>2. Value(i + 1)
        BY <1>1, <2>1 DEF Value
      <3>3. \A k \in 2..Len(argv) : k < i' <=> k < i \/ k = i \/ k = i + 1
        BY <1>1, <3>1
      <3>4. QED
        BY <1>1, <3>2, <3>3
    <2>2. CASE argv[i] \notin {"--filter", "--sort"}
      <3>1. i' = i + 1
        BY <2>2 DEF Turn
      <3>2. QED
        BY <1>1, <3>1
    <2>3. QED
      BY <2>1, <2>2
  <1>8. ~Value(i)
    BY DEF LoopHead
  <1>9. Taken' = Taken \cup {i}
    BY <1>1, <1>6, <1>7, <1>8 DEF Taken
  <1>10. QED
    BY <1>1, <1>2, <1>3, <1>4, <1>9

\* So it is for the options of one kind.
LEMMA SeenNext ==
    ASSUME NodectlInv, LoopHead, Turn, NEW S
    PROVE  /\ Seen(S)' = IF argv[i] \in S THEN Seen(S) \cup {i} ELSE Seen(S)
           /\ argv[i] \in S => Last(Seen(S)') = i /\ Seen(S)' # {}
           /\ IsFiniteSet(Seen(S)) /\ i \notin Seen(S)
  <1>1. /\ i \in 2..Len(argv) /\ Len(argv) \in Nat /\ argv' = argv
        /\ Taken \subseteq 2..Len(argv) /\ \A k \in Taken : k < i
        /\ Taken' = Taken \cup {i}
    BY TakenNext DEF Turn
  <1>2. Seen(S)' = {k \in Taken' : argv[k] \in S}
    BY <1>1 DEF Seen
  <1>3. Seen(S)' = IF argv[i] \in S THEN Seen(S) \cup {i} ELSE Seen(S)
    BY <1>1, <1>2 DEF Seen
  <1>4. Seen(S) \subseteq 1..Len(argv) /\ i \notin Seen(S) /\ \A k \in Seen(S) : k < i
    <2>1. Seen(S) \subseteq Taken /\ 2..Len(argv) \subseteq 1..Len(argv) /\ ~(i < i)
      BY <1>1 DEF Seen
    <2>2. QED
      BY <1>1, <2>1
  <1>5. ASSUME argv[i] \in S
        PROVE  Last(Seen(S)') = i /\ Seen(S)' # {}
    <2>1. i \in Seen(S)' /\ Seen(S)' \subseteq Int /\ \A k \in Seen(S)' : k <= i
      BY <1>1, <1>3, <1>4, <1>5
    <2>2. QED
      BY <2>1, LastIs
  <1>6. IsFiniteSet(Seen(S))
    BY <1>1, <1>4, PlacesFinite
  <1>7. QED
    BY <1>3, <1>4, <1>5, <1>6

\* What is to be shown of one turn, option by option.
LEMMA TurnKeeps ==
    ASSUME NodectlInv, LoopHead, Turn,
           argv[i] = "--filter" => argv[i + 1] \in Exprs /\ filter_count' = filter_count + 1,
           argv[i] = "--sort" => argv[i + 1] \in SortModes,
           argv[i] # "--sort=cpu",
           view_mode' = IF argv[i] \in ViewOptions THEN ViewOf(argv[i]) ELSE view_mode,
           sort_mode' = IF argv[i] \in SortOptions THEN SortAt(i) ELSE sort_mode,
           argv[i] # "--filter" => filter_count' = filter_count,
           colors_enabled' <=> colors_enabled /\ argv[i] # "--no-color",
           argv[i] \in Options => group_filter' = group_filter,
           argv[i] \notin Options => group_filter = NULL /\ group_filter' = argv[i]
    PROVE  LoopHead'
  <1>1. /\ i \in 2..Len(argv) /\ Len(argv) \in Nat /\ argv' = argv
        /\ i' \in 2..Len(argv') + 1 /\ ~Value(i)'
        /\ Taken' = Taken \cup {i}
    BY TakenNext DEF Turn
  <1>2. argv' # <<>> /\ argv'[1] \in {"status", "watch"}
    BY <1>1 DEF LoopHead
  <1>3. \A k \in Seen({"--filter"})' : k < Len(argv) /\ argv[k + 1] \in Exprs
    <2>1. argv[i] = "--filter" => i < Len(argv)
      BY DEF Turn
    <2>2. QED
      BY <2>1, SeenNext DEF LoopHead
  <1>4. \A k \in Seen({"--sort"})' : k < Len(argv) /\ argv[k + 1] \in SortModes
    <2>1. argv[i] = "--sort" => i < Len(argv)
      BY DEF Turn
    <2>2. QED
      BY <2>1, SeenNext DEF LoopHead
  <1>5. Seen({"--sort=cpu"})' = {}
    BY SeenNext DEF LoopHead
  <1>6. view_mode' = IF Seen(ViewOptions)' = {} THEN "default" ELSE ViewOf(argv[Last(Seen(ViewOptions)')])
    <2>1. CASE argv[i] \in ViewOptions
      <3>1. Last(Seen(ViewOptions)') = i /\ Seen(ViewOptions)' # {}
        BY <2>1, SeenNext DEF ViewOptions
      <3>2. QED
        BY <2>1, <3>1
    <2>2. CASE argv[i] \notin ViewOptions
      <3>1. Seen(ViewOptions)' = Seen(ViewOptions)
        BY <2>2, SeenNext DEF ViewOptions
      <3>2. view_mode = IF Seen(ViewOptions) = {} THEN "default" ELSE ViewOf(argv[Last(Seen(ViewOptions))])
        BY DEF LoopHead
      <3>3. view_mode' = view_mode
        BY <2>2
      <3>4. QED
        BY <3>1, <3>2, <3>3, Zenon
    <2>3. QED
      BY <2>1, <2>2
  <1>7. sort_mode' = IF Seen(SortOptions)' = {} THEN "state" ELSE SortAt(Last(Seen(SortOptions)'))
    <2>1. CASE argv[i] \in SortOptions
      <3>1. Last(Seen(SortOptions)') = i /\ Seen(SortOptions)' # {}
        BY <2>1, SeenNext DEF SortOptions, SortAssignments
      <3>2. QED
        BY <2>1, <3>1
    <2>2. CASE argv[i] \notin SortOptions
      <3>1. Seen(SortOptions)' = Seen(SortOptions)
        BY <2>2, SeenNext DEF SortOptions, SortAssignments
      <3>2. sort_mode = IF Seen(SortOptions) = {} THEN "state" ELSE SortAt(Last(Seen(SortOptions)))
        BY DEF LoopHead
      <3>3. sort_mode' = sort_mode
        BY <2>2
      <3>4. QED
        BY <3>1, <3>2, <3>3, Zenon
    <2>3. QED
      BY <2>1, <2>2
  <1>8. filter_count' = Cardinality(Seen({"--filter"})')
    <2>1. filter_count = Cardinality(Seen({"--filter"}))
      BY DEF LoopHead
    <2>2. CASE argv[i] = "--filter"
      <3>1. Seen({"--filter"})' = Seen({"--filter"}) \cup {i} /\ i \notin Seen({"--filter"})
            /\ IsFiniteSet(Seen({"--filter"}))
        BY <2>2, SeenNext
      <3>2. QED
        BY <2>1, <2>2, <3>1, FS_AddElement
    <2>3. CASE argv[i] # "--filter"
      <3>1. Seen({"--filter"})' = Seen({"--filter"})
        BY <2>3, SeenNext
      <3>2. QED
        BY <2>1, <2>3, <3>1
    <2>4. QED
      BY <2>2, <2>3
  <1>9. colors_enabled' <=> Seen({"--no-color"})' = {}
    <2>1. Seen({"--no-color"})' = IF argv[i] = "--no-color" THEN Seen({"--no-color"}) \cup {i} ELSE Seen({"--no-color"})
      BY SeenNext
    <2>2. colors_enabled <=> Seen({"--no-color"}) = {}
      BY DEF LoopHead
    <2>3. QED
      BY <2>1, <2>2
  <1>10. \/ Names' = {} /\ group_filter' = NULL
         \/ \E j \in Taken' : Names' = {j} /\ group_filter' = argv[j]
    <2>1. Names' = IF argv[i] \notin Options THEN Names \cup {i} ELSE Names
      BY <1>1 DEF Names
    <2>2. \/ Names = {} /\ group_filter = NULL
          \/ \E j \in Taken : Names = {j} /\ group_filter = argv[j]
      BY DEF LoopHead
    <2>3. CASE argv[i] \in Options
      BY <1>1, <2>1, <2>2, <2>3
    <2>4. CASE argv[i] \notin Options
      <3>1. \A j \in Taken : argv[j] # NULL
        <4>1. Taken \subseteq 1..Len(argv)
          BY DEF Taken
        <4>2. QED
          BY <4>1, ArgFacts, InventoryAssumption
      <3>2. Names = {} /\ i \in Taken'
        BY <1>1, <2>2, <2>4, <3>1
      <3>3. QED
        BY <2>1, <2>4, <3>2
    <2>5. QED
      BY <2>3, <2>4
  <1>11. QED
    BY <1>1, <1>2, <1>3, <1>4, <1>5, <1>6, <1>7, <1>8, <1>9, <1>10 DEF LoopHead, SortAt

\* A turn that takes an option keeps the head of the loop.
LEMMA OptionTurn ==
    ASSUME NodectlInv, LoopHead, pc = "options",
           SetView \/ NoColor \/ AddFilter \/ SetSort \/ SetGroup
    PROVE  pc' = "options" /\ LoopHead'
  <1> USE DEF Goto, At
  <1>1. CASE SetView
    <2>1. /\ argv[i] \in ViewOptions /\ view_mode' = ViewOf(argv[i]) /\ i' = i + 1
          /\ UNCHANGED <<pc, argv, sort_mode, colors_enabled, filter_count, group_filter>>
          /\ i <= Len(argv)
      BY <1>1 DEF SetView
    <2>2. /\ argv[i] \notin {"--filter", "--sort", "--sort=cpu", "--no-color"}
          /\ argv[i] \in Options /\ argv[i] \notin SortOptions
      BY <2>1 DEF ViewOptions, Options, SortOptions, SortAssignments
    <2>3. Turn
      BY <2>1, <2>2 DEF Turn
    <2>4. QED
      BY <2>1, <2>2, <2>3, TurnKeeps
  <1>2. CASE NoColor
    <2>1. /\ argv[i] = "--no-color" /\ ~colors_enabled' /\ i' = i + 1
          /\ UNCHANGED <<pc, argv, view_mode, sort_mode, filter_count, group_filter>>
          /\ i <= Len(argv)
      BY <1>2 DEF NoColor
    <2>2. argv[i] \in Options /\ argv[i] \notin SortOptions /\ argv[i] \notin ViewOptions
      BY <2>1 DEF ViewOptions, Options, SortOptions, SortAssignments
    <2>3. Turn
      BY <2>1 DEF Turn
    <2>4. QED
      BY <2>1, <2>2, <2>3, TurnKeeps
  <1>3. CASE AddFilter
    <2>1. /\ argv[i] = "--filter" /\ filter_count' = filter_count + 1 /\ i' = i + 2
          /\ UNCHANGED <<pc, argv, view_mode, sort_mode, colors_enabled, group_filter>>
          /\ i <= Len(argv) /\ i < Len(argv) /\ argv[i + 1] \in Exprs
      BY <1>3 DEF AddFilter, FilterTaken
    <2>2. argv[i] \in Options /\ argv[i] \notin SortOptions /\ argv[i] \notin ViewOptions
      BY <2>1 DEF ViewOptions, Options, SortOptions, SortAssignments
    <2>3. Turn
      BY <2>1, NodectlAssumption DEF Turn
    <2>4. QED
      BY <2>1, <2>2, <2>3, TurnKeeps
  <1>4. CASE SetSort
    <2>1. UNCHANGED <<pc, argv, view_mode, colors_enabled, filter_count, group_filter>> /\ i <= Len(argv)
      BY <1>4 DEF SetSort
    <2>2. \/ /\ argv[i] = "--sort" /\ i < Len(argv) /\ argv[i + 1] \in SortModes
             /\ sort_mode' = argv[i + 1] /\ i' = i + 2
          \/ /\ argv[i] \in SortAssignments /\ AssignedMode(argv[i]) \in SortModes
             /\ sort_mode' = AssignedMode(argv[i]) /\ i' = i + 1
      BY <1>4 DEF SetSort, SortTaken
    <2>3. CASE /\ argv[i] = "--sort" /\ i < Len(argv) /\ argv[i + 1] \in SortModes
               /\ sort_mode' = argv[i + 1] /\ i' = i + 2
      <3>1. argv[i] \in Options /\ argv[i] \in SortOptions /\ argv[i] \notin ViewOptions
        BY <2>3 DEF ViewOptions, Options, SortOptions, SortAssignments
      <3>2. Turn
        BY <2>1, <2>3 DEF Turn, SortModes
      <3>3. sort_mode' = SortAt(i)
        BY <2>3 DEF SortAt
      <3>4. QED
        BY <2>1, <2>3, <3>1, <3>2, <3>3, TurnKeeps
    <2>4. CASE /\ argv[i] \in SortAssignments /\ AssignedMode(argv[i]) \in SortModes
               /\ sort_mode' = AssignedMode(argv[i]) /\ i' = i + 1
      <3>1. /\ argv[i] \in Options /\ argv[i] \in SortOptions /\ argv[i] \notin ViewOptions
            /\ argv[i] \notin {"--filter", "--sort", "--no-color"}
        BY <2>4 DEF ViewOptions, Options, SortOptions, SortAssignments
      <3>2. argv[i] # "--sort=cpu"
        BY <2>4 DEF AssignedMode, SortModes
      <3>3. Turn
        BY <2>1, <2>4, <3>1 DEF Turn
      <3>4. sort_mode' = SortAt(i)
        BY <2>4, <3>1 DEF SortAt
      <3>5. QED
        BY <2>1, <3>1, <3>2, <3>3, <3>4, TurnKeeps
    <2>5. QED
      BY <2>2, <2>3, <2>4
  <1>5. CASE SetGroup
    <2>1. /\ argv[i] \notin Options /\ group_filter = NULL /\ group_filter' = argv[i] /\ i' = i + 1
          /\ UNCHANGED <<pc, argv, view_mode, sort_mode, colors_enabled, filter_count>>
          /\ i <= Len(argv)
      BY <1>5 DEF SetGroup
    <2>2. /\ argv[i] \notin SortOptions /\ argv[i] \notin ViewOptions
          /\ argv[i] \notin {"--filter", "--sort", "--sort=cpu", "--no-color"}
      BY <2>1 DEF ViewOptions, Options, SortOptions, SortAssignments
    <2>3. Turn
      BY <2>1, <2>2 DEF Turn
    <2>4. QED
      BY <2>1, <2>2, <2>3, TurnKeeps
  <1>6. QED
    BY <1>1, <1>2, <1>3, <1>4, <1>5

\* The loop gives up only on a command line that is not of the documented form.
LEMMA UsageRight ==
    ASSUME NodectlInv, LoopHead, Usage
    PROVE  ~WellFormed
  <1>1. i \in 2..Len(argv) /\ Len(argv) \in Nat /\ ~Value(i) /\ argv # <<>>
    <2>1. i <= Len(argv)
      BY DEF Usage, At
    <2>2. QED
      BY <2>1, ArgFacts DEF LoopHead
  <1>2. \A S : argv[i] \in S => i \in Given(S)
    BY <1>1 DEF Given
  <1>3. CASE argv[i] = "--filter" /\ ~FilterTaken
    <2>1. i \in Given({"--filter"})
      BY <1>2, <1>3
    <2>2. CASE filter_count < MaxFilters
      BY <1>1, <1>3, <2>1, <2>2 DEF FilterTaken, WellFormed
    <2>3. CASE ~(filter_count < MaxFilters)
      <3> DEFINE A == Seen({"--filter"})
                 B == A \cup {i}
                 G == Given({"--filter"})
      <3>1. G \subseteq 1..Len(argv) /\ A \subseteq 1..Len(argv) /\ B \in SUBSET G /\ i \notin A
        <4>1. G \subseteq 2..Len(argv) /\ A \subseteq G /\ i \notin A
          BY DEF Given, Seen, Taken
        <4>2. QED
          BY <2>1, <4>1
      <3>2. IsFiniteSet(G) /\ Cardinality(G) \in Nat /\ IsFiniteSet(A) /\ Cardinality(A) \in Nat
        BY <1>1, <3>1, PlacesFinite
      <3>3. Cardinality(A) = filter_count
        BY DEF LoopHead
      <3> HIDE DEF A, G
      <3>4. Cardinality(B) = Cardinality(A) + 1
        BY <3>1, <3>2, FS_AddElement
      <3>5. Cardinality(B) <= Cardinality(G)
        BY <3>1, <3>2, FS_Subset
      <3>6. Cardinality(G) > MaxFilters
        BY <2>3, <3>2, <3>3, <3>4, <3>5, NodectlAssumption
      <3>7. ~(Cardinality(G) <= MaxFilters)
        BY <3>2, <3>6, NodectlAssumption
      <3>8. QED
        BY <1>1, <3>7 DEF WellFormed, G
    <2>4. QED
      BY <2>2, <2>3
  <1>4. CASE argv[i] = "--sort" /\ ~SortTaken
    <2>1. i \in Given({"--sort"})
      BY <1>2, <1>4
    <2>2. QED
      BY <1>1, <1>4, <2>1 DEF SortTaken, WellFormed
  <1>5. CASE argv[i] \in SortAssignments /\ AssignedMode(argv[i]) \notin SortModes
    <2>1. argv[i] = "--sort=cpu"
      BY <1>5 DEF SortAssignments, AssignedMode, SortModes
    <2>2. i \in Given({"--sort=cpu"})
      BY <1>2, <2>1
    <2>3. QED
      BY <1>1, <2>2 DEF WellFormed
  <1>6. CASE argv[i] \notin Options /\ group_filter # NULL
    <2>1. PICK j \in Taken : Names = {j}
      BY <1>6 DEF LoopHead
    <2>2. j \in Positional /\ i \in Positional /\ j # i
      BY <1>1, <1>6, <2>1 DEF Names, Taken, Positional
    <2> DEFINE P == Positional
    <2>3. P \subseteq 1..Len(argv)
      BY DEF Positional
    <2> HIDE DEF P
    <2>4. IsFiniteSet(P) /\ Cardinality(P) \in Nat
      <3>1. IsFiniteSet(P)
        BY <1>1, <2>3, PlacesFinite
      <3>2. QED
        BY <3>1, FS_CardinalityType
    <2>5. IsFiniteSet({j}) /\ Cardinality({j}) = 1 /\ i \notin {j}
      BY <2>2, FS_Singleton
    <2>6. Cardinality({j} \cup {i}) = 2 /\ IsFiniteSet({j} \cup {i})
      BY <2>5, FS_AddElement
    <2>7. {j} \cup {i} \in SUBSET P
      BY <2>2 DEF P
    <2>8. 2 <= Cardinality(P)
      BY <2>4, <2>6, <2>7, FS_Subset
    <2>9. ~(Cardinality(Positional) <= 1)
      BY <2>4, <2>8 DEF P
    <2>10. QED
      BY <1>1, <2>9 DEF WellFormed
  <1>7. QED
    BY <1>3, <1>4, <1>5, <1>6 DEF Usage, At

LEMMA LoopStep ==
    ASSUME NodectlInv, LoopInv, ReadOptions
    PROVE  LoopInv'
  <1>1. CASE NoCommand
    BY <1>1 DEF NoCommand, LoopInv
  <1>2. CASE Command
    <2>1. pc = "start" /\ argv # <<>> /\ argv' = argv /\ Defaults
          /\ UNCHANGED <<view_mode, sort_mode, colors_enabled, filter_count, group_filter>>
      BY <1>2 DEF Command, LoopInv
    <2>2. CASE argv[1] \in {"status", "watch"}
      <3>1. pc' = "options" /\ i' = 2
        BY <1>2, <2>2 DEF Command
      <3>2. i' \in 2..Len(argv') + 1 /\ ~Value(i)'
        <4>1. Len(argv) \in Nat /\ Len(argv) # 0
          BY <2>1, ArgFacts
        <4>2. QED
          BY <2>1, <3>1, <4>1 DEF Value
      <3>3. Taken' = {}
        BY <3>1 DEF Taken
      <3>4. Names' = {} /\ \A S : Seen(S)' = {}
        BY <3>3 DEF Names, Seen
      <3>5. LoopHead'
        BY <2>1, <2>2, <3>2, <3>4, FS_EmptySet DEF LoopHead, Defaults
      <3>6. QED
        BY <3>1, <3>5 DEF LoopInv
    <2>3. CASE argv[1] \notin {"status", "watch"}
      <3>1. pc' = "usage"
        BY <1>2, <2>3 DEF Command
      <3>2. ~WellFormed'
        BY <2>1, <2>3 DEF WellFormed
      <3>3. QED
        BY <3>1, <3>2 DEF LoopInv
    <2>4. QED
      BY <2>2, <2>3
  <1>3. CASE SetView \/ NoColor \/ AddFilter \/ SetSort \/ SetGroup
    <2>1. pc = "options"
      BY <1>3 DEF SetView, NoColor, AddFilter, SetSort, SetGroup, At
    <2>2. QED
      BY <1>3, <2>1, OptionTurn DEF LoopInv
  <1>4. CASE Usage
    <2>1. pc = "options" /\ pc' = "usage" /\ argv' = argv
      BY <1>4 DEF Usage, At, loop
    <2>2. ~WellFormed
      BY <1>4, <2>1, UsageRight DEF LoopInv
    <2>3. WellFormed' <=> WellFormed
      BY <2>1 DEF WellFormed, Given, Positional, Value
    <2>4. QED
      BY <2>1, <2>2, <2>3 DEF LoopInv
  <1>5. CASE OptionsEnd
    BY <1>5 DEF OptionsEnd, LoopInv
  <1>6. QED
    BY <1>1, <1>2, <1>3, <1>4, <1>5 DEF ReadOptions

\* Every turn of the loop does what the argument under it asks for.
THEOREM NodectlLoop == Spec => []LoopInv
  <1>1. Init => LoopInv
    BY DEF Init, LoopInv, Defaults
  <1>2. NodectlInv /\ LoopInv /\ [Next]_vars => LoopInv'
    <2> SUFFICES ASSUME NodectlInv, LoopInv, [Next]_vars
                 PROVE  LoopInv'
      OBVIOUS
    <2>1. CASE ReadOptions
      BY <2>1, LoopStep
    <2>2. CASE LoadNodes \/ NodesLoaded \/ Render
      <3>1. pc' \notin {"start", "options", "usage"}
        BY <2>2 DEF LoadNodes, NodesLoaded, Render, RenderTable, FetchNode, PrintView, NextRound
      <3>2. QED
        BY <3>1 DEF LoopInv
    <2>3. CASE UNCHANGED vars
      <3>1. UNCHANGED <<pc, argv, i, view_mode, sort_mode, colors_enabled, filter_count, group_filter>>
        BY <2>3 DEF vars, loop, options
      <3>2. WellFormed' <=> WellFormed
        BY <3>1 DEF WellFormed, Given, Positional, Value
      <3>3. LoopHead' <=> LoopHead
        <4>1. Taken' = Taken
          BY <3>1 DEF Taken, Value
        <4>2. Names' = Names /\ \A S : Seen(S)' = Seen(S)
          BY <3>1, <4>1 DEF Names, Seen
        <4>3. \A k : SortAt(k)' = SortAt(k)
          BY <3>1 DEF SortAt
        <4>4. QED
          BY <3>1, <4>1, <4>2, <4>3 DEF LoopHead, Value
      <3>4. QED
        BY <3>1, <3>2, <3>3 DEF LoopInv, Defaults
    <2>4. QED
      BY <2>1, <2>2, <2>3 DEF Next, Returned
  <1>3. QED
    BY <1>1, <1>2, NodectlInvariant, PTL DEF Spec

\* The option loop gives up exactly on the command lines that are not of the
\* documented form, and reads the others as a whole.
THEOREM NodectlOptionsAsTyped == Spec => []OptionsAsTyped
  <1>1. NodectlInv /\ LoopInv => OptionsAsTyped
    <2> SUFFICES ASSUME NodectlInv, LoopInv
                 PROVE  OptionsAsTyped
      OBVIOUS
    <2>1. pc = "usage" => ~WellFormed
      BY DEF LoopInv
    <2>2. ASSUME pc = "options", i > Len(argv)
          PROVE  /\ WellFormed
                 /\ view_mode = LastGiven(ViewOptions, LAMBDA k : ViewOf(argv[k]), "default")
                 /\ sort_mode = LastGiven(SortAssignments \cup {"--sort"},
                                          LAMBDA k : IF argv[k] = "--sort" THEN argv[k + 1]
                                                     ELSE AssignedMode(argv[k]), "state")
                 /\ filter_count = Cardinality(Given({"--filter"}))
                 /\ colors_enabled <=> Given({"--no-color"}) = {}
                 /\ IF Positional = {} THEN group_filter = NULL
                    ELSE \A k \in Positional : group_filter = argv[k]
      <3>1. LoopHead
        BY <2>2 DEF LoopInv
      <3>2. i \in Int /\ Len(argv) \in Nat
        BY <3>1, ArgFacts DEF LoopHead
      <3>3. Taken = {k \in 2..Len(argv) : ~Value(k)}
        BY <2>2, <3>2 DEF Taken
      <3>4. /\ \A S : Seen(S) = Given(S)
            /\ Names = Positional
        BY <3>3 DEF Seen, Given, Names, Positional
      <3>5. Cardinality(Positional) <= 1
        <4>1. CASE Names = {}
          BY <3>4, <4>1, FS_EmptySet
        <4>2. CASE \E j \in Taken : Names = {j}
          BY <3>4, <4>2, FS_Singleton
        <4>3. QED
          BY <3>1, <4>1, <4>2 DEF LoopHead
      <3>6. Cardinality(Given({"--filter"})) <= MaxFilters
        <4>1. Cardinality(Given({"--filter"})) = filter_count
          BY <3>1, <3>4 DEF LoopHead
        <4>2. filter_count \in 0..MaxFilters
          BY DEF NodectlInv, TypeOK
        <4>3. QED
          BY <4>1, <4>2, NodectlAssumption
      <3>7. WellFormed
        BY <3>1, <3>4, <3>5, <3>6 DEF LoopHead, WellFormed
      <3>8. view_mode = LastGiven(ViewOptions, LAMBDA k : ViewOf(argv[k]), "default")
        BY <3>1, <3>4 DEF LoopHead, LastGiven
      <3>9. sort_mode = LastGiven(SortAssignments \cup {"--sort"},
                                  LAMBDA k : IF argv[k] = "--sort" THEN argv[k + 1]
                                             ELSE AssignedMode(argv[k]), "state")
        BY <3>1, <3>4 DEF LoopHead, LastGiven, SortOptions, SortAt
      <3>10. /\ filter_count = Cardinality(Given({"--filter"}))
             /\ colors_enabled <=> Given({"--no-color"}) = {}
             /\ IF Positional = {} THEN group_filter = NULL
                ELSE \A k \in Positional : group_filter = argv[k]
        BY <3>1, <3>4 DEF LoopHead
      <3>11. QED
        BY <3>7, <3>8, <3>9, <3>10
    <2>3. QED
      BY <2>1, <2>2 DEF OptionsAsTyped
  <1>2. QED
    BY <1>1, NodectlInvariant, NodectlLoop, PTL
=============================================================================
