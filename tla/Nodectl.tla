------------------------------ MODULE Nodectl -------------------------------
(***************************************************************************)
(* nodectl from its command line to its exit (main in cli.c): the option   *)
(* loop, the inventory (module Inventory), and then, once in status mode   *)
(* and round after round in watch mode, the view asked for.                *)
(*                                                                         *)
(* The five detail views fetch one node after the other, parse and count   *)
(* here.  How one fetch goes is module Fetch; the default table, with its  *)
(* workers, filters and order, is Fetch and Display.                       *)
(***************************************************************************)
EXTENDS Inventory

CONSTANTS
    Argvs,      \* command lines, without the program's name
    Exprs,      \* the expressions parse_filter accepts (module Display)
    MaxFilters, \* MAX_FILTERS
    Answers     \* what a fetch may end with: [state, body]

SortModes  == {"host", "resp", "state"}
Views      == {"default", "cpu", "mem", "disk", "net", "debug"}
FetchState == {"OK", "TIMEOUT", "DNS_ERROR", "CONNECT_ERROR", "HTTP_ERROR", "IO_ERROR"}

\* The body of an answer: no JSON, some of the view's keys, all of them but the
\* last number cut short, all, all with every CPU counter at zero.
Body == {"none", "part", "keys", "whole", "zero"}

ASSUME NodectlAssumption ==
    /\ \A a \in Argvs : a \in Seq(STRING)
    /\ \A e \in Exprs : e \notin {"--filter", "--sort"}  \* parse_filter knows no such field
    /\ MaxFilters \in Nat
    /\ Answers \subseteq [state : FetchState, body : Body]

VARIABLES
    pc,         \* "start", "options", "load", "render", "print"; how main returned:
                \* "usage", "no nodes" or "done"
    argv, i,    \* the command line and the index of the option loop
    watch_mode, view_mode, sort_mode, colors_enabled, filter_count,
    statuses,   \* rows of the detail view fetched so far
    ok_count, fail_count

loop    == <<argv, i>>
options == <<watch_mode, view_mode, sort_mode, colors_enabled, filter_count>>
loaded  == <<stage, reader, nodes>>
view    == <<statuses, ok_count, fail_count>>
vars    == <<pc, loop, options, group_filter, loaded, view>>

Init ==
    /\ pc = "start"
    /\ argv \in Argvs /\ i = 0
    /\ watch_mode = FALSE
    /\ view_mode = "default"
    /\ sort_mode = "state"
    /\ colors_enabled = TRUE
    /\ filter_count = 0
    /\ group_filter = NULL
    /\ stage = "closed" /\ Idle /\ nodes = <<>>
    /\ statuses = <<>> /\ ok_count = 0 /\ fail_count = 0

-----------------------------------------------------------------------------
(* The option loop.                                                        *)

ViewOptions == {"--cpu", "--mem", "--disk", "--net", "--debug"}
ViewOf(a) == CASE a = "--cpu"  -> "cpu"  [] a = "--mem" -> "mem" [] a = "--disk" -> "disk"
               [] a = "--net"  -> "net"  [] a = "--debug" -> "debug"

\* What begins with --sort=
SortAssignments == {"--sort=host", "--sort=resp", "--sort=state", "--sort=cpu"}
AssignedMode(a) == CASE a = "--sort=host" -> "host" [] a = "--sort=resp" -> "resp"
                     [] a = "--sort=state" -> "state" [] OTHER -> "cpu"

Options == ViewOptions \cup SortAssignments \cup {"--no-color", "--filter", "--sort"}

\* No argument: status of all nodes
NoCommand ==
    /\ pc = "start" /\ argv = <<>>
    /\ pc' = "load"
    /\ UNCHANGED <<loop, options, group_filter, loaded, view>>

Command ==
    /\ pc = "start" /\ argv # <<>>
    /\ IF argv[1] \in {"status", "watch"}
       THEN pc' = "options" /\ i' = 2 /\ watch_mode' = (argv[1] = "watch")
       ELSE pc' = "usage" /\ UNCHANGED <<i, watch_mode>>
    /\ UNCHANGED <<argv, view_mode, sort_mode, colors_enabled, filter_count,
                   group_filter, loaded, view>>

\* The loop is at one of the options S
At(S) == pc = "options" /\ i <= Len(argv) /\ argv[i] \in S

Goto(k) == i' = k /\ UNCHANGED <<pc, argv, watch_mode, loaded, view>>

SetView ==
    /\ At(ViewOptions)
    /\ view_mode' = ViewOf(argv[i])
    /\ Goto(i + 1)
    /\ UNCHANGED <<sort_mode, colors_enabled, filter_count, group_filter>>

NoColor ==
    /\ At({"--no-color"})
    /\ colors_enabled' = FALSE
    /\ Goto(i + 1)
    /\ UNCHANGED <<view_mode, sort_mode, filter_count, group_filter>>

FilterTaken == i < Len(argv) /\ filter_count < MaxFilters /\ argv[i + 1] \in Exprs

\* Mutant: i++ is forgotten, the expression is read again as an argument.
AddFilterOnce ==
    /\ At({"--filter"}) /\ FilterTaken
    /\ filter_count' = filter_count + 1
    /\ Goto(i + 1)
    /\ UNCHANGED <<view_mode, sort_mode, colors_enabled, group_filter>>

AddFilter ==
    /\ At({"--filter"}) /\ FilterTaken
    /\ filter_count' = filter_count + 1
    /\ Goto(i + 2)
    /\ UNCHANGED <<view_mode, sort_mode, colors_enabled, group_filter>>

SortTaken == i < Len(argv) /\ argv[i + 1] \in SortModes

SetSort ==
    /\ \/ At({"--sort"}) /\ SortTaken /\ sort_mode' = argv[i + 1] /\ Goto(i + 2)
       \/ At(SortAssignments) /\ AssignedMode(argv[i]) \in SortModes
          /\ sort_mode' = AssignedMode(argv[i]) /\ Goto(i + 1)
    /\ UNCHANGED <<view_mode, colors_enabled, filter_count, group_filter>>

\* Whatever else, once: a misspelt option too
SetGroup ==
    /\ pc = "options" /\ i <= Len(argv) /\ argv[i] \notin Options
    /\ group_filter = NULL
    /\ group_filter' = argv[i]
    /\ Goto(i + 1)
    /\ UNCHANGED <<view_mode, sort_mode, colors_enabled, filter_count>>

Usage ==
    /\ \/ At({"--filter"}) /\ ~FilterTaken
       \/ At({"--sort"}) /\ ~SortTaken
       \/ At(SortAssignments) /\ AssignedMode(argv[i]) \notin SortModes
       \/ pc = "options" /\ i <= Len(argv) /\ argv[i] \notin Options /\ group_filter # NULL
    /\ pc' = "usage"
    /\ UNCHANGED <<loop, options, group_filter, loaded, view>>

\* The loop is over; nothing reads the command line any more.
OptionsEnd ==
    /\ pc = "options" /\ i > Len(argv)
    /\ pc' = "load"
    /\ argv' = <<>> /\ i' = 0
    /\ UNCHANGED <<options, group_filter, loaded, view>>

ReadOptions == \/ NoCommand \/ Command
               \/ SetView \/ NoColor \/ AddFilter \/ SetSort \/ SetGroup
               \/ Usage \/ OptionsEnd

-----------------------------------------------------------------------------
(* The inventory and the rounds.                                           *)

LoadNodes == /\ pc = "load"
             /\ Load
             /\ UNCHANGED <<pc, loop, options, view>>

NodesLoaded ==
    /\ pc = "load"
    /\ Return
    /\ pc' = IF nodes = <<>> THEN "no nodes" ELSE "render"
    /\ UNCHANGED <<loop, options, view>>

\* The default table is drawn by modules Fetch and Display.
RenderTable ==
    /\ pc = "render" /\ view_mode = "default"
    /\ pc' = "print"
    /\ UNCHANGED <<loop, options, group_filter, loaded, view>>

\* Mutant: the CPU view shows what it finds, like the other views.
HasMetricsAny(a) == a.state = "OK" /\ view_mode # "debug" /\ a.body # "none"

\* parseJsonCpuDetail wants every key and a total
CpuFound(body) == body \in {"keys", "whole"}

\* The parsers of memory, disk and network take what they find
AnyFound(body) == body # "none"

\* The debug view has no such flag
HasMetrics(a) ==
    /\ a.state = "OK"
    /\ CASE view_mode = "cpu"   -> CpuFound(a.body)
         [] view_mode = "debug" -> FALSE
         [] OTHER               -> AnyFound(a.body)

\* fetchStatusWithConnection for the next node, and its row
FetchNode ==
    /\ pc = "render" /\ view_mode # "default"
    /\ Len(statuses) < Len(nodes)
    /\ \E a \in Answers :
         statuses' = Append(statuses, [node |-> nodes[Len(statuses) + 1], state |-> a.state,
                                       has_metrics |-> HasMetrics(a), body |-> a.body])
    /\ UNCHANGED <<pc, loop, options, group_filter, loaded, ok_count, fail_count>>

Counted == {k \in DOMAIN statuses : statuses[k].has_metrics}

\* The counts and the printing; printDebugStatus has no footer.
PrintView ==
    /\ pc = "render" /\ view_mode # "default"
    /\ Len(statuses) = Len(nodes)
    /\ ok_count' = IF view_mode = "debug" THEN 0 ELSE Cardinality(Counted)
    /\ fail_count' = IF view_mode = "debug" THEN 0 ELSE Len(statuses) - Cardinality(Counted)
    /\ pc' = "print"
    /\ UNCHANGED <<loop, options, group_filter, loaded, statuses>>

\* After a pause in watch mode; rows and counts are locals of the view.
NextRound ==
    /\ pc = "print"
    /\ pc' = IF watch_mode THEN "render" ELSE "done"
    /\ statuses' = <<>> /\ ok_count' = 0 /\ fail_count' = 0
    /\ UNCHANGED <<loop, options, group_filter, loaded>>

Render == RenderTable \/ FetchNode \/ PrintView \/ NextRound

Returned == pc \in {"usage", "no nodes", "done"} /\ UNCHANGED vars

Next == ReadOptions \/ LoadNodes \/ NodesLoaded \/ Render \/ Returned

Spec == Init /\ [][Next]_vars

-----------------------------------------------------------------------------
(* What printDebugStatus says of a row.                                    *)

Diagnosis(r) ==
    CASE r.state = "OK"            -> [connect |-> "ok", read |-> "ok"]
      [] r.state = "DNS_ERROR"     -> [connect |-> "dns_error", read |-> "not_attempted"]
      [] r.state = "CONNECT_ERROR" -> [connect |-> "failed", read |-> "not_attempted"]
      [] r.state = "IO_ERROR"      -> [connect |-> "ok", read |-> "io_error"]
      [] r.state = "HTTP_ERROR"    -> [connect |-> "ok", read |-> "ok (parse_error)"]
      [] OTHER                     -> [connect |-> "unknown", read |-> "unknown"]

(* What a command line asks for, read as a whole.                          *)

Value(k) == k > 2 /\ argv[k - 1] \in {"--filter", "--sort"}

\* Arguments in set S that are not the value of the one before
Given(S) == {k \in 2..Len(argv) : argv[k] \in S /\ ~Value(k)}

Positional == {k \in 2..Len(argv) : argv[k] \notin Options /\ ~Value(k)}

WellFormed ==
    argv # <<>> =>
        /\ argv[1] \in {"status", "watch"}
        /\ \A k \in Given({"--filter"}) : k < Len(argv) /\ argv[k + 1] \in Exprs
        /\ \A k \in Given({"--sort"}) : k < Len(argv) /\ argv[k + 1] \in SortModes
        /\ Given({"--sort=cpu"}) = {}
        /\ Cardinality(Given({"--filter"})) <= MaxFilters
        /\ Cardinality(Positional) <= 1

\* The last argument of S, if any, as f reads it
LastGiven(S, f(_), default) ==
    IF Given(S) = {} THEN default ELSE f(Last(Given(S)))

-----------------------------------------------------------------------------
(* Properties.                                                             *)

Status == [node : Node, state : FetchState, has_metrics : BOOLEAN, body : Body]

TypeOK ==
    /\ pc \in {"start", "options", "load", "render", "print", "usage", "no nodes", "done"}
    /\ argv \in Seq(STRING) /\ i \in 0..Len(argv) + 1
    /\ watch_mode \in BOOLEAN
    /\ view_mode \in Views
    /\ sort_mode \in SortModes
    /\ colors_enabled \in BOOLEAN
    /\ filter_count \in 0..MaxFilters
    /\ ReaderTypeOK
    /\ statuses \in Seq(Status) /\ Len(statuses) <= Len(nodes)
    /\ ok_count + fail_count \in 0..Len(nodes)

\* The option loop, which takes arguments from the left and skips values with
\* i++, understands a command line as a whole: it gives up exactly on the lines
\* that are not of the form its usage text gives (cli.c:521), the last view and
\* the last --sort win, every filter is stored, and the one positional argument
\* is the group (cli.c:489-562).  The --sort cpu of README.md:148 is not of
\* that form and is refused: the documents disagree, the code does as the usage
\* text says.
OptionsAsTyped ==
    /\ pc = "usage" => ~WellFormed
    /\ pc = "options" /\ i > Len(argv) =>
         /\ WellFormed
         /\ view_mode = LastGiven(ViewOptions, LAMBDA k : ViewOf(argv[k]), "default")
         /\ sort_mode = LastGiven(SortAssignments \cup {"--sort"},
                                  LAMBDA k : IF argv[k] = "--sort" THEN argv[k + 1]
                                             ELSE AssignedMode(argv[k]), "state")
         /\ filter_count = Cardinality(Given({"--filter"}))
         /\ colors_enabled <=> Given({"--no-color"}) = {}
         /\ IF Positional = {} THEN group_filter = NULL
            ELSE \A k \in Positional : group_filter = argv[k]

\* A detail view no filter was given for has, in every round, one row per node
\* of the inventory's group, in its order.  In any detail view a row with
\* numbers has an answer of this round, in the CPU view one that has every key
\* and a total (its last number may still be cut short: nothing looks at the
\* end of the body), and the footer counts the rows with numbers and the rows
\* of N/A (cli.c:301-447).  What a filter should do to a view is
\* FiltersNarrowViews.
ViewAsAsked ==
    pc = "print" /\ view_mode # "default" =>
        /\ filter_count = 0 => [k \in DOMAIN statuses |-> statuses[k].node] = nodes
        /\ group_filter # NULL => \A k \in DOMAIN nodes : nodes[k].group = group_filter
        /\ \A k \in DOMAIN statuses : statuses[k].has_metrics =>
             /\ Diagnosis(statuses[k]).read = "ok"
             /\ statuses[k].body \notin {"none"} \cup (IF view_mode = "cpu" THEN {"part", "zero"} ELSE {})
        /\ view_mode # "debug" =>
             /\ ok_count = Cardinality({k \in DOMAIN statuses : statuses[k].has_metrics})
             /\ fail_count = Cardinality({k \in DOMAIN statuses : ~statuses[k].has_metrics})
=============================================================================
