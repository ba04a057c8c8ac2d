----------------------------- MODULE Inventory ------------------------------
(***************************************************************************)
(* The inventory loader (loadNodesByGroup and loadNodesByGroupFromYaml in  *)
(* nodes.c): a reader that takes the file one fgets() at a time and keeps  *)
(* what it must remember in three locals.                                  *)
(*                                                                         *)
(* A line is what the code tells apart: its indent, its kind, the name a   *)
(* heading gives, the entry a host line gives.  fgets() reads at most 255  *)
(* bytes: what it returns after a longer line is the rest of that line     *)
(* (cont), which the code cannot know.                                     *)
(***************************************************************************)
EXTENDS Integers, Sequences, FiniteSets

CONSTANTS
    Files,      \* the files there may be: [form, lines], lines as fgets() cuts them
    MaxNodes,   \* MAX_NODES
    NULL        \* the caller's group_filter when every group is wanted

NoGroup == ""        \* no group yet
DefaultPort == 9002  \* NODE_AGENT_DEFAULT_PORT
Ports == 1..65535

\* A host entry: what stands before the last colon, whether there is one, and
\* the number after it (0 when it is not a number).
Entry == [host : STRING, colon : BOOLEAN, port : Int]
Kinds == {"blank", "groups:", "hosts:", "key", "item", "section", "text"}
Line  == [indent : Nat, kind : Kinds, name : STRING, entry : Entry, cont : BOOLEAN]

ASSUME InventoryAssumption ==
    /\ \A f \in Files : f.form \in {"yaml", "ini"} /\ f.lines \in Seq(Line)
    /\ MaxNodes \in Nat \ {0}
    /\ NULL \notin STRING

VARIABLES
    stage,              \* "closed", "reading", "loaded" (fclose) or "failed" (fopen)
    form,               \* "yaml", or "ini" when the file's name says neither .yaml nor .yml
    file,               \* the file, as fgets() will cut it
    at,                 \* fgets() calls that returned something
    group_filter,       \* the group the caller wants, or NULL
    in_groups_section, in_hosts_list, current_group,
    nodes               \* the nodes loaded; their number is count

reader == <<form, file, at, in_groups_section, in_hosts_list, current_group>>

\* What current_group may be: none yet, the name before any section, a heading's
GroupName == {NoGroup, "default"} \cup STRING

Node == [host : STRING, port : Ports, group : GroupName]

\* The reader when no file is open
Idle == /\ form = "yaml"
        /\ file = <<>>
        /\ at = 0
        /\ in_groups_section = FALSE
        /\ in_hosts_list = FALSE
        /\ current_group = NoGroup

\* fopen() and the locals
Open ==
    /\ stage = "closed"
    /\ stage' = "reading"
    /\ \E f \in Files : /\ form' = f.form
                       /\ file' = f.lines
                       /\ current_group' = IF f.form = "yaml" THEN NoGroup ELSE "default"
    /\ UNCHANGED <<at, in_groups_section, in_hosts_list>>
    /\ nodes' = <<>>
    /\ UNCHANGED group_filter

OpenFails ==
    /\ stage = "closed"
    /\ stage' = "failed"
    /\ UNCHANGED <<reader, group_filter, nodes>>

-----------------------------------------------------------------------------
(* One entry.                                                              *)

\* Mutant: the range of the port is not tested.
ParsesAsHostAnyPort(e) == e.colon => e.host # ""

\* parse_host_and_port returns 0
ParsesAsHost(e) == e.colon => e.host # "" /\ e.port \in Ports

NodeOf(e, g) == [host |-> e.host, port |-> IF e.colon THEN e.port ELSE DefaultPort, group |-> g]

Wanted(g) == group_filter = NULL \/ group_filter = g

\* Store the entry of a host line, unless its group is not wanted or it has no
\* host and port.
Store(e) ==
    nodes' = IF Wanted(current_group) /\ e.host # "" /\ ParsesAsHost(e)
             THEN Append(nodes, NodeOf(e, current_group))
             ELSE nodes

-----------------------------------------------------------------------------
(* One line of a YAML file.                                                *)

Groups(l) == l.indent = 0 /\ l.kind = "groups:"

\* Any line at indent 2 that ends with a colon
Heading(l) == in_groups_section /\ l.indent = 2 /\ l.kind \in {"groups:", "hosts:", "key"}

HostsKey(l) == in_groups_section /\ l.indent = 4 /\ l.kind = "hosts:"

HostItem(l) == in_groups_section /\ in_hosts_list /\ l.indent = 6 /\ l.kind = "item"

NextGroup(l) == CASE Groups(l)  -> NoGroup
                  [] Heading(l) -> l.name
                  [] OTHER      -> current_group

YamlLine(l) ==
    /\ in_groups_section' = (in_groups_section \/ Groups(l))
    /\ in_hosts_list' = (HostsKey(l) \/ (in_hosts_list /\ ~Groups(l) /\ ~Heading(l)))
    /\ current_group' = NextGroup(l)
    /\ IF HostItem(l) THEN Store(l.entry) ELSE UNCHANGED nodes

(* One line of the other form: a section or a host.                        *)
IniLine(l) ==
    /\ current_group' = IF l.kind # "section" THEN current_group
                        ELSE IF l.name = "" THEN "default" ELSE l.name
    /\ IF l.kind \in {"blank", "section"} THEN UNCHANGED nodes ELSE Store(l.entry)
    /\ UNCHANGED <<in_groups_section, in_hosts_list>>

\* Mutant: the limit counts the hosts read, those of the other groups too.
MoreHosts == /\ at < Len(file)
             /\ Cardinality({k \in 1..at : file[k].kind \in {"item", "text"}}) < MaxNodes

\* fgets(...) && count < max_nodes
More == at < Len(file) /\ Len(nodes) < MaxNodes

\* One turn of the loop
ReadLine ==
    /\ stage = "reading"
    /\ More
    /\ at' = at + 1
    /\ IF form = "yaml" THEN YamlLine(file[at']) ELSE IniLine(file[at'])
    /\ UNCHANGED <<stage, form, file, group_filter>>

\* fclose()
Close ==
    /\ stage = "reading"
    /\ ~More
    /\ stage' = "loaded"
    /\ UNCHANGED <<reader, group_filter, nodes>>

Load == Open \/ OpenFails \/ ReadLine \/ Close

\* return count, or -1; the file and the locals are gone
Return ==
    /\ stage \in {"loaded", "failed"}
    /\ stage' = "closed"
    /\ form' = "yaml" /\ file' = <<>> /\ at' = 0
    /\ in_groups_section' = FALSE /\ in_hosts_list' = FALSE /\ current_group' = NoGroup
    /\ UNCHANGED <<group_filter, nodes>>

-----------------------------------------------------------------------------
(* What the file says, read as README.md means it.                         *)

\* The lines judged: those read so far, and once the nodes are loaded the whole
\* file, the lines that were never read included
Judged == 1..(IF stage = "loaded" THEN Len(file) ELSE at)

\* The lines that say something: no comments, no blank lines, no second halves
Said == {k \in Judged : file[k].kind # "blank" /\ ~file[k].cont}

\* Line j is the last one before line k that says something
Above(j, k) == j \in Said /\ j < k /\ \A m \in Said : m < k => m <= j

\* "Supports only: groups -> <group> -> hosts -> - <host>" (README.md).  The
\* second half of a line may be anything that is not indented.
DocumentedYaml ==
    /\ \A k \in Judged : file[k].cont => file[k].indent < 2 /\ file[k].kind = "text"
    /\ \A k \in Said :
         \/ (\A j \in Said : k <= j) /\ Groups(file[k])
         \/ \E j \in Said :
              /\ Above(j, k)
              /\ \/ file[k].kind = "key" /\ file[k].indent = 2
                 \/ file[k].kind = "hosts:" /\ file[k].indent = 4 /\ file[j].kind = "key"
                 \/ file[k].kind = "item" /\ file[k].indent = 6 /\ file[j].kind \in {"hosts:", "item"}

\* [group] lines and hosts; a comment must fit in a line.
DocumentedIni ==
    \A k \in Judged : file[k].kind \in {"blank", "section", "text"} /\ ~file[k].cont

Documented == IF form = "yaml" THEN DocumentedYaml ELSE DocumentedIni

\* The last of a set of places
Last(S) == CHOOSE j \in S : \A k \in S : k <= j

\* The group line k belongs to: the one named last above it
Heads(k) == {j \in Said : j < k /\ file[j].kind \in {"key", "section"}}
GroupAt(k) ==
    IF Heads(k) = {} \/ (form = "ini" /\ file[Last(Heads(k))].name = "") THEN "default"
    ELSE file[Last(Heads(k))].name

\* The lines with a host of the group the caller wants
Listed == {k \in Said : /\ file[k].kind \in {"item", "text"}
                        /\ file[k].entry.host # ""
                        /\ file[k].entry.colon => file[k].entry.port \in Ports
                        /\ group_filter \in {NULL, GroupAt(k)}}

\* The node line k stands for, and its place among those listed
NodeAt(k) == [host  |-> file[k].entry.host,
              port  |-> IF file[k].entry.colon THEN file[k].entry.port ELSE DefaultPort,
              group |-> GroupAt(k)]
Rank(k) == Cardinality({j \in Listed : j <= k})

-----------------------------------------------------------------------------
(* Properties.                                                             *)

ReaderTypeOK ==
    /\ stage \in {"closed", "reading", "loaded", "failed"}
    /\ form \in {"yaml", "ini"}
    /\ file = <<>> \/ \E f \in Files : file = f.lines /\ form = f.form
    /\ at \in 0..Len(file)
    /\ in_groups_section \in BOOLEAN
    /\ in_hosts_list \in BOOLEAN
    /\ nodes \in Seq(Node) /\ Len(nodes) <= MaxNodes

\* When a file written as documented, comments and long lines included, is
\* closed, exactly the hosts of the wanted group in the whole file are loaded:
\* each under its own group, with its own port, in file order, and when there
\* are more than MAX_NODES the first MAX_NODES of that group, however many
\* lines and other groups' hosts stand before them: the loop stops neither too
\* early nor too late.  On the way the same holds of the lines read so far
\* (nodes.c:78-139, 162-200).
LoadedAsListed ==
    stage \in {"reading", "loaded"} /\ Documented =>
        /\ Len(nodes) = IF Cardinality(Listed) < MaxNodes THEN Cardinality(Listed) ELSE MaxNodes
        /\ \A k \in Listed : Rank(k) <= MaxNodes => nodes[Rank(k)] = NodeAt(k)
=============================================================================
