----------------------------- MODULE MCNodectl ------------------------------
(* An instance of Nodectl for TLC: command lines of up to eight arguments, *)
(* inventories of up to two groups and six hosts.                          *)
EXTENDS Nodectl

At1(e) == [host |-> e, colon |-> FALSE, port |-> 0]
Port(e, p) == [host |-> e, colon |-> TRUE, port |-> p]
NoEntry == At1("")

L(n, kind, name, e) == [indent |-> n, kind |-> kind, name |-> name, entry |-> e, cont |-> FALSE]
Rest(n, kind, name, e) == [L(n, kind, name, e) EXCEPT !.cont = TRUE]
Comment   == L(0, "blank", "", NoEntry)
GroupsKey == L(0, "groups:", "groups", NoEntry)
Key(n, g) == L(n, "key", g, NoEntry)
Hosts     == L(4, "hosts:", "hosts", NoEntry)
Item(e)   == L(6, "item", "", e)
Words     == Rest(1, "text", "", At1("words"))

\* The hosts of one group: none, one, with a port, ports that are none, an empty
\* item, comments short and long, two and three hosts.
Blocks(a, b) ==
    { <<>>, <<Hosts>>, <<Hosts, Item(At1(a))>>, <<Hosts, Item(Port(a, 9010))>>,
      <<Comment, Hosts, Item(Port(a, 70000)), Item(At1(b))>>,
      <<Hosts, Item(Port("", 9010)), Item(NoEntry), Item(At1(a))>>,
      <<Hosts, Comment, Words, Item(At1(a)), Item(Port(b, 65535))>>,
      <<Hosts, Item(At1(a)), Item(At1(b)), Item(At1(a))>> }

Yaml(t) == [form |-> "yaml", lines |-> t]
Ini(t)  == [form |-> "ini", lines |-> t]
Section(g) == L(0, "section", g, NoEntry)
Host(e)    == L(0, "text", "", e)

Written == { Yaml(<<GroupsKey, Key(2, "HPC")>> \o x \o <<Key(2, "LAB")>> \o y) :
                x \in Blocks("h1", "h2"), y \in Blocks("h1", "h3") }

\* Files no one meant: an unreadable heading, other keys, items with no list,
\* a second groups:, a long line whose second half is a heading or a host.
Odd == { Yaml(<<Comment, Key(0, "other"), Hosts, Item(At1("h1")), GroupsKey, Item(At1("h1"))>>),
         Yaml(<<GroupsKey, Key(2, "HPC"), Hosts, L(2, "text", "", At1("LAB")), Item(At1("h1"))>>),
         Yaml(<<GroupsKey, Key(2, "HPC"), Hosts, Item(At1("h1")), Key(4, "vars"), Item(At1("h2"))>>),
         Yaml(<<GroupsKey, Key(2, "HPC"), Hosts, GroupsKey, Item(At1("h1")), Hosts, Item(At1("h2"))>>),
         Yaml(<<GroupsKey, Key(2, "HPC"), Hosts, Comment, Rest(2, "key", "LAB", NoEntry),
                Hosts, Item(At1("h1"))>>),
         Yaml(<<GroupsKey, Key(2, "HPC"), Hosts, Comment, Rest(6, "item", "", At1("h2"))>>) }

Plain == { Ini(<<Host(At1("h1")), Comment, Section("HPC"), Host(Port("h2", 9010)), Host(Port("h3", 0))>>),
           Ini(<<Section("HPC"), Host(At1("h1")), Section(""), Host(At1("h2")), Host(At1("h3"))>>),
           Ini(<<Section("LAB"), Host(At1("h1")), Host(Port("", 1)), Host(At1("h2")),
                 Section("HPC"), Host(At1("h3"))>>),
           Ini(<<Comment, Rest(0, "text", "", At1("words"))>>) }

MCFiles == Written \cup Odd \cup Plain

Words3 == {"--cpu", "--mem", "--debug", "--no-color", "--filter", "--sort", "--sort=resp",
           "--sort=cpu", "host", "cpu>50", "cpu", "HPC"}
MCArgvs == { <<>>, <<"help">>, <<"status", "">>, <<"status", "", "HPC">>, <<"--cpu">>, <<"watch", "--disk">>, <<"status", "--net", "HPC">> }
           \cup { <<c>> \o s : c \in {"status", "watch"},
                               s \in UNION { [1..n -> Words3] : n \in 0..3 } }
           \cup { <<"status", "--filter", "cpu>50", "--sort", s>> : s \in {"cpu", "resp"} }
           \cup { <<"status", "--filter", "cpu>50", o, "--filter", "cpu>50">> \o s :
                  o \in {"--cpu", "HPC"}, s \in {<<>>, <<"LAB">>, <<"--filter", "cpu>50">>} }
MCExprs == {"cpu>50"}

MCAnswers == { [state |-> "OK", body |-> b] : b \in Body }
             \cup { [state |-> s, body |-> "none"] : s \in {"TIMEOUT", "HTTP_ERROR"} }

\* The use README.md:150-151 shows, with one of its filters, on one small file
ViewFiles == { Yaml(<<GroupsKey, Key(2, "HPC"), Hosts, Item(At1("h1")), Item(At1("h2"))>>) }
ViewArgvs == { <<c, v>> \o s : c \in {"status", "watch"}, v \in ViewOptions,
                               s \in {<<>>, <<"--filter", "state=OK">>} }
ViewExprs == {"state=OK"}

\* Combined with a detail view, --filter narrows down the nodes displayed: with
\* state=OK, the only filter of this instance, every row shown is of a node that
\* answered (README.md:106-108, 150-151).  The code reads and stores the
\* filters and gives them to the default table only (cli.c:581-602).
FiltersNarrowViews ==
    pc = "print" /\ view_mode # "default" /\ filter_count > 0 =>
        \A k \in DOMAIN statuses : statuses[k].state = "OK"
=============================================================================
