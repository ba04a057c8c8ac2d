# nodestatus in TLA+

TLA+ models of the two programs of this repository, `agent` (a small HTTP
server that publishes a machine's metrics) and `nodectl` (`cli/`, which polls
many agents in parallel and draws a table), the TLC runs that check them and
the theorems about them that TLAPS proves. `PROJECT.json` maps every definition
to the lines it models.

## 1. The system

```
 nodectl                                        agent (one per node)
 options, inventory                             options, start-up
   ▼                                              ▼
 main loop ── render_status_table               server thread ── sampler thread
   │   one worker thread per node                 accept/read/answer   1 s loop
   │   fetch_status_internal ──── TCP, HTTP ────▶  getMetricsSnapshot ◀─ latest_metrics
   │   receive_http_response                        (sampler_lock)        sample_once
   ▼
 filter, count, sort, print                                          /proc files
```

| component | state | operations | module |
|---|---|---|---|
| polling core, `cli/nodes.c`, `cli/cli.c` | descriptors of the process, `connections[i].sockfd`, the locals of one fetch per worker, the rows | one refresh: start workers, each resolves, reuses or opens a socket, connects, sends, receives, perhaps reconnects once; join | `Fetch`, promise in `Poll`, with its agents in `Watch` |
| answer reader, `receive_http_response` | bytes received, `header_end`, `content_length` | one `recv()` and its four outcomes | `Receive` |
| agent sampler, `agent/metrics.c` | `latest_metrics`, `last_sample_ms`, `sampler_running`, `sampler_thread`, `sampler_lock` | init, loop, sample, snapshot, stop | `Sampler` |
| metrics arithmetic, `agent/metrics.c` | `cpu_prev`, `disk_prev`, `net_prev`, `cpu_ema`, rates of the last sample | one sample | `Counters` |
| agent start-up and server, `agent/agent.c`, `agent/http.c` | current connection, listen queue, request buffer | options, start-up, accept, read, answer, close | `AgentServer` |
| table, `cli/cli.c`, `cli/table.c` | filters, rows, counts | parse a filter, make rows of answers, filter, count, sort | `Display` |
| inventory loader, `cli/nodes.c:13-205` | group, section, count | one `fgets()` | `Inventory` |
| options of `nodectl`, `cli/cli.c:477-574` | mode, view, sort, group, filters | one argument | `Nodectl` |
| detail views, `cli/cli.c:301-475`, `cli/table.c:151-467` | rows of one view, counts | fetch in sequence, parse, count, the next round | `Nodectl` |
| printing, colours, JSON text | - | layout and formatting | not modelled |

Interactions. Workers share the process's descriptor table and nothing else:
each has its own row and its own `sockfd` slot, but a *number* that is closed
and remembered can come to mean somebody else's socket. Main and workers meet at
`pthread_join`. Server thread and sampler thread share `latest_metrics` under a
lock, `sampler_running` without one, and the previous counters not at all, by
virtue of never being in `sample_once` together. `nodectl` and the agent meet on
a connection that either side may end, and that `watch` keeps across refreshes.

What is hard, and what makes each component correct:

* **Polling core** - connections kept across refreshes, closed by the other side
  in between; a reconnect in the middle of a loop over addresses, by `goto`;
  late answers; descriptor numbers reused by other threads; any call may fail. A
  row must be this node's answer to this refresh, or a failure; nothing may leak
  in a program that runs for days; every fetch must end, or the table hangs; one
  trouble with an agent must not show.
* **Both ends together** - connections a worker has given up lie in the agent's
  queue, some with a request nobody waits for; their numbers live on as others.
  The agent must come to the right one and be left with no end that is another's.
* **Answer reader** - TCP cuts answers anywhere and a kept connection does not
  end; the buffer has a last byte. What is returned is whole, or all there was;
  an answer that fits and arrives is returned.
* **Sampler** - a structure copied while it is read, a clock read before a lock,
  a thread started after the first sample and joined before the next start.
* **Counters** - the kernel's counters restart and go back; devices are listed
  twice, come and go; a sample may come 1 ms after another. No transfer is
  counted twice, a share is a percentage, idle time is not reported busy.
* **Agent server** - one thread, connections that stay. Answers belong to their
  requests; a kept connection is not dropped; a queued one is served.
* **Table** - three comparison functions given to `qsort`, rows of failed nodes
  with zeros in them, filters that compare them. The order is one, and the same
  every time; the footer speaks of the rows above it.
* **Inventory** - locals that outlive the line that set them, lines cut in two, a
  limit tested after the read. Exactly the hosts of the wanted group are loaded.
* **Options and views** - a loop that skips values with `i++`; five views that
  fetch, parse and count each for itself. The command line is understood as a
  whole; a view has a row per node, and a footer that counts them.

## 2. The modules

**Poll** is what the table promises its reader, without a socket in it: a refresh
starts when the last one has all its rows; each node gets one row, once; a row
is a failure or this node's answer to this refresh.

**Fetch** is `render_status_table`, `query_node` and `fetch_status_internal`. A
step is one system call of one worker with the code up to the next, or a step of
an agent. `pc[w]` is where worker `w` is; `sock`, `tried`, `addrs`, `last` are
its `sockfd`, `attempted_reconnect`, the rest of its address list and
`last_state`; `psock[w]` is `*persistent_sockfd`; `row[w]` its `NodeStatus`.
`link`, `peer`, `reqs` and `inbox` are the kernel's side of each descriptor: the
state of its socket, who is at the other end, what is on its way. `close`,
`socket` (lowest free number) and the agents are external. The shared error
paths are operators: `NextAddr` (close, remember a state, `continue`),
`Reconnect` (close, `goto`), `Broken` (one or the other), `Return`. `Faults`
names what may go wrong; each fault is a way the environment may behave that the
code has a branch for. `pthread_create` failing makes `query_node` run in the main
thread, which is one of the interleavings.

**Watch** EXTENDS Fetch and gives it its agents: the two loops of `socketServer`,
a listen queue, and an agent that may be restarted or late (`troubles`, bounded).
`cur[a]` and `backlog[a]` are the agent's ends of connections; `Seen` says what
becomes of them when a worker closes. `hurt[w]` is history: how many troubles
the fetch of `w` has met. Time is one rule, `Timely`: an agent that is not late
goes on before anyone times out. Its steps are those of Fetch with more said about
them, so Fetch's theorems hold of it as they stand; nothing is claimed by that.

**Receive** is the loop of `receive_http_response` with text as lengths: an answer
is where its blank line ends, what its `Content-Length` says and how long its
body is. How much of it arrives, in which pieces, and what follows (close, reset,
silence) is chosen freely. Fetch has its outcomes as `Receive`, `ReceiveEof` and
`ReceiveFails`.

**Sampler** has one action per stretch of code between two things another thread
can see: the clock, the unlocked counters, lock, the first and the second half of
`latest_metrics = sampled`, unlock. The server's copy has two halves as well.
A sample is named by the time it was taken at. The server may init, take
snapshots, stop and init again, although today's `socketServer` never reaches
its `stopMetricsSampler`: the functions are `metrics.h`'s interface.

**Counters** is the content of a sample: `sample_once` is one step of it (`Sampler`
shows that it has one user). Kernel counters, devices and time are external and
move freely; `window` and `truth` are history, what really moved since each
file was last read. `Routes` are the ways of a transfer: a block is counted by one
disk, and perhaps by a partition of it and by devices mapped there; a packet by every
interface it passes, a VLAN and the device below it both. What is right to publish
(`Passed`) is a block once and a packet once per interface other than `lo`, because
that is what `read_net_dev_totals` adds up: traffic through a VLAN, a bond or a bridge
is shown twice, and the model says so. Arithmetic on `unsigned long long` is modulo `Word`. The total
of a file is the number of its units (`Units`), the lines' counters laid side by side:
the sum the code builds line by line, in a form that can be reasoned about. Floats
are integers here: a share is rounded down, the moving average as well.

**AgentServer** is `main` and `socketServer`: the option loop, one disjunct per kind
of argument (`Help`, `SetPort`, `Invalid`, `OptionsEnd`), then the start-up, one action per
call (`StartSampler`, `OpenListener`, `SetReuse`, `Bind`, `Listen`) with `ListenerFails` for
the three paths that close the socket again, then the two loops with the listen queue
and the clients. `PortTexts` and `Assigned` are what `parse_port_value` accepts and what
follows `--port=`. A start-up that fails after its first call leaves the sampler thread
running; `main` then returns. The comment at `agent.c:57` calls a failing `setsockopt` not critical,
*so we can continue*; the code returns 1. A read takes all that has arrived for one
request, as the code does, and the path is looked for in the whole of it; a
client in `Split` may have its request delivered in two pieces, cut at the four
places that make a difference. Clients ask again only after an answer, as
`nodectl` does, and may give up.

**Display** goes from options and answers to the printed order. `HostName` is the name
each node is shown under, and two nodes may have one: the loader accepts a host listed
twice and `cli.c:77` cuts a long name. `sort_mode` and
`typed` filters come from `main`, answers from the fetch; `apply_filters` is one
step per row. Numbers are integers: latencies in ms, load and cpu in hundredths;
`cpu` stands for mem and disk, whose code is the same. `qsort` is any permutation
in which no row compares greater than a later one.

**Inventory** is the loader, one action per `fgets()`. A line is what the code tells
apart: its indent, its kind, the name a heading gives, the entry of a host; `cont`
marks the second half of a line longer than 255 bytes, which the code cannot
know. `in_groups_section`, `in_hosts_list`, `current_group`, `nodes` are the
function's locals and result; `NULL` is the caller's `group_filter` when there is
none, which is not the group `""` that an empty argument asks for. `More` is the condition of the
loop, `Close` its end and `Return` what the caller is given. `Listed`, `GroupAt`,
`NodeAt` and `Rank` are the other reading of a file, the one README.md means: which
lines have a host that is wanted, for each the group named last above it, and its
place among them. They read the lines `Judged`: those read so far, and once the nodes
are loaded the whole file, the part `fgets()` never came to included.

**Nodectl** EXTENDS Inventory with the rest of `main`: the option loop, one action per
option, then the load, then once or round after round a view. The five detail
views fetch one node after the other; `HasMetrics` is what each one's parser wants
of a body: the parser of the CPU view wants every key and a total, and like all of them
does not look for the end of the text, so a last number cut short passes. The default
table's round is one step here; it is Fetch and Display.

An `MC` module gives each component its instances. Operators whose comment begins
with *Mutant* are plausible wrong versions of the definition after them, one for
every checked property; `PROJECT.json` pairs them, and each makes TLC find its
property violated.

## 3. The runs

| run | instance | shows |
|---|---|---|
| `fetch_watch` | watch mode, 2 nodes, 2 descriptors, 2 addresses, 2 refreshes, all faults but `retry_dns` | types, `IInv`, `DescriptorsAccounted`, `OwnConnection`, `RowsOwnAndFresh`, refinement of `Poll`, `FetchTerminates` |
| `watch` | 2 nodes and their 2 agents, 2 refreshes, 3 troubles, queue of two | `EndsAgree`, `OneTroubleHidden`, `FetchTerminates` |
| `fetch_retry_dns` | the second resolution may fail | **violated**: a row shows another node's numbers |
| `fetch_connect_error` | one node, status mode, agent closes early | **violated**: a read failure recorded as `CONNECT_ERROR` |
| `watch_shared` | two entries of the inventory, one agent, never late | **violated**: the second worker waits in vain |
| `receive` | buffer of 10 bytes; answers of 4 to 12 bytes, lengths right, wrong and absent | types, `LoopInv`, whole or closed, fitting answers returned, `Terminates` |
| `sampler` | 2 starts, 5 ticks, interval 2 | types, `SamplerInv` (the lock's protocol, age, readiness), one user of the counters, whole and advancing snapshots, stop returns |
| `counters` | 2 disks, one of them pluggable, a partition, a volume mapped on it, loopback, an interface and a VLAN on it; 3 ticks, 2 transfers | types, `RateTrue`, `ShareIsPercent`, `BusyIsReal` |
| `agent` | some 260 command lines of up to five words, a start-up that may fail at each call, 2 kept connections, one cut in pieces, queue of one, 2 requests each | types, `AnswersMatch`, `KeptAlive`, `ListensAsTold`, `BacklogServed` |
| `display` | 3 nodes, two of one name, 11 outcomes each, 10 expressions, 3 sort modes | types, the orders are orders, only rows of one name tie, footer, state filters, response order |
| `nodectl` | some 3800 command lines of up to eight words, inventories of two groups in both forms, 2 nodes kept, 2 filters, every outcome of a fetch | types, `OptionsAsTyped`, `LoadedAsListed`, `ViewAsAsked` |
| `nodectl_views` | one inventory of two nodes, the five detail views, `--filter state=OK` or none | **violated**: a filtered view shows a failed node |

Why these bounds. A confusion of connections needs two workers and one refresh
after the one that leaves something behind: two nodes and two refreshes. Two
addresses make the loop, and a reconnect inside it, real. With as many
descriptors as workers a number freed by one is the number the other gets;
a full table is met through the fault `socket` (`socket()` may fail at any time).
In `watch`, a fetch reconnects once, so two troubles break it and a third meets
the next refresh; `Backlog = 1` lets Linux queue two connections, an abandoned one
and its successor. Two samplers are one stop and one restart. Two requests per
connection are a first and a kept one; both clients of `agent` ask to be kept, so
what `KeptAlive` says of the others rests on its theorem. Three words are an option, its
value and what follows. Three rows are what transitivity talks
about; one filter of ten is enough because filters are a conjunction evaluated
row by row, and two names for three nodes make rows of one name and of two. In `counters`, `MinWindow` is 2 ticks, so windows are too short, just
long enough and longer; two transfers distinguish counted once from twice. In
`receive` the buffer's last byte lies inside the range of answer lengths. In
`nodectl`, three words after the command are an option, its value and what
follows it; the longer lines reach the filters' limit; three hosts are one more
than `MaxNodes`, in one group and across two, so that the loop ends at the limit with
lines unread, and before it with another group's hosts above those wanted.

Fairness. `Fetch`: workers run (the scheduler) and main starts the next refresh.
Nothing is asked of the agents, not even that they answer; a worker that waits for
one that is silent goes on because `SO_RCVTIMEO` ends the wait (the fault
`recv_timeout`, present in the run that checks `FetchTerminates`). `Watch`:
workers, the main thread and the agents' server threads run; nobody has to
restart or be late. `Sampler`: threads run, time passes, and a thread
that finds the mutex free again and again gets it (strong fairness on the two
acquisitions, which POSIX mutexes give in practice and promise weakly); nothing is
assumed of the server's wish to start, copy or stop. `AgentServer`: the server
thread runs, clients that have something to ask do, and every client closes in the
end; finding 3 is what happens when one does not. `Receive`: `recv()` returns
(data, end, error or timeout). The others are checked for safety only.

Deadlock is checked except in the `agent` run: when all clients have gone the
agent waits in `accept()`, as it should.

### Findings

1. **A descriptor remembered after its close** (`nodes.c:366`, run
   `fetch_retry_dns`). The reconnect path closes the kept socket and jumps to the
   name resolution without clearing `*persistent_sockfd`. If that resolution
   fails the number stays; at the next refresh it may be another worker's socket.
   A row can then show another node's numbers.
2. **A read failure reported as a connection failure** (`nodes.c:458`, run
   `fetch_connect_error`). An agent that closes before its first byte leaves
   `last_state` at `CONNECT_ERROR`; `--debug` says *connect: failed, read:
   not_attempted*.
3. **The backlog is not served behind a kept connection** (`agent.c:92`, run
   `watch_shared`). A host listed twice times out in the table while its agent is
   up and prompt: its one thread stays with the first worker's idle connection. A
   second `nodectl watch` fares the same.
4. **Detail views ignore the filters** (`cli.c:584`, run `nodectl_views`).
   README.md:150-151 combines `--cpu` with `--filter 'state=OK'`; `main` parses and stores
   the filters and gives them to the default table only.
5. **`--sort cpu` is documented and refused** (`cli.c:538`, run `nodectl`). README.md:147-148
   shows it; the usage text and `parse_sort_mode` know `host`, `resp` and `state`. The
   command line is among those of the run, and `OptionsAsTyped`, which follows
   the usage text, holds: `main` does not get past the options with it.

One more thing was met that no run is made of: a numeric filter looks at the numbers
of a row whether it has any or not (`table.c:568-597`). They are zero after a failed fetch,
and `resp` is the time the failure took, so `resp<10`, "Show nodes with fast response times"
(README.md:112), lists a node that refused the connection at once, and `cpu<5` a dead one.
Whether a node that answered fast with something unreadable is one with a fast
response the documentation does not say. `state=OK` beside the numeric filter
excludes both, which `HealthFilters` shows.

## 4. What is proved

Eight proof modules, for every value of the constants.

**FetchProofs.** `FetchTypeCorrect` and `FetchBounded` hold whatever fails. The others
assume `ResolvesAgain`: in watch mode `"retry_dns"` is not among the faults, which
finding 1 shows to be necessary. Status mode needs no such assumption.

`OwnConnection` and `RowsOwnAndFresh` are not inductive: that a worker talks to its
own agent depends on what the *other* workers may close, and that an answer is of
this refresh depends on nothing having been left on the connection. `IInv` says
for each worker which descriptor it is answerable for (`Held`: the one it uses, or
else the one kept for it and not yet given up), that a held descriptor is open and
connected to its worker's agent, that at most the worker's current exchange is
on it (`Wire`), that no two workers hold the same one, and that every open
descriptor is held. The proof has a lemma per action. `QuietInv`, for steps that touch
neither descriptors nor rows, and `LocalStep`, for steps that change one worker and
one descriptor, say once why the others are not disturbed. `FetchDescriptors`,
`FetchOwnConnection` and `FetchRows` follow from `IInv`; `FetchImplementsPoll`
shows each step to be a `Refresh`, a `Fill` or a stutter of `Poll`, with
`AtRest` giving the guard of `Refresh`. Status mode (`Persistent = FALSE`) is
covered by these theorems, and by one small run.

`FetchBounded` is the half of `FetchTerminates` a prover can have: `StepsLeft(w)` counts
the steps a fetch may still take (a reconnect not used is one more round of
addresses); each of its steps makes it smaller, nothing the other threads or the
agents do makes it larger, and it is never more than 10 * `MaxAddrs` + 11. That a
fetch which has steps left can take one (a wait ends, the scheduler runs it) is
what TLC adds.

**WatchProofs.** `WatchEndsAgree` is the invariant the others rest on: that the agents
hold, once each, the other ends of what is open, and that a request being answered is
still there, is kept by every close, reuse, restart and late answer, because of
Fetch's types and of who may close what. `WatchTable` carries Fetch's theorems
over to a system with real agents.

`WatchOneTroubleHidden` is about a fetch from its start to its end. Its invariant
`HurtInv` says, for each worker, that it has reconnected only after a trouble, and
that as long as it has not met two it still has an address to try and what it holds
is open with a good answer in it, but for the first trouble it met and has not
reconnected from. The steps to be afraid of are those of others: a restart of its own
agent (`AgentHurt`, which counts), another worker's close (`OtherHurt`: different
descriptors, from `IInv`), and the agent being stuck behind somebody else's connection
(`NotStuck`, from `EndsAgree`: an open connection an agent reads is its own worker's,
and an abandoned one comes to its end). The theorem assumes
`OnlyTroubles`, without which a fetch may fail for another reason: names resolve,
sockets are to be had (no fewer descriptors than nodes: each worker holds at most
one, so one is free) and take their options, sends are accepted, and each node has
its own agent. Agents that are late or restarted, at any time and any number of times,
are not excluded. `WatchQueuedAnswered` is the other side of finding 3: when no two
nodes share an agent (`AgentEach`), nobody who is connected and has asked times out
because of another client.

**SamplerProofs.** `SamplerInv` ties the lock to the four program points between the
halves of a copy, the sampler thread to the server's being up, and the times
(`latest.ts`, each `now`, `out.ts`) to the order of the clock. `OneSampler`,
`SnapshotWhole`, `ReadyWhenUp`, `AgeSane` and `SnapshotsAdvance` follow.
`SamplerStopBounded` is the provable half of `StopReturns`: once the flag is down the
thread waited for exists, has seven steps to go at most (one sample), comes nearer to
its end with each, and finds the mutex free when it wants it.

**ReceiveProofs.** `LoopInv` says that while the loop runs the answer is not complete:
the blank line has not been seen and fewer bytes than the header are there, or it
has and fewer than header and `Content-Length` are. The properties follow for
any buffer size and any set of answers.

**AgentServerProofs.** `AnswersMatch` is not inductive: an answer could be about a
request read before. `WholeInv`, for a connection whose requests arrive whole, says that
what is on the wire or in the buffer is the one request its client waits for, and
that there is none when the client does not wait; `QueueInv` says that a connection
is queued once, before it is served, and that the one being served is no longer
in the queue.

`AgentListensAsTold` compares `main`'s loop with the command line read as a whole.
`LoopInv` is the reading of the arguments before `i` (`ReadTo`): they are options with a port
each, the last of them wants no value any more, and `port` is the last one named.
`ReadPair` and `ReadOne` are its two turns; `NoHelp` says why a loop that gives up has passed no
request for help, and why none after that argument counts.

**CountersProofs.** `CpuInv` bounds the counters by the ticks there have been, and
thereby keeps the sums below `Word` (assumption: no machine is up for 2^64
ticks); the counters read last are never ahead of the machine's in user time, so
the busy part of a comparable window is a part of it, and the quotient a percentage.

`RateTrue` needs `RateInv`: what a file adds up to now is at most its last reading
plus `window`, what has moved since (`Since`). A transfer adds to the file at most what
it adds to the window: of the devices on a block's way only the whole disk is counted, and
there is one (`RouteLines`, from the naming of partitions); a packet is counted by every
interface but `lo`, and the window grows by as many. A device that goes takes units away, which makes the file look
restarted or hides what moved, and never adds. After a failed reading the window
spans two samples and the time it is divided by only one: that the quotient is the rate
is not claimed. `RateInv` also bounds every total by the
lines there are and the transfers there have been, so that `% Word` is the identity:
the assumption is that no total reaches 2^64.

**DisplayProofs.** Each comparison function is unfolded into nested comparisons
(`ByHost`, `ByResp`, `ByState`) and shown to be antisymmetric and transitive on any
rows, and 0 only between rows of one name and, unless sorted by host, one state and
response time (`TotalOrder`). That is what is left to chance when a host is listed twice:
its two rows may change places in a watched table, and sorted by host that
shows. `DisplayInv` follows the rows from the answers to the screen:
each row shown passes every filter, the counts are those of the rows shown, which
sorting permutes (`SameCount`), and after it no row is greater than a later one. Failed rows
are then a prefix of the table, as long as their number (`FailedOnTop`).

**NodectlProofs.** `NodectlInv` says in which phase what is still empty, that every node
kept is of the group asked for, and that row *k* is of node *k*. `TypeOK` and
`ViewAsAsked` follow; its clause about the rows is for views with no filter, since
what a view does with one is finding 4.

`LoadedAsListed` compares the reader's result with a reading of the file as a whole,
and `ReadInv` connects the two: in a documented file the three locals are functions of
the lines read so far (the group is that of the last heading, `in_hosts_list` says
whether the last line that says something was `hosts:` or an item), and the nodes
are those of the lines listed, by rank. One more line either adds one place to `Listed`,
the last in rank (`LoadedNext`), or none; `SeqMore` and `PlacesFinite` do the counting.
At the end `WholeFile` passes from the lines read to the file (a documented file is so
up to any of its lines, `DocumentedBefore`): the loop has stopped because
nothing is left, or because the first `MaxNodes` listed are among the lines
read, and lines after those take no rank away from them.

`OptionsAsTyped` compares the loop with the command line as a whole in the same
way. `LoopInv` is the reading of the arguments before `i`: no argument taken so far
ends between an option and its value (`LoopHead`), each setting is that of the last
option of its kind, the filters are as many as were given, and the group is the only
other word. `Turn` is what one turn of the loop may do, and `TurnKeeps` shows
once that a turn keeps the reading; each option is then shown to be a turn. That `main`
gives up only on lines that are not well formed is `UsageRight`. It assumes that
neither `--filter` nor `--sort` is an expression `parse_filter` accepts.

Every inductive invariant (`IInv`, `HurtInv`, `SamplerInv`, `LoopInv`, `RateInv`, `ReadInv`
and the others) and both bounds (`StepsLeft`, `Left`) were first checked by TLC on the
instances of section 3.

Only model-checked: liveness under fairness (`FetchTerminates`, `StopReturns`,
`BacklogServed`, `Terminates`). Every other property of the passing runs
is a theorem.

Assumptions on constants are the named `ASSUME`s of the modules; TLC evaluates
them in every run. `NamingAssumption` of `Counters` is how Linux names disks and
partitions, `RouteAssumption` that a block is on one disk; neither restricts network
interfaces. `ArgumentAssumption` of `AgentServer` says that no option is a port or begins
with `--port=`. `DisplayAssumption` leaves names free: any two nodes may share one.

## 5. What is not modelled

* Time, except for the sampler's clock, that a wait may end, and `Timely`;
  latencies are inputs of `Display`.
* Text: JSON, HTTP headers, host names, names longer than their arrays, and how the
  tables are printed and coloured (`table.c:7-106`). Unreachable paths: a port out
  of range (`nodes.c:358`, the loader rejects it) and a request longer than 512
  bytes (`nodes.c:415`).
* Load average and memory of a sample (`metrics.c:78-128`): numbers copied from one
  file, with nothing kept.
* Signals: nothing ignores `SIGPIPE`; a send on a dead connection is an error here.
* A partial `send()` of nodectl's request of some 70 bytes.
* `accept()` that fails: the loop tries again at once (`agent.c:87`), also when the
  process is out of descriptors, which one connection at a time does not bring about.
* Files that are not of the documented form are in the runs, but no property says
  what they should mean.

## 6. What is left

The components that keep state are modelled, and the safety properties the runs
check are proved. What could still be added, by weight:

1. The age of a row end to end: `Sampler`'s snapshot inside `Watch`'s `Respond`, so that
   a row's `ts` never goes back over the refreshes of one agent.
2. `WatchOneTroubleHidden` under weaker assumptions: which of the faults it excludes
   count as troubles, when there are several addresses.
