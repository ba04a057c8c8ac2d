------------------------------- MODULE Watch --------------------------------
(***************************************************************************)
(* `nodectl watch` together with its agents: the workers of module Fetch   *)
(* against the single server thread of each agent (socketServer in         *)
(* agent.c, module AgentServer), which stays with one connection while the *)
(* others wait in its listen queue.  An agent may be restarted, or late.   *)
(*                                                                         *)
(* Fetch leaves its agents nearly free; here they do what agent.c does, so *)
(* that the two halves of a connection, a close that has not been read and *)
(* a request nobody waits for any more come to be.  Time is one rule: but  *)
(* for the times it is late, an agent that can go on does so before anyone *)
(* times out.                                                              *)
(***************************************************************************)
EXTENDS Fetch

CONSTANTS
    Agents,      \* the agents' processes
    AgentOf,     \* AgentOf[w]: the agent that node w's host and port lead to
    Backlog,     \* listen(server_socket, 16)
    MaxTroubles  \* bound: restarts and late answers of agents

ASSUME WatchAssumption ==
    /\ AgentOf \in [Nodes -> Agents]
    /\ Backlog \in Nat
    /\ MaxTroubles \in Nat
    /\ Persistent
    /\ "http_error" \notin Faults  \* the snapshots have succeeded

VARIABLES
    at,       \* at[a]: where the server thread is: "accept", "read" or "answer"
    cur,      \* cur[a]: client_socket, the agent's end of the connection it serves
    backlog,  \* backlog[a]: established connections not yet accepted
    troubles, \* restarts and late answers so far
    hurt      \* history: hurt[w]: troubles felt by w's fetch, the current or the next

agents    == <<at, cur, backlog, troubles>>
watchVars == <<vars, agents, hurt>>

\* The agent's end of a connection: the descriptor at the other end, or NoFd
\* once the client has closed, with a request left to be read or not.
End  == [fd : Fd \cup {NoFd}, asked : BOOLEAN]
Gone == [fd |-> NoFd, asked |-> FALSE]
EndOf(f) == [fd |-> f, asked |-> FALSE]

Ends(a) == {backlog[a][i] : i \in DOMAIN backlog[a]}
           \cup (IF at[a] = "accept" THEN {} ELSE {cur[a]})

\* The descriptors of nodectl that agent a has the other end of
Serves(a) == {e.fd : e \in Ends(a)} \ {NoFd}

WatchInit ==
    /\ Init
    /\ at = [a \in Agents |-> "accept"]
    /\ cur = [a \in Agents |-> Gone]
    /\ backlog = [a \in Agents |-> <<>>]
    /\ troubles = 0
    /\ hurt = [w \in Nodes |-> 0]

-----------------------------------------------------------------------------
(* The workers, and what the agents' kernels see of them.                  *)

Asked(e) == IF e.fd = NoFd THEN e.asked ELSE reqs[e.fd] # <<>>

\* The thread waits for a client that has nothing to say before the next refresh
Stuck(a) == /\ at[a] = "read" /\ cur[a].fd # NoFd /\ ~Asked(cur[a])
            /\ pc[peer[cur[a].fd]] = "idle"

Full(a) == Len(backlog[a]) > Backlog

\* The next step of w is a timeout of recv(): of an agent that is stuck, or late
Waiting(w) == pc[w] = "recv" /\ link[sock[w]] = "open" /\ inbox[sock[w]] = <<>>
Late(w)    == Waiting(w) /\ ~Stuck(AgentOf[w])

\* What the agent's state allows w to do: to give up waiting, to connect when
\* there is room in the queue, and not to connect when there never will be
Timely(w) ==
    /\ Late(w) => troubles < MaxTroubles
    /\ pc[w] = "connect" /\ pc'[w] = "send" => ~Full(AgentOf[w])
    /\ pc[w] = "connect" /\ pc'[w] = "addr" => Full(AgentOf[w]) /\ Stuck(AgentOf[w])

More(n) == IF n = 0 THEN 1 ELSE 2

\* What becomes of end e in this step
Seen(e, unread) == IF e.fd # NoFd /\ link'[e.fd] = "free"
                   THEN [fd |-> NoFd, asked |-> unread /\ Asked(e)]
                   ELSE e

\* This step connects worker w to agent a
Joins(a, w) == pc[w] = "connect" /\ pc'[w] = "send" /\ AgentOf[w] = a

Established(a, w) == IF Joins(a, w) THEN <<EndOf(sock[w])>> ELSE <<>>

\* A kept connection that is dead is felt by the next fetch
Dead(f) == f # NoFd /\ link'[f] \in {"eof", "reset"}

WorkerStep(w) ==
    /\ Worker(w)
    /\ Timely(w)
    /\ cur' = [a \in Agents |-> Seen(cur[a], at[a] = "read")]
    /\ backlog' = [a \in Agents |->
                      [i \in DOMAIN backlog[a] |-> Seen(backlog[a][i], TRUE)] \o Established(a, w)]
    /\ troubles' = IF Late(w) THEN troubles + 1 ELSE troubles
    /\ hurt' = [hurt EXCEPT ![w] = IF pc'[w] = "idle" THEN IF Dead(psock'[w]) THEN 1 ELSE 0
                                   ELSE IF Late(w) THEN More(@) ELSE @]
    /\ UNCHANGED at

-----------------------------------------------------------------------------
(* The server thread of agent a.                                           *)

Accept(a) ==
    /\ at[a] = "accept" /\ backlog[a] # <<>>
    /\ at' = [at EXCEPT ![a] = "read"]
    /\ cur' = [cur EXCEPT ![a] = Head(backlog[a])]
    /\ backlog' = [backlog EXCEPT ![a] = Tail(@)]
    /\ UNCHANGED <<vars, troubles, hurt>>

\* read() returns the request; it stays in reqs until it is answered
Read(a) ==
    /\ at[a] = "read" /\ Asked(cur[a])
    /\ at' = [at EXCEPT ![a] = "answer"]
    /\ cur' = [cur EXCEPT ![a].asked = FALSE]
    /\ UNCHANGED <<vars, backlog, troubles, hurt>>

\* Mutant: the thread keeps reading from a client that has closed.
ReadEndsNot(a) == at[a] = "read" /\ cur[a] = Gone /\ UNCHANGED watchVars

\* read() returns 0: break, close(client_socket), back to accept()
ReadEnds(a) ==
    /\ at[a] = "read" /\ cur[a] = Gone
    /\ at' = [at EXCEPT ![a] = "accept"]
    /\ UNCHANGED <<vars, cur, backlog, troubles, hurt>>

\* Mutant: after the answer both loops are left for accept(), past the close().
RespondAbandons(a) ==
    /\ at[a] = "answer"
    /\ at' = [at EXCEPT ![a] = "accept"]
    /\ IF cur[a].fd = NoFd THEN UNCHANGED vars ELSE Reply(cur[a].fd)
    /\ UNCHANGED <<cur, backlog, troubles, hurt>>

\* sendHttpResponse, whose failure is ignored; the request says keep-alive
Respond(a) ==
    /\ at[a] = "answer"
    /\ at' = [at EXCEPT ![a] = "read"]
    /\ IF cur[a].fd = NoFd THEN UNCHANGED vars ELSE Reply(cur[a].fd)
    /\ UNCHANGED <<cur, backlog, troubles, hurt>>

Serve(a) == Accept(a) \/ Read(a) \/ ReadEnds(a) \/ Respond(a)

\* The agent is killed, perhaps in the middle of an answer, and up again at
\* once; the kernel closes or resets its ends.  Hosts listed once only: it has
\* at most one connection a worker still holds.
Restart(a) ==
    /\ troubles < MaxTroubles
    /\ \A v, w \in Nodes : AgentOf[v] = a /\ AgentOf[w] = a => v = w
    /\ \/ Serves(a) = {} /\ UNCHANGED vars
       \/ \E f \in Serves(a) : PeerGone(f)
       \/ at[a] = "answer" /\ cur[a].fd # NoFd /\ Truncate(cur[a].fd)
    /\ at' = [at EXCEPT ![a] = "accept"]
    /\ cur' = [cur EXCEPT ![a] = Gone]
    /\ backlog' = [backlog EXCEPT ![a] = <<>>]
    /\ troubles' = troubles + 1
    /\ hurt' = [w \in Nodes |-> IF AgentOf[w] # a THEN hurt[w]
                                ELSE IF inbox' # inbox THEN 2 ELSE More(hurt[w])]

AgentStep(a) == Serve(a) \/ Restart(a)

WatchNext == \/ (StartTick \/ Finished) /\ UNCHANGED <<agents, hurt>>
             \/ \E w \in Nodes : WorkerStep(w)
             \/ \E a \in Agents : AgentStep(a)

WatchSpec == WatchInit /\ [][WatchNext]_watchVars

\* nodectl's threads and the agents' run.
WatchFair == WatchSpec /\ WF_watchVars(StartTick /\ UNCHANGED <<agents, hurt>>)
                       /\ \A w \in Nodes : WF_watchVars(WorkerStep(w))
                       /\ \A a \in Agents : WF_watchVars(Serve(a))

-----------------------------------------------------------------------------
(* Properties.                                                             *)

AgentsTypeOK ==
    /\ at \in [Agents -> {"accept", "read", "answer"}]
    /\ cur \in [Agents -> End]
    /\ backlog \in [Agents -> Seq(End)]
    /\ troubles \in 0..MaxTroubles
    /\ hurt \in [Nodes -> 0..2]

\* The agent has one end of each connection.
NoDuplicate(a) ==
    /\ \A i, j \in DOMAIN backlog[a] :
         backlog[a][i].fd = backlog[a][j].fd /\ backlog[a][i].fd # NoFd => i = j
    /\ at[a] # "accept" /\ cur[a].fd # NoFd =>
         \A i \in DOMAIN backlog[a] : backlog[a][i].fd # cur[a].fd

\* Both ends of every connection are accounted for: the agents hold, once each,
\* the other ends of exactly the connections that are open for the workers, the
\* right agent each; whatever was closed, reset or reused since, no agent is
\* left with an end that has become another's (agent.c:85-134, nodes.c:400-491).
EndsAgree ==
    /\ AgentsTypeOK
    /\ \A a \in Agents : /\ \A f \in Serves(a) : link[f] = "open" /\ AgentOf[peer[f]] = a
                         /\ NoDuplicate(a)
                         /\ at[a] = "answer" /\ cur[a].fd # NoFd => reqs[cur[a].fd] # <<>>
    /\ \A f \in Fd : link[f] = "open" => \E a \in Agents : f \in Serves(a)

\* One trouble with an agent, late or restarted at any time but in the middle of
\* an answer, never shows in the table: the fetch that meets it reconnects and
\* is answered in time, whatever connections nodectl has given up before lie in
\* the agent's queue (nodes.c:422-469 against agent.c:83-136).
OneTroubleHidden ==
    [][\A w \in Nodes : pc[w] # "idle" /\ pc'[w] = "idle" =>
                          row'[w].state = "OK" \/ hurt[w] = 2]_watchVars

\* "Supports HTTP keep-alive connections with queued connection backlog"
\* (agent.c:20): a client that is connected, has asked and waits is answered
\* unless its agent is late; it does not wait in vain because the agent's
\* thread stays with an idle connection that another client keeps.
QueuedAnswered ==
    [][\A w \in Nodes : Waiting(w) /\ pc'[w] # "recv" => Late(w)]_watchVars
=============================================================================
