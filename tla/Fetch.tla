------------------------------- MODULE Fetch --------------------------------
(***************************************************************************)
(* The polling core of `nodectl`: one worker thread per node               *)
(* (render_status_table, query_node in cli.c) running                      *)
(* fetch_status_internal (nodes.c) against the process's descriptor table, *)
(* and the agents at the other end of the connections.                     *)
(*                                                                         *)
(* In watch mode (Persistent) every worker keeps its connection from one   *)
(* refresh to the next in *persistent_sockfd (psock) and reconnects once,  *)
(* transparently, when the kept connection turns out to be dead.           *)
(*                                                                         *)
(* A step is one system call of one worker with the code up to the next    *)
(* call, or one step of an agent.  Response text is abstracted to who      *)
(* answered, which request it answers, its status code and whether it is   *)
(* whole; receive_http_response's byte loop is module Receive.             *)
(***************************************************************************)
EXTENDS Integers, Sequences, FiniteSets

CONSTANTS
    Nodes,      \* the inventory; also the worker threads, one per node
    NoNode,     \* a descriptor not connected, a row nobody answered
    Fd,         \* the descriptors the process may have open (RLIMIT_NOFILE)
    MaxAddrs,   \* bound: addresses getaddrinfo returns for one name
    MaxTicks,   \* bound: refreshes of the table
    Persistent, \* TRUE: watch (connections kept), FALSE: status (one shot)
    Faults      \* what may go wrong, a subset of AllFaults

AllFaults ==
    {"dns",          \* name resolution fails at the start of a fetch
     "retry_dns",    \* ... or when the fetch resolves again to reconnect
     "socket",       \* socket() fails although a descriptor is free
     "setsockopt",   \* a socket option cannot be set
     "connect",      \* connection refused or timed out
     "send", "recv_timeout",
     "idle_close",   \* the agent closes a connection kept from an earlier tick
     "peer_close",   \* the agent closes any connection, requests unanswered
     "peer_reset",   \* ... or resets it
     "truncate",     \* ... or dies while it is sending an answer
     "http_error"}   \* the agent answers 500 and closes

ASSUME FetchAssumption ==
    /\ NoNode \notin Nodes
    /\ Fd \subseteq Nat
    /\ MaxAddrs \in Nat \ {0}
    /\ MaxTicks \in Nat
    /\ Persistent \in BOOLEAN
    /\ Faults \subseteq AllFaults

VARIABLES
    tick,    \* refreshes started
    pc,      \* pc[w]: where worker w is in fetch_status_internal
    sock,    \* sock[w]: its local sockfd
    tried,   \* tried[w]: its attempted_reconnect
    addrs,   \* addrs[w]: addresses left in its getaddrinfo list, rp included
    last,    \* last[w]: its last_state
    row,     \* row[w]: the NodeStatus it fills
    psock,   \* psock[w]: *persistent_sockfd, connections[w].sockfd in main
    link,    \* link[f]: state of the socket behind descriptor f, or "free"
    peer,    \* peer[f]: the agent it is connected to
    reqs,    \* reqs[f]: requests sent and not yet answered
    inbox    \* inbox[f]: answers not yet read

worker == <<pc, sock, tried, addrs, last, row>>
kernel == <<link, peer, reqs, inbox>>
vars   == <<tick, worker, psock, kernel>>

NoFd == -1

FetchState == {"OK", "TIMEOUT", "DNS_ERROR", "CONNECT_ERROR",
               "HTTP_ERROR", "PARSE_ERROR", "IO_ERROR"}
Failure == FetchState \ {"OK"}

Link == {"free", "new", "open", "eof", "reset"}

Pc == {"idle", "resolve", "reuse", "addr", "connect", "send", "recv"}

Request  == [asker : Nodes, tick : 0..MaxTicks]
Response == [from : Nodes \cup {NoNode}, to : Request, code : {"200", "500"}, whole : BOOLEAN]

\* A row of the table: where it stands, whose numbers it shows, and of when.
Row     == [state : FetchState \cup {"blank"}, from : Nodes \cup {NoNode},
            tick : 0..MaxTicks]
Blank   == [state |-> "blank", from |-> NoNode, tick |-> 0]
Fail(s) == [state |-> s,       from |-> NoNode, tick |-> 0]

Init ==
    /\ tick  = 0
    /\ pc    = [w \in Nodes |-> "idle"]
    /\ sock  = [w \in Nodes |-> NoFd]
    /\ tried = [w \in Nodes |-> FALSE]
    /\ addrs = [w \in Nodes |-> 0]
    /\ last  = [w \in Nodes |-> "CONNECT_ERROR"]
    /\ row   = [w \in Nodes |-> Blank]
    /\ psock = [w \in Nodes |-> NoFd]
    /\ link  = [f \in Fd |-> "free"]
    /\ peer  = [f \in Fd |-> NoNode]
    /\ reqs  = [f \in Fd |-> <<>>]
    /\ inbox = [f \in Fd |-> <<>>]

-----------------------------------------------------------------------------
(* Steps shared by the error paths of fetch_status_internal.               *)

AtRest == \A w \in Nodes : pc[w] = "idle"

\* close(f): frees the descriptor; EBADF when it is free already.
Close(f) ==
    /\ link'  = [link  EXCEPT ![f] = "free"]
    /\ peer'  = [peer  EXCEPT ![f] = NoNode]
    /\ reqs'  = [reqs  EXCEPT ![f] = <<>>]
    /\ inbox' = [inbox EXCEPT ![f] = <<>>]

\* close(sockfd); sockfd = -1; last_state = s; continue
NextAddr(w, s) ==
    /\ Close(sock[w])
    /\ pc'    = [pc    EXCEPT ![w] = "addr"]
    /\ sock'  = [sock  EXCEPT ![w] = NoFd]
    /\ addrs' = [addrs EXCEPT ![w] = @ - 1]
    /\ last'  = [last  EXCEPT ![w] = s]
    /\ UNCHANGED <<tick, tried, row, psock>>

\* Mutant: the descriptor is forgotten, not closed.
ReconnectLeaks(w) ==
    /\ pc'    = [pc    EXCEPT ![w] = "resolve"]
    /\ sock'  = [sock  EXCEPT ![w] = NoFd]
    /\ tried' = [tried EXCEPT ![w] = TRUE]
    /\ UNCHANGED <<tick, addrs, last, row, psock, kernel>>

\* attempted_reconnect = 1; close(sockfd); goto retry_with_fresh_connection.
\* *persistent_sockfd keeps the number of the descriptor just closed.
Reconnect(w) ==
    /\ Close(sock[w])
    /\ pc'    = [pc    EXCEPT ![w] = "resolve"]
    /\ sock'  = [sock  EXCEPT ![w] = NoFd]
    /\ tried' = [tried EXCEPT ![w] = TRUE]
    /\ UNCHANGED <<tick, addrs, last, row, psock>>

\* Mutant: attempted_reconnect is not looked at.
BrokenForever(w, s) == IF Persistent THEN Reconnect(w) ELSE NextAddr(w, s)

\* An exchange broke on the current connection: reconnect once, else give
\* this address up with state s.
Broken(w, s) == IF Persistent /\ ~tried[w] THEN Reconnect(w) ELSE NextAddr(w, s)

\* return result: the thread ends with row r; its locals are gone.
Return(w, r) ==
    /\ row'   = [row   EXCEPT ![w] = r]
    /\ pc'    = [pc    EXCEPT ![w] = "idle"]
    /\ sock'  = [sock  EXCEPT ![w] = NoFd]
    /\ tried' = [tried EXCEPT ![w] = FALSE]
    /\ addrs' = [addrs EXCEPT ![w] = 0]
    /\ last'  = [last  EXCEPT ![w] = "CONNECT_ERROR"]

-----------------------------------------------------------------------------
(* The refresh loop.                                                       *)

\* Mutant: the threads of the last refresh are not joined.
StartTickNoJoin ==
    /\ tick < MaxTicks
    /\ tick' = tick + 1
    /\ pc'   = [w \in Nodes |-> "resolve"]
    /\ sock' = [w \in Nodes |-> IF Persistent THEN psock[w] ELSE NoFd]
    /\ row'  = [w \in Nodes |-> Blank]
    /\ UNCHANGED <<tried, addrs, last, psock, kernel>>

\* main's loop and render_status_table: every thread of the last refresh is
\* joined, one worker per node starts; status mode does this once.
StartTick ==
    /\ AtRest
    /\ tick < MaxTicks
    /\ Persistent \/ tick = 0
    /\ tick' = tick + 1
    /\ pc'   = [w \in Nodes |-> "resolve"]
    /\ sock' = [w \in Nodes |-> IF Persistent THEN psock[w] ELSE NoFd]
    /\ row'  = [w \in Nodes |-> Blank]
    /\ UNCHANGED <<tried, addrs, last, psock, kernel>>

(* The worker.                                                             *)

\* getaddrinfo fails: return at once; nothing is closed and *persistent_sockfd
\* is left as it is, on the retry too.
ResolveFails(w) ==
    /\ pc[w] = "resolve"
    /\ (IF tried[w] THEN "retry_dns" ELSE "dns") \in Faults
    /\ Return(w, Fail("DNS_ERROR"))
    /\ UNCHANGED <<tick, psock, kernel>>

Resolve(w) ==
    /\ pc[w] = "resolve"
    /\ \E n \in 1..MaxAddrs : addrs' = [addrs EXCEPT ![w] = n]
    /\ last' = [last EXCEPT ![w] = "CONNECT_ERROR"]
    /\ pc' = [pc EXCEPT ![w] = IF sock[w] = NoFd THEN "addr" ELSE "reuse"]
    /\ UNCHANGED <<tick, sock, tried, row, psock, kernel>>

\* The kept descriptor still takes its timeouts: go and use it.  The kernel
\* says yes for any socket, whatever became of the connection.
Reuse(w) ==
    /\ pc[w] = "reuse"
    /\ link[sock[w]] # "free"
    /\ pc' = [pc EXCEPT ![w] = "send"]
    /\ UNCHANGED <<tick, sock, tried, addrs, last, row, psock, kernel>>

ReuseFails(w) ==
    /\ pc[w] = "reuse"
    /\ link[sock[w]] = "free" \/ "setsockopt" \in Faults
    /\ Close(sock[w])
    /\ pc'    = [pc    EXCEPT ![w] = "addr"]
    /\ sock'  = [sock  EXCEPT ![w] = NoFd]
    /\ psock' = [psock EXCEPT ![w] = NoFd]
    /\ UNCHANGED <<tick, tried, addrs, last, row>>

\* socket() hands out the lowest free descriptor.
LowestFree(f) == link[f] = "free" /\ \A g \in Fd : g < f => link[g] # "free"

OpenSocket(w) ==
    /\ pc[w] = "addr" /\ addrs[w] > 0
    /\ \E f \in Fd : /\ LowestFree(f)
                     /\ sock' = [sock EXCEPT ![w] = f]
                     /\ link' = [link EXCEPT ![f] = "new"]
    /\ pc' = [pc EXCEPT ![w] = "connect"]
    /\ UNCHANGED <<tick, tried, addrs, last, row, psock, peer, reqs, inbox>>

\* Mutant: the end of the address list is not tested.
OpenSocketFailsPastEnd(w) ==
    /\ pc[w] = "addr"
    /\ "socket" \in Faults \/ \A f \in Fd : link[f] # "free"
    /\ addrs' = [addrs EXCEPT ![w] = @ - 1]
    /\ UNCHANGED <<tick, pc, sock, tried, last, row, psock, kernel>>

\* socket() fails (EMFILE at the limit): continue with the next address.
OpenSocketFails(w) ==
    /\ pc[w] = "addr" /\ addrs[w] > 0
    /\ "socket" \in Faults \/ \A f \in Fd : link[f] # "free"
    /\ addrs' = [addrs EXCEPT ![w] = @ - 1]
    /\ UNCHANGED <<tick, pc, sock, tried, last, row, psock, kernel>>

\* connect_with_timeout succeeds and the timeouts are set.
Connect(w) ==
    /\ pc[w] = "connect"
    /\ link[sock[w]] = "new"
    /\ link' = [link EXCEPT ![sock[w]] = "open"]
    /\ peer' = [peer EXCEPT ![sock[w]] = w]
    /\ pc'   = [pc   EXCEPT ![w] = "send"]
    /\ UNCHANGED <<tick, sock, tried, addrs, last, row, psock, reqs, inbox>>

ConnectFails(w) ==
    /\ pc[w] = "connect"
    /\ \/ "connect" \in Faults /\ \E s \in {"TIMEOUT", "CONNECT_ERROR"} : NextAddr(w, s)
       \/ "setsockopt" \in Faults /\ NextAddr(w, "IO_ERROR")
       \/ link[sock[w]] # "new" /\ NextAddr(w, "CONNECT_ERROR")

\* The list is exhausted: no connection is kept, the row shows last_state.
AddrsExhausted(w) ==
    /\ pc[w] = "addr" /\ addrs[w] = 0
    /\ Return(w, Fail(last[w]))
    /\ psock' = [psock EXCEPT ![w] = NoFd]
    /\ UNCHANGED <<tick, kernel>>

\* send() takes the request: on its way to an agent that listens, lost when
\* the agent has closed.
Send(w) ==
    /\ pc[w] = "send"
    /\ link[sock[w]] \in {"open", "eof"}
    /\ reqs' = IF link[sock[w]] = "open"
               THEN [reqs EXCEPT ![sock[w]] = Append(@, [asker |-> w, tick |-> tick])]
               ELSE reqs
    /\ pc' = [pc EXCEPT ![w] = "recv"]
    /\ UNCHANGED <<tick, sock, tried, addrs, last, row, psock, link, peer, inbox>>

SendFails(w) ==
    /\ pc[w] = "send"
    /\ "send" \in Faults \/ link[sock[w]] \notin {"open", "eof"}
    /\ \E s \in {"TIMEOUT", "IO_ERROR"} : Broken(w, s)

\* What query_node makes of answer r: fetch_status_internal looks at the code,
\* parseJsonMetrics wants four numbers.  A cut answer may hold all four, fewer,
\* or not even a status line.
RowOf(r, s) == IF s = "OK" THEN [state |-> "OK", from |-> r.from, tick |-> r.to.tick]
               ELSE Fail(s)

States(r) == IF r.code = "500" THEN {"HTTP_ERROR"}
             ELSE IF r.whole THEN {"OK"} ELSE {"OK", "PARSE_ERROR", "HTTP_ERROR"}

\* Mutant: the connection is used but never stored for the next refresh.
ReceiveForgets(w) ==
    /\ pc[w] = "recv"
    /\ inbox[sock[w]] # <<>>
    /\ LET r == Head(inbox[sock[w]])
       IN  \E s \in States(r) : Return(w, RowOf(r, s))
    /\ inbox' = [inbox EXCEPT ![sock[w]] = Tail(@)]
    /\ UNCHANGED <<tick, psock, link, peer, reqs>>

\* Mutant: the connection is closed in watch mode too, and yet remembered.
ReceiveCloses(w) ==
    /\ pc[w] = "recv"
    /\ inbox[sock[w]] # <<>>
    /\ LET r == Head(inbox[sock[w]])
       IN  \E s \in States(r) : Return(w, RowOf(r, s))
    /\ Close(sock[w])
    /\ psock' = [psock EXCEPT ![w] = IF Persistent THEN sock[w] ELSE @]
    /\ UNCHANGED tick

\* receive_http_response returns an answer: the connection is kept in watch
\* mode and closed in status mode.
Receive(w) ==
    /\ pc[w] = "recv"
    /\ inbox[sock[w]] # <<>>
    /\ LET r == Head(inbox[sock[w]])
       IN  \E s \in States(r) : Return(w, RowOf(r, s))
    /\ IF Persistent
       THEN /\ psock' = [psock EXCEPT ![w] = sock[w]]
            /\ inbox' = [inbox EXCEPT ![sock[w]] = Tail(@)]
            /\ UNCHANGED <<link, peer, reqs>>
       ELSE Close(sock[w]) /\ UNCHANGED psock
    /\ UNCHANGED tick

\* Mutant: an end of stream is a failure of the node at once.
ReceiveEofGivesUp(w) ==
    /\ pc[w] = "recv"
    /\ link[sock[w]] = "eof" /\ inbox[sock[w]] = <<>>
    /\ NextAddr(w, last[w])

\* recv() returns 0 before any byte: last_state is not touched.
ReceiveEof(w) ==
    /\ pc[w] = "recv"
    /\ link[sock[w]] = "eof" /\ inbox[sock[w]] = <<>>
    /\ Broken(w, last[w])

\* Mutant: a timeout returns at once and keeps the connection.
ReceiveFailsKeeps(w) ==
    /\ pc[w] = "recv"
    /\ inbox[sock[w]] = <<>>
    /\ "recv_timeout" \in Faults /\ link[sock[w]] = "open"
    /\ Return(w, Fail("TIMEOUT"))
    /\ psock' = [psock EXCEPT ![w] = sock[w]]
    /\ UNCHANGED <<tick, kernel>>

\* recv() fails, or nothing (TIMEOUT) or not everything (IO_ERROR) came in time.
ReceiveFails(w) ==
    /\ pc[w] = "recv"
    /\ inbox[sock[w]] = <<>>
    /\ \/ link[sock[w]] \in {"free", "new", "reset"} /\ Broken(w, "IO_ERROR")
       \/ /\ "recv_timeout" \in Faults /\ link[sock[w]] = "open"
          /\ \E s \in {"TIMEOUT", "IO_ERROR"} : Broken(w, s)

Worker(w) ==
    \/ Resolve(w)    \/ ResolveFails(w)
    \/ Reuse(w)      \/ ReuseFails(w)
    \/ OpenSocket(w) \/ OpenSocketFails(w)
    \/ Connect(w)    \/ ConnectFails(w)    \/ AddrsExhausted(w)
    \/ Send(w)       \/ SendFails(w)
    \/ Receive(w)    \/ ReceiveEof(w)      \/ ReceiveFails(w)

-----------------------------------------------------------------------------
(* The agents: external to nodectl, one at the other end of each link.     *)

\* The agent answers the oldest request; it closes after an answer to
\* "Connection: close" and after a 500.
Reply(f) ==
    /\ link[f] = "open" /\ reqs[f] # <<>>
    /\ \E c \in {"200"} \cup (IF "http_error" \in Faults THEN {"500"} ELSE {}) :
         /\ inbox' = [inbox EXCEPT ![f] = Append(@, [from |-> peer[f], to |-> Head(reqs[f]),
                                                     code |-> c, whole |-> TRUE])]
         /\ link'  = [link  EXCEPT ![f] = IF Persistent /\ c = "200" THEN "open" ELSE "eof"]
    /\ reqs' = [reqs EXCEPT ![f] = Tail(@)]
    /\ UNCHANGED <<tick, worker, psock, peer>>

\* The agent goes away in the middle of an answer.
Truncate(f) ==
    /\ "truncate" \in Faults
    /\ link[f] = "open" /\ reqs[f] # <<>>
    /\ inbox' = [inbox EXCEPT ![f] = Append(@, [from |-> peer[f], to |-> Head(reqs[f]),
                                                code |-> "200", whole |-> FALSE])]
    /\ link' = [link EXCEPT ![f] = "eof"]
    /\ reqs' = [reqs EXCEPT ![f] = <<>>]
    /\ UNCHANGED <<tick, worker, psock, peer>>

\* A connection kept from an earlier refresh and not given up in this one.
Kept(f) == \E w \in Nodes : psock[w] = f /\ ~tried[w]

\* The agent closes (restart) or resets; what it had not answered is lost.
PeerGone(f) ==
    /\ link[f] = "open"
    /\ \/ /\ "peer_close" \in Faults \/ ("idle_close" \in Faults /\ Kept(f))
          /\ link' = [link EXCEPT ![f] = "eof"]
       \/ /\ "peer_reset" \in Faults
          /\ link' = [link EXCEPT ![f] = "reset"]
    /\ reqs' = [reqs EXCEPT ![f] = <<>>]
    /\ UNCHANGED <<tick, worker, psock, peer, inbox>>

Agent(f) == Reply(f) \/ Truncate(f) \/ PeerGone(f)

\* The bound on refreshes is reached (watch), or the one refresh is done (status).
Finished == /\ AtRest
            /\ tick = MaxTicks \/ (~Persistent /\ tick > 0)
            /\ UNCHANGED vars

Next == \/ StartTick
        \/ \E w \in Nodes : Worker(w)
        \/ \E f \in Fd : Agent(f)
        \/ Finished

Spec == Init /\ [][Next]_vars

\* Threads run (the scheduler), a wait on a socket ends (SO_RCVTIMEO, SO_SNDTIMEO,
\* select), and main refreshes.  Nothing is asked of the agents.
Fairness == WF_vars(StartTick) /\ \A w \in Nodes : WF_vars(Worker(w))

FairSpec == Spec /\ Fairness

-----------------------------------------------------------------------------
(* Properties.                                                             *)

TypeOK ==
    /\ tick  \in 0..MaxTicks
    /\ pc    \in [Nodes -> Pc]
    /\ sock  \in [Nodes -> Fd \cup {NoFd}]
    /\ tried \in [Nodes -> BOOLEAN]
    /\ addrs \in [Nodes -> 0..MaxAddrs]
    /\ last  \in [Nodes -> Failure]
    /\ row   \in [Nodes -> Row]
    /\ psock \in [Nodes -> Fd \cup {NoFd}]
    /\ link  \in [Fd -> Link]
    /\ peer  \in [Fd -> Nodes \cup {NoNode}]
    /\ reqs  \in [Fd -> Seq(Request)]
    /\ inbox \in [Fd -> Seq(Response)]
    /\ \A w \in Nodes : pc[w] \in {"reuse", "connect", "send", "recv"} =>
                          addrs[w] > 0 /\ sock[w] # NoFd

\* The descriptor worker w is answerable for: the one it is using, else the
\* one kept for it that it has not closed in this fetch.
Held(w) == CASE pc[w] \in {"connect", "send", "recv"}                 -> sock[w]
             [] pc[w] = "idle"                                       -> psock[w]
             [] pc[w] \in {"resolve", "reuse"} /\ ~tried[w]          -> psock[w]
             [] OTHER                                                -> NoFd

Live == {"open", "eof", "reset"}

\* What is on the wire of worker w's connection f: nothing, its request of this
\* refresh, or the answer to it; nothing at all unless w is waiting for it.
Wire(w, f) ==
    \/ reqs[f] = <<>> /\ inbox[f] = <<>>
    \/ /\ pc[w] = "recv" /\ inbox[f] = <<>>
       /\ reqs[f] = <<[asker |-> w, tick |-> tick]>>
    \/ /\ pc[w] = "recv" /\ reqs[f] = <<>>
       /\ \E c \in {"200", "500"}, b \in BOOLEAN :
            inbox[f] = <<[from |-> w, to |-> [asker |-> w, tick |-> tick],
                          code |-> c, whole |-> b]>>

LocalsInv(w) ==
    /\ pc[w] \in {"idle", "addr"} => sock[w] = NoFd
    /\ pc[w] \in {"resolve", "reuse"} =>
         sock[w] = IF tried[w] THEN NoFd ELSE psock[w]
    /\ pc[w] = "idle" => ~tried[w]
    /\ ~Persistent => psock[w] = NoFd /\ ~tried[w]

HeldInv(w) ==
    Held(w) # NoFd =>
        IF pc[w] = "connect" THEN link[Held(w)] = "new"
        ELSE link[Held(w)] \in Live /\ peer[Held(w)] = w /\ Wire(w, Held(w))

RowInv(w) ==
    /\ pc[w] # "idle" => tick > 0 /\ row[w] = Blank
    /\ pc[w] = "idle" => (row[w].state = "blank" <=> tick = 0)
    /\ row[w].state = "OK" => row[w].from = w /\ row[w].tick = tick

\* The inductive invariant (when the second name resolution of a fetch never
\* fails): every open descriptor is held by one worker, connected to that
\* worker's agent, and carries at most that worker's current exchange.
IInv ==
    /\ \A w \in Nodes : LocalsInv(w) /\ HeldInv(w) /\ RowInv(w)
    /\ \A v, w \in Nodes : Held(v) = Held(w) /\ Held(v) # NoFd => v = w
    /\ \A f \in Fd : /\ link[f] # "free" => \E w \in Nodes : Held(w) = f
                     /\ link[f] \in {"free", "new"} => reqs[f] = <<>> /\ inbox[f] = <<>>

\* Between two refreshes no descriptor is leaked and none is kept that is not
\* open: the open descriptors are exactly the workers' kept ones, each
\* connected to its own worker's agent (close/continue/goto paths, nodes.c).
DescriptorsAccounted ==
    AtRest =>
        /\ \A w \in Nodes : psock[w] # NoFd => /\ link[psock[w]] # "free"
                                               /\ peer[psock[w]] = w
        /\ \A f \in Fd : link[f] # "free" => \E w \in Nodes : psock[w] = f

\* A worker only ever writes to and reads from a connection to its own agent:
\* no descriptor number is used after its close by somebody it was given to
\* since (descriptors are shared by all threads of the process).
OwnConnection ==
    \A w \in Nodes : pc[w] \in {"send", "recv"} => /\ link[sock[w]] # "free"
                                                   /\ peer[sock[w]] = w

\* Every row of the table is a failure, or numbers of this very node answering
\* a request of this very refresh: an answer that came too late is not read by
\* the next refresh from the kept connection.
RowsOwnAndFresh ==
    \A w \in Nodes : row[w].state = "OK" => row[w].from = w /\ row[w].tick = tick

\* The table as its reader sees it.
Shown == [w \in Nodes |->
            CASE row[w].state = "blank" -> [kind |-> "blank", from |-> NoNode, tick |-> 0]
              [] row[w].state = "OK"    -> [kind |-> "ok", from |-> row[w].from, tick |-> row[w].tick]
              [] OTHER                  -> [kind |-> "failed", from |-> NoNode, tick |-> 0]]

\* The polling code keeps the promise of module Poll: refreshes do not overlap,
\* each node gets one row per refresh, and rows are own and fresh.
Table == INSTANCE Poll WITH shown <- Shown
PollSpec == Table!Spec

\* Whatever fails, and if no agent ever answers, every worker returns:
\* pthread_join in render_status_table does not hang the table.
FetchTerminates == \A w \in Nodes : pc[w] # "idle" ~> pc[w] = "idle"

\* CONNECT_ERROR is shown as "connect: failed, read: not_attempted"
\* (printDebugStatus, table.c): an attempt that was reading is not recorded so.
ReadErrorIsNotConnectError ==
    [][\A w \in Nodes :
         pc[w] = "recv" /\ pc'[w] = "addr" => last'[w] # "CONNECT_ERROR"]_vars
=============================================================================
