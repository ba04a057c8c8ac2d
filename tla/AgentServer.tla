---------------------------- MODULE AgentServer -----------------------------
(***************************************************************************)
(* The node agent (main and socketServer in agent.c, http.c): it reads its *)
(* command line and starts up, or exits; then one thread accepts a         *)
(* connection from the listen queue and stays with it, reading and         *)
(* answering, until the connection ends.                                   *)
(*                                                                         *)
(* Clients (nodectl's workers, health checks) are external: each           *)
(* connection is one member of Conns, which may be kept alive or not, and  *)
(* whose owner may give up at any time.  A client sends its next request   *)
(* after the answer to the last one, as nodectl does.  The text of a       *)
(* request is cut where the code would notice: inside the path, after it,  *)
(* inside and after "Connection: keep-alive".  TCP may deliver it in two   *)
(* pieces, and read() returns what has arrived, in one string.             *)
(***************************************************************************)
EXTENDS Integers, Sequences

CONSTANTS
    Argvs,      \* command lines, without the program's name
    PortTexts,  \* the texts that parse_port_value takes, as a function to their numbers
    Assigned,   \* the arguments that begin with --port=, as a function to what follows
    Conns,      \* bound: connections made to the agent
    KeepAlive,  \* those whose requests say "Connection: keep-alive"
    Backlog,    \* listen(server_socket, 16)
    MaxAsked,   \* bound: requests on one connection
    Split       \* those whose requests TCP may deliver in two pieces

Ports == 1..65535
DefaultPort == 9002
HelpOptions == {"-h", "--help"}
PortOptions == {"-p", "--port"}

ASSUME AgentAssumption ==
    /\ KeepAlive \subseteq Conns
    /\ Backlog \in Nat
    /\ MaxAsked \in Nat
    /\ Split \subseteq Conns

ASSUME ArgumentAssumption ==
    /\ \A a \in Argvs : a \in Seq(STRING)
    /\ PortTexts \in [DOMAIN PortTexts -> Ports]
    /\ Assigned \in [DOMAIN Assigned -> STRING]
    \* no option is a number or begins with --port=
    /\ (HelpOptions \cup PortOptions) \cap (DOMAIN PortTexts \cup DOMAIN Assigned) = {}

NoConn == "no connection"
ASSUME NoConnAssumption == NoConn \notin Conns

VARIABLES
    pc,      \* where the server thread is, a member of Pc
    argv, i, \* the command line and the index of the option loop
    port,    \* the port to listen on
    status,  \* what main returns, once pc is "exited"
    sampler, \* "off", or "on" when initMetricsSampler has succeeded
    listener,\* server_socket: "none", "open" or "closed" again
    cur,     \* client_socket, or NoConn
    request, \* what the last read() put in the buffer: a sequence of fragments
    queue,   \* connections established and not yet accepted
    conn,    \* conn[c]: "none", "queued", "serving" or "closed" by the agent
    open,    \* open[c]: the client has its end open
    wire,    \* wire[c]: text on its way to the agent
    unsent,  \* unsent[c]: the part of the current request TCP still holds
    asked,   \* asked[c]: the paths c has asked for
    answers  \* answers[c]: the answers on their way to, or read by, c

line   == <<argv, i, port>>
start  == <<line, status, sampler, listener>>
server == <<pc, cur, request>>
client == <<open, unsent, asked>>
talk   == <<cur, request, queue, conn, wire, client, answers>>
vars   == <<start, server, queue, conn, wire, client, answers>>

Paths == {"/health", "/status", "/other"}
Garbage == "no path"

\* The text of a request for path p: the first part of its path, the rest of
\* it, the first part of the Connection header, the rest of that, and the end.
Fragment == [part : 1..5, path : Paths, alive : BOOLEAN]
Piece(k, p, a) == [part |-> k, path |-> p, alive |-> a]
Text(p, a) == <<Piece(1, p, a), Piece(2, p, a), Piece(3, p, a), Piece(4, p, a), Piece(5, p, a)>>

Answer == [code : {"200", "404", "500"}, about : Paths \cup {Garbage}]

\* In main, before each call of socketServer's start-up, returned; in its loops.
Pc == {"options", "sampler", "socket", "setsockopt", "bind", "listen", "exited",
       "accept", "read", "answer", "close"}

\* The kernel takes connections from listen() on.
Listening == pc \in {"accept", "read", "answer", "close"}

Init ==
    /\ pc = "options"
    /\ argv \in Argvs /\ i = 1
    /\ port = DefaultPort
    /\ status = 0
    /\ sampler = "off"
    /\ listener = "none"
    /\ cur = NoConn
    /\ request = <<>>
    /\ queue = <<>>
    /\ conn = [c \in Conns |-> "none"]
    /\ open = [c \in Conns |-> FALSE]
    /\ wire = [c \in Conns |-> <<>>]
    /\ unsent = [c \in Conns |-> <<>>]
    /\ asked = [c \in Conns |-> <<>>]
    /\ answers = [c \in Conns |-> <<>>]

-----------------------------------------------------------------------------
(* main: the option loop.                                                  *)

\* The loop is at one of the arguments S
At(S) == i <= Len(argv) /\ argv[i] \in S

Goto(k) == i' = k /\ UNCHANGED <<pc, status>>

Exit(code) == pc' = "exited" /\ status' = code

\* Any help option ends the program, whatever has been read before
Help == At(HelpOptions) /\ Exit(0) /\ UNCHANGED <<i, port>>

PortTaken == i < Len(argv) /\ argv[i + 1] \in DOMAIN PortTexts

\* Mutant: i++ is forgotten, the value is read again as an argument.
SetPortOnce ==
    \/ At(PortOptions) /\ PortTaken /\ port' = PortTexts[argv[i + 1]] /\ Goto(i + 1)
    \/ At(DOMAIN Assigned) /\ Assigned[argv[i]] \in DOMAIN PortTexts
       /\ port' = PortTexts[Assigned[argv[i]]] /\ Goto(i + 1)

SetPort ==
    \/ At(PortOptions) /\ PortTaken /\ port' = PortTexts[argv[i + 1]] /\ Goto(i + 2)
    \/ At(DOMAIN Assigned) /\ Assigned[argv[i]] \in DOMAIN PortTexts
       /\ port' = PortTexts[Assigned[argv[i]]] /\ Goto(i + 1)

\* An option with no value, a value that is no port, an unknown argument
Invalid ==
    /\ \/ At(PortOptions) /\ ~PortTaken
       \/ At(DOMAIN Assigned) /\ Assigned[argv[i]] \notin DOMAIN PortTexts
       \/ /\ i <= Len(argv)
          /\ argv[i] \notin HelpOptions \cup PortOptions \cup DOMAIN Assigned
    /\ Exit(1)
    /\ UNCHANGED <<i, port>>

OptionsEnd == i > Len(argv) /\ pc' = "sampler" /\ UNCHANGED <<i, port, status>>

Options ==
    /\ pc = "options"
    /\ Help \/ SetPort \/ Invalid \/ OptionsEnd
    /\ UNCHANGED <<argv, sampler, listener, talk>>

(* socketServer: the start-up.                                             *)

\* initMetricsSampler; nothing is there yet to be undone
StartSampler ==
    /\ pc = "sampler"
    /\ \/ sampler' = "on" /\ pc' = "socket" /\ UNCHANGED status
       \/ Exit(1) /\ UNCHANGED sampler
    /\ UNCHANGED <<line, listener, talk>>

\* socket(); when it fails the sampler is left running
OpenListener ==
    /\ pc = "socket"
    /\ \/ listener' = "open" /\ pc' = "setsockopt" /\ UNCHANGED status
       \/ Exit(1) /\ UNCHANGED listener
    /\ UNCHANGED <<line, sampler, talk>>

\* setsockopt(), bind() or listen() fails: the socket is closed, the sampler is
\* left running
ListenerFails ==
    /\ pc \in {"setsockopt", "bind", "listen"}
    /\ listener' = "closed"
    /\ Exit(1)
    /\ UNCHANGED <<line, sampler, talk>>

SetReuse ==
    /\ pc = "setsockopt"
    /\ pc' = "bind"
    /\ UNCHANGED <<start, talk>>

Bind ==
    /\ pc = "bind"
    /\ pc' = "listen"
    /\ UNCHANGED <<start, talk>>

\* From here on nothing reads the command line or the port any more.
Listen ==
    /\ pc = "listen"
    /\ pc' = "accept"
    /\ argv' = <<>> /\ i' = 1 /\ port' = DefaultPort
    /\ UNCHANGED <<status, sampler, listener, talk>>

StartUp == \/ StartSampler \/ OpenListener \/ ListenerFails
           \/ SetReuse \/ Bind \/ Listen

-----------------------------------------------------------------------------
(* The server thread.                                                      *)

\* accept() returns the oldest connection of the queue
Accept ==
    /\ pc = "accept"
    /\ queue # <<>>
    /\ cur' = Head(queue)
    /\ queue' = Tail(queue)
    /\ conn' = [conn EXCEPT ![Head(queue)] = "serving"]
    /\ pc' = "read"
    /\ UNCHANGED <<start, request, wire, client, answers>>

\* read() returns whatever has arrived; it is taken for one whole request
Read ==
    /\ pc = "read"
    /\ wire[cur] # <<>>
    /\ request' = wire[cur]
    /\ wire' = [wire EXCEPT ![cur] = <<>>]
    /\ pc' = "answer"
    /\ UNCHANGED <<start, cur, queue, conn, client, answers>>

\* Mutant: read() == 0 is retried.
ReadEndsNot ==
    /\ pc = "read"
    /\ wire[cur] = <<>> /\ ~open[cur]
    /\ UNCHANGED vars

\* Mutant: back to accept() at once, without close().
ReadEndsAccepts ==
    /\ pc = "read"
    /\ wire[cur] = <<>> /\ ~open[cur]
    /\ pc' = "accept"
    /\ UNCHANGED <<start, cur, request, queue, conn, wire, client, answers>>

\* read() returns 0, or an error: the client has closed
ReadEnds ==
    /\ pc = "read"
    /\ wire[cur] = <<>> /\ ~open[cur]
    /\ pc' = "close"
    /\ UNCHANGED <<start, cur, request, queue, conn, wire, client, answers>>

\* parseRequestPath: what stands in the buffer up to a space is the path asked
\* for when the buffer begins with a request and holds the rest of its path
Path == IF request[1].part = 1 /\ Len(request) > 1 THEN request[1].path ELSE Garbage

\* Mutant: the header is searched for with another case.
KeepAliveMisspelt == FALSE

\* strstr(request, "Connection: keep-alive"), anywhere in the buffer
KeepAliveAsked ==
    \E k \in DOMAIN request :
        /\ request[k].part = 4 /\ request[k].alive
        /\ k > 1 /\ request[k - 1].part = 3

\* Mutant: /health falls through to the answer for unknown paths.
CodesNoHealth == IF Path = "/status" THEN {"200", "500"} ELSE {"404"}

\* The status line chosen; /status is 500 when the JSON does not fit the body
Codes == CASE Path = "/health" -> {"200"}
           [] Path = "/status" -> {"200", "500"}
           [] OTHER            -> {"404"}

\* sendHttpResponse (its failure is ignored), then on to the next request, or
\* break: after a 500, and when the request did not ask for keep-alive
Respond ==
    /\ pc = "answer"
    /\ \E code \in Codes :
         /\ answers' = IF open[cur]
                       THEN [answers EXCEPT ![cur] = Append(@, [code |-> code, about |-> Path])]
                       ELSE answers
         /\ pc' = IF KeepAliveAsked /\ code # "500" THEN "read" ELSE "close"
    /\ UNCHANGED <<start, cur, request, queue, conn, wire, client>>

\* close(client_socket): what had not been read is dropped
Close ==
    /\ pc = "close"
    /\ conn' = [conn EXCEPT ![cur] = "closed"]
    /\ wire' = [wire EXCEPT ![cur] = <<>>]
    /\ cur' = NoConn
    /\ pc' = "accept"
    /\ UNCHANGED <<start, request, queue, client, answers>>

Server == Options \/ StartUp \/ Accept \/ Read \/ ReadEnds \/ Respond \/ Close

-----------------------------------------------------------------------------
(* The clients: external.                                                  *)

\* The kernel completes the handshake while there is room in the queue
Connect(c) ==
    /\ Listening
    /\ conn[c] = "none"
    /\ Len(queue) <= Backlog
    /\ queue' = Append(queue, c)
    /\ conn' = [conn EXCEPT ![c] = "queued"]
    /\ open' = [open EXCEPT ![c] = TRUE]
    /\ UNCHANGED <<start, server, wire, unsent, asked, answers>>

\* A client with no answer outstanding asks, once unless it keeps alive; it
\* need not have been accepted
Ask(c) ==
    /\ open[c] /\ conn[c] # "closed"
    /\ Len(answers[c]) = Len(asked[c]) /\ unsent[c] = <<>>
    /\ Len(asked[c]) < (IF c \in KeepAlive THEN MaxAsked ELSE 1)
    /\ \E p \in Paths :
         /\ asked' = [asked EXCEPT ![c] = Append(@, p)]
         /\ LET text == Text(p, c \in KeepAlive)
            IN  \/ /\ wire' = [wire EXCEPT ![c] = @ \o text]
                   /\ UNCHANGED unsent
                \/ /\ c \in Split
                   /\ \E cut \in 1..4 :
                        /\ wire' = [wire EXCEPT ![c] = @ \o SubSeq(text, 1, cut)]
                        /\ unsent' = [unsent EXCEPT ![c] = SubSeq(text, cut + 1, 5)]
    /\ UNCHANGED <<start, server, queue, conn, open, answers>>

\* The rest of a request that was delivered in two pieces
Deliver(c) ==
    /\ unsent[c] # <<>>
    /\ wire' = IF conn[c] = "closed" THEN wire ELSE [wire EXCEPT ![c] = @ \o unsent[c]]
    /\ unsent' = [unsent EXCEPT ![c] = <<>>]
    /\ UNCHANGED <<start, server, queue, conn, open, asked, answers>>

\* The owner closes: it has its answers, or it gives up (a timeout)
GiveUp(c) ==
    /\ open[c]
    /\ open' = [open EXCEPT ![c] = FALSE]
    /\ unsent' = [unsent EXCEPT ![c] = <<>>]
    /\ UNCHANGED <<start, server, queue, conn, wire, asked, answers>>

Client(c) == Connect(c) \/ Ask(c) \/ Deliver(c) \/ GiveUp(c)

Next == Server \/ \E c \in Conns : Client(c)

Spec == Init /\ [][Next]_vars

\* The server runs; clients ask, TCP delivers, and every owner closes in
\* the end (module Watch has owners that do not).
Fairness == /\ WF_vars(Server)
            /\ \A c \in Conns : WF_vars(Ask(c) \/ Deliver(c)) /\ WF_vars(GiveUp(c))

FairSpec == Spec /\ Fairness

-----------------------------------------------------------------------------
(* Properties.                                                             *)

\* Where the option loop may be
Place == 1..Len(argv) + 1

StartTypeOK ==
    /\ pc \in Pc
    /\ argv \in Seq(STRING) /\ i \in Place
    /\ port \in Ports
    /\ status \in {0, 1}
    /\ sampler \in {"off", "on"}
    /\ pc \notin {"options", "sampler", "exited"} => sampler = "on"
    /\ listener \in {"none", "open", "closed"}
    /\ pc \notin {"options", "sampler", "socket", "exited"} => listener = "open"

TalkTypeOK ==
    /\ IF pc \in {"read", "answer", "close"} THEN cur \in Conns ELSE cur = NoConn
    /\ request \in Seq(Fragment) /\ (pc = "answer" => request # <<>>)
    /\ queue \in Seq(Conns)
    /\ conn \in [Conns -> {"none", "queued", "serving", "closed"}]
    /\ open \in [Conns -> BOOLEAN]
    /\ wire \in [Conns -> Seq(Fragment)]
    /\ unsent \in [Conns -> Seq(Fragment)]
    /\ asked \in [Conns -> Seq(Paths)]
    /\ answers \in [Conns -> Seq(Answer)]

TypeOK == StartTypeOK /\ TalkTypeOK

Right(code, path) == code \in (CASE path = "/health" -> {"200"}
                                 [] path = "/status" -> {"200", "500"}
                                 [] OTHER            -> {"404"})

\* A client whose requests arrive whole gets at most one answer per request, in
\* order, each about the path it asked for, across any number of requests on a
\* kept connection, and whatever arrives in pieces on others (agent.c:92-133).
AnswersMatch ==
    \A c \in Conns \ Split :
        /\ Len(answers[c]) <= Len(asked[c])
        /\ \A k \in DOMAIN answers[c] : /\ answers[c][k].about = asked[c][k]
                                        /\ Right(answers[c][k].code, asked[c][k])

\* The last answer on connection c
Latest(c) == answers[c][Len(answers[c])]

\* A connection asked to be kept alive is closed by the agent only when its
\* client has gone or after a 500 (the breaks at agent.c:98, 116 and 124), and
\* only such a connection is read again after an answer: a client that reads
\* to the end of the stream is not left waiting.
KeptAlive ==
    cur \in Conns \ Split =>
        /\ pc = "close" /\ cur \in KeepAlive =>
              ~open[cur] \/ (answers[cur] # <<>> /\ Latest(cur).code = "500")
        /\ pc = "read" /\ answers[cur] # <<>> =>
              cur \in KeepAlive /\ Latest(cur).code # "500"

\* Argument k is the value of the option before it.
Value(k) == k > 1 /\ argv[k - 1] \in PortOptions

\* The arguments before the k-th are options of the usage text with a port each.
Understood(k) ==
    \A j \in 1..k - 1 :
        \/ argv[j] \in PortOptions /\ j + 1 < k /\ argv[j + 1] \in DOMAIN PortTexts
        \/ argv[j] \in DOMAIN Assigned /\ Assigned[argv[j]] \in DOMAIN PortTexts
        \/ Value(j) /\ argv[j] \in DOMAIN PortTexts

\* The ports a command line names, by their places.
Named == {k \in DOMAIN argv : Value(k) \/ argv[k] \in DOMAIN Assigned}
PortAt(k) == PortTexts[IF Value(k) THEN argv[k] ELSE Assigned[argv[k]]]

\* The option loop, which takes arguments from the left and skips values with
\* i++, understands the command line as a whole: the agent starts exactly on a
\* line of options with a port each, on the last port named; it exits with 0
\* exactly when such options, if any, are followed by a request for help
\* (agent.c:146-177).
ListensAsTold ==
    /\ pc = "sampler" =>
         /\ Understood(Len(argv) + 1)
         /\ IF Named = {} THEN port = DefaultPort
            ELSE \E k \in Named : port = PortAt(k) /\ \A j \in Named : j <= k
    /\ pc = "exited" /\ sampler = "off" /\ ~Understood(Len(argv) + 1) =>
         (status = 0 <=> \E k \in DOMAIN argv : argv[k] \in HelpOptions /\ Understood(k))

\* "Supports HTTP keep-alive connections with queued connection backlog"
\* (agent.c:20): a queued connection is eventually taken from the queue.
BacklogServed == \A c \in Conns : conn[c] = "queued" ~> conn[c] # "queued"
=============================================================================
