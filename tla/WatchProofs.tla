---------------------------- MODULE WatchProofs -----------------------------
(***************************************************************************)
(* Theorems about Watch, for any inventory, any agents, any queue length:  *)
(* nodectl with the agents of agent.c behaves as module Fetch says, so     *)
(* what is proved of Fetch holds of it; the two ends of every connection   *)
(* agree; one trouble with an agent does not show in the table.            *)
(***************************************************************************)
EXTENDS Watch, FetchProofs, SequenceTheorems, FiniteSetTheorems

\* The descriptors an agent has the other end of are descriptors.
LEMMA ServesFd ==
    ASSUME AgentsTypeOK, NEW a \in Agents
    PROVE  Serves(a) \subseteq Fd
  <1>1. ASSUME NEW e \in Ends(a) PROVE e \in End
    <2>1. backlog[a] \in Seq(End) /\ cur[a] \in End
      BY DEF AgentsTypeOK
    <2>2. \A i \in DOMAIN backlog[a] : backlog[a][i] \in End
      BY <2>1
    <2>3. QED
      BY <1>1, <2>1, <2>2 DEF Ends
  <1>2. QED
    BY <1>1 DEF Serves, End

-----------------------------------------------------------------------------
(* Every step of Watch is a step of Fetch, or none.                        *)

LEMMA WatchStep ==
    ASSUME AgentsTypeOK, [WatchNext]_watchVars
    PROVE  [Next]_vars
  <1>1. CASE StartTick \/ Finished
    BY <1>1 DEF Next
  <1>2. ASSUME NEW w \in Nodes, WorkerStep(w) PROVE Next
    BY <1>2 DEF WorkerStep, Next
  <1>3. ASSUME NEW a \in Agents, AgentStep(a) PROVE [Next]_vars
    <2>1. CASE Accept(a) \/ Read(a) \/ ReadEnds(a)
      BY <2>1 DEF Accept, Read, ReadEnds
    <2>2. cur[a].fd # NoFd => cur[a].fd \in Fd
      BY DEF AgentsTypeOK, End
    <2>3. CASE Respond(a)
      BY <2>2, <2>3 DEF Respond, Next, Agent
    <2>4. CASE Restart(a)
      <3>1. ASSUME NEW f \in Serves(a), PeerGone(f) PROVE Next
        BY <3>1, ServesFd DEF Next, Agent
      <3>2. CASE cur[a].fd # NoFd /\ Truncate(cur[a].fd)
        BY <2>2, <3>2 DEF Next, Agent
      <3>3. QED
        BY <2>4, <3>1, <3>2 DEF Restart
    <2>5. QED
      BY <1>3, <2>1, <2>3, <2>4 DEF AgentStep, Serve
  <1>4. CASE UNCHANGED watchVars
    BY <1>4 DEF watchVars
  <1>5. QED
    BY <1>1, <1>2, <1>3, <1>4 DEF WatchNext

-----------------------------------------------------------------------------
(* Types.                                                                  *)

\* An end stays an end whatever becomes of its connection.
LEMMA SeenEnd ==
    ASSUME NEW e \in End, NEW unread \in BOOLEAN
    PROVE  Seen(e, unread) \in End
  BY DEF Seen, End, Asked

\* A queue of ends stays one in a worker's step.
LEMMA QueueType ==
    ASSUME TypeOK, AgentsTypeOK, NEW a \in Agents, NEW w \in Nodes
    PROVE  [i \in DOMAIN backlog[a] |-> Seen(backlog[a][i], TRUE)] \o Established(a, w)
             \in Seq(End)
  <1> DEFINE s == [i \in DOMAIN backlog[a] |-> Seen(backlog[a][i], TRUE)]
  <1>1. backlog[a] \in Seq(End)
    BY DEF AgentsTypeOK
  <1>2. s \in Seq(End)
    <2>1. Len(backlog[a]) \in Nat /\ DOMAIN backlog[a] = 1..Len(backlog[a])
      BY <1>1, LenProperties
    <2>2. \A i \in 1..Len(backlog[a]) : Seen(backlog[a][i], TRUE) \in End
      BY <1>1, SeenEnd, ElementOfSeq
    <2>3. s \in [1..Len(backlog[a]) -> End]
      BY <2>1, <2>2
    <2> HIDE DEF s
    <2>4. QED
      BY <2>1, <2>3, SeqDef
  <1>3. Established(a, w) \in Seq(End)
    <2>1. <<>> \in Seq(End) /\ \A e \in End : <<e>> \in Seq(End)
      OBVIOUS
    <2>2. EndOf(sock[w]) \in End
      BY DEF EndOf, End, TypeOK
    <2>3. QED
      BY <2>1, <2>2 DEF Established
  <1>4. \A t, u \in Seq(End) : t \o u \in Seq(End)
    OBVIOUS
  <1>5. QED
    BY <1>2, <1>3, <1>4, Zenon

LEMMA WatchStepType ==
    ASSUME TypeOK, AgentsTypeOK, [WatchNext]_watchVars
    PROVE  AgentsTypeOK'
  <1>1. ASSUME NEW w \in Nodes, WorkerStep(w) PROVE AgentsTypeOK'
    <2>1. cur' \in [Agents -> End]
      BY <1>1, SeenEnd DEF WorkerStep, AgentsTypeOK
    <2>2. backlog' \in [Agents -> Seq(End)]
      BY <1>1, QueueType DEF WorkerStep
    <2>3. troubles' \in 0..MaxTroubles
      BY <1>1, WatchAssumption DEF WorkerStep, Timely, AgentsTypeOK
    <2>4. hurt' \in [Nodes -> 0..2]
      BY <1>1 DEF WorkerStep, AgentsTypeOK, More
    <2>5. QED
      BY <1>1, <2>1, <2>2, <2>3, <2>4 DEF WorkerStep, AgentsTypeOK
  <1>2. ASSUME NEW a \in Agents, AgentStep(a) PROVE AgentsTypeOK'
    <2>1. CASE Accept(a)
      <3>1. Head(backlog[a]) \in End /\ Tail(backlog[a]) \in Seq(End)
        BY <2>1 DEF Accept, AgentsTypeOK
      <3>2. QED
        BY <2>1, <3>1 DEF Accept, AgentsTypeOK
    <2>2. CASE Read(a)
      BY <2>2 DEF Read, AgentsTypeOK, End
    <2>3. CASE ReadEnds(a)
      BY <2>3 DEF ReadEnds, AgentsTypeOK
    <2>4. CASE Respond(a)
      BY <2>4 DEF Respond, AgentsTypeOK
    <2>5. CASE Restart(a)
      <3>1. <<>> \in Seq(End) /\ Gone \in End
        BY DEF Gone, End
      <3>2. hurt' \in [Nodes -> 0..2]
        BY <2>5 DEF Restart, AgentsTypeOK, More
      <3>3. troubles' \in 0..MaxTroubles
        BY <2>5, WatchAssumption DEF Restart, AgentsTypeOK
      <3>4. QED
        BY <2>5, <3>1, <3>2, <3>3 DEF Restart, AgentsTypeOK
    <2>6. QED
      BY <1>2, <2>1, <2>2, <2>3, <2>4, <2>5 DEF AgentStep, Serve
  <1>3. CASE UNCHANGED <<agents, hurt>>
    BY <1>3 DEF agents, AgentsTypeOK
  <1>4. QED
    BY <1>1, <1>2, <1>3 DEF WatchNext, watchVars

\* Both sides keep their types, for any bound on the troubles.
THEOREM WatchTypeCorrect == WatchSpec => [](TypeOK /\ AgentsTypeOK)
  <1>1. WatchInit => TypeOK /\ AgentsTypeOK
    <2>1. ASSUME WatchInit PROVE TypeOK
      BY <2>1, FetchAssumption DEF WatchInit, Init, TypeOK, Pc, FetchState, Failure, Row, Blank, Link
    <2>2. ASSUME WatchInit PROVE AgentsTypeOK
      BY <2>2, WatchAssumption DEF WatchInit, AgentsTypeOK, End, Gone
    <2>3. QED
      BY <2>1, <2>2
  <1>2. TypeOK /\ AgentsTypeOK /\ [WatchNext]_watchVars => (TypeOK /\ AgentsTypeOK)'
    BY WatchStep, StepType, WatchStepType
  <1>3. QED
    BY <1>1, <1>2, PTL DEF WatchSpec

\* A step of Watch is one of Fetch with more conjuncts, or leaves its variables
\* alone: by its shape, what is proved of Fetch, whose agents are nearly free,
\* holds with the agents of agent.c.
LEMMA WatchIsFetch == WatchSpec => Spec
  <1>1. WatchInit => Init
    BY DEF WatchInit
  <1>2. AgentsTypeOK /\ [WatchNext]_watchVars => [Next]_vars
    BY WatchStep
  <1>3. QED
    BY <1>1, <1>2, WatchTypeCorrect, PTL DEF WatchSpec, Spec

\* ... and so its table shows, in every row, nothing or a failure or its own
\* node's answer to the refresh in progress, and keeps the promise of Poll.
THEOREM WatchTable == ResolvesAgain => (WatchSpec => []RowsOwnAndFresh /\ PollSpec)
  BY WatchIsFetch, FetchRows, FetchImplementsPoll, PTL
-----------------------------------------------------------------------------
(* Both ends of every connection.                                          *)

\* Every open connection is its worker's, and he has no other.
LEMMA OpenHeld ==
    ASSUME TypeOK, IInv, NEW f \in Fd, link[f] = "open"
    PROVE  peer[f] \in Nodes /\ Held(peer[f]) = f
  <1>1. PICK w \in Nodes : Held(w) = f
    BY DEF IInv
  <1>2. f # NoFd
    BY FetchAssumption DEF NoFd
  <1>3. QED
    BY <1>1, <1>2 DEF IInv, HeldInv

\* What a step of a worker does to connections: one that was open stays so, its
\* request with it, or is closed; one is opened in the step from connect to send.
LEMMA WorkerLinks ==
    ASSUME TypeOK, IInv, NEW w \in Nodes, Worker(w)
    PROVE  /\ \A f \in Fd : link[f] = "open" /\ link'[f] # "free" =>
                /\ link'[f] = "open" /\ peer'[f] = peer[f]
                /\ reqs[f] # <<>> => reqs'[f] # <<>>
           /\ \A f \in Fd : link'[f] = "open" /\ link[f] # "open" =>
                pc[w] = "connect" /\ pc'[w] = "send" /\ f = sock[w]
           /\ pc[w] = "connect" /\ pc'[w] = "send" =>
                /\ sock[w] \in Fd
                /\ link[sock[w]] = "new" /\ link'[sock[w]] = "open" /\ peer'[sock[w]] = w
  <1>1. CASE \E s \in Failure : Broken(w, s) /\ pc[w] # "connect"
    BY <1>1 DEF Broken, NextAddr, Reconnect, Close, TypeOK
  <1>2. CASE SendFails(w) \/ ReceiveEof(w) \/ ReceiveFails(w)
    BY <1>1, <1>2 DEF SendFails, ReceiveEof, ReceiveFails, FetchState, Failure, TypeOK
  <1>3. CASE Resolve(w) \/ Reuse(w) \/ OpenSocketFails(w)
    BY <1>3 DEF Resolve, Reuse, OpenSocketFails, kernel
  <1>4. CASE ResolveFails(w) \/ AddrsExhausted(w)
    BY <1>4 DEF ResolveFails, AddrsExhausted, kernel
  <1>5. CASE ReuseFails(w)
    BY <1>5 DEF ReuseFails, Close, TypeOK
  <1>6. CASE OpenSocket(w)
    BY <1>6 DEF OpenSocket, LowestFree, TypeOK
  <1>7. CASE Connect(w)
    BY <1>7 DEF Connect, TypeOK
  <1>8. CASE ConnectFails(w)
    BY <1>8 DEF ConnectFails, NextAddr, Close, TypeOK
  <1>9. CASE Send(w)
    <2>1. UNCHANGED <<link, peer>> /\ pc[w] # "connect"
      BY <1>9 DEF Send
    <2>2. ASSUME NEW f \in Fd, reqs[f] # <<>> PROVE reqs'[f] # <<>>
      <3>1. reqs[f] \in Seq(Request)
        BY DEF TypeOK
      <3>2. Append(reqs[f], [asker |-> w, tick |-> tick]) # <<>>
        BY <3>1
      <3>3. reqs'[f] \in {reqs[f], Append(reqs[f], [asker |-> w, tick |-> tick])}
        BY <1>9 DEF Send, TypeOK
      <3>4. QED
        BY <2>2, <3>2, <3>3
    <2>3. QED
      BY <2>1, <2>2
  <1>10. CASE Receive(w)
    BY <1>10, WatchAssumption DEF Receive
  <1>11. QED
    BY <1>2, <1>3, <1>4, <1>5, <1>6, <1>7, <1>8, <1>9, <1>10 DEF Worker

\* The queue of an agent in a worker's step: its ends stay in their places unless
\* their connection is closed, and a new one may follow them.
QueueKept(a, w) ==
    /\ \A i \in DOMAIN backlog[a] : /\ i \in DOMAIN backlog'[a]
                                    /\ backlog'[a][i] = Seen(backlog[a][i], TRUE)
    /\ Joins(a, w) => /\ Len(backlog[a]) + 1 \in DOMAIN backlog'[a]
                      /\ backlog'[a][Len(backlog[a]) + 1] = EndOf(sock[w])
    /\ \A i \in DOMAIN backlog'[a] :
         i \in DOMAIN backlog[a] \/ (Joins(a, w) /\ i = Len(backlog[a]) + 1)
    /\ Len(backlog[a]) + 1 \notin DOMAIN backlog[a]

LEMMA QueueStep ==
    ASSUME TypeOK, AgentsTypeOK, NEW w \in Nodes, WorkerStep(w), NEW a \in Agents
    PROVE  QueueKept(a, w)
  <1> DEFINE q == backlog[a]
             s == [i \in DOMAIN q |-> Seen(q[i], TRUE)]
             t == Established(a, w)
  <1>1. q \in Seq(End)
    BY DEF AgentsTypeOK
  <1>2. Len(q) \in Nat /\ DOMAIN q = 1..Len(q)
    BY <1>1, LenProperties
  <1>3. s \in Seq(End) /\ Len(s) = Len(q) /\ \A i \in DOMAIN q : s[i] = Seen(q[i], TRUE)
    <2>1. \A i \in 1..Len(q) : Seen(q[i], TRUE) \in End
      BY <1>1, SeenEnd, ElementOfSeq
    <2>2. s \in [1..Len(q) -> End] /\ \A i \in DOMAIN q : s[i] = Seen(q[i], TRUE)
      BY <1>2, <2>1
    <2> HIDE DEF s
    <2>3. s \in Seq(End)
      BY <1>2, <2>2, SeqDef
    <2>4. DOMAIN s = 1..Len(q)
      BY <2>2
    <2>5. \A m, n \in Nat : 1..m = 1..n => m = n
      OBVIOUS
    <2>6. Len(s) \in Nat /\ DOMAIN s = 1..Len(s)
      BY <2>3, LenProperties
    <2>7. QED
      BY <1>2, <2>2, <2>3, <2>4, <2>5, <2>6
  <1>4. backlog'[a] = s \o t
    BY DEF WorkerStep
  <1>5. t = IF Joins(a, w) THEN <<EndOf(sock[w])>> ELSE <<>>
    BY DEF Established
  <1> HIDE DEF s, t, q
  <1>6. DOMAIN s = DOMAIN q /\ \A i \in DOMAIN q : i \in 1..Len(q)
    BY <1>2, <1>3, LenProperties
  <1>7. t \in Seq(End)
    <2>1. <<>> \in Seq(End) /\ \A e \in End : <<e>> \in Seq(End)
      OBVIOUS
    <2>2. EndOf(sock[w]) \in End
      BY DEF EndOf, End, TypeOK
    <2>3. QED
      BY <1>5, <2>1, <2>2
  <1>8. /\ s \o t \in Seq(End) /\ Len(s \o t) = Len(q) + Len(t)
        /\ DOMAIN (s \o t) = 1..(Len(q) + Len(t))
        /\ \A i \in 1..(Len(q) + Len(t)) : (s \o t)[i] = IF i <= Len(q) THEN s[i] ELSE t[i - Len(q)]
    <2>1. /\ s \o t \in Seq(End) /\ Len(s \o t) = Len(s) + Len(t)
          /\ \A i \in 1..(Len(s) + Len(t)) :
                (s \o t)[i] = IF i <= Len(s) THEN s[i] ELSE t[i - Len(s)]
      BY <1>3, <1>7, ConcatProperties
    <2>2. DOMAIN (s \o t) = 1..Len(s \o t)
      BY <2>1, LenProperties
    <2>3. QED
      BY <1>3, <2>1, <2>2
  <1>9. \A i \in DOMAIN q : /\ i \in DOMAIN (s \o t)
                            /\ (s \o t)[i] = Seen(q[i], TRUE)
    <2>1. Len(t) \in Nat
      BY <1>7, LenProperties
    <2>2. \A i \in DOMAIN q : i \in 1..(Len(q) + Len(t)) /\ i <= Len(q)
      BY <1>2, <2>1
    <2>3. QED
      BY <1>3, <1>8, <2>2, Zenon
  <1>10. CASE Joins(a, w)
    <2>1. Len(t) = 1 /\ t[1] = EndOf(sock[w])
      BY <1>5, <1>10
    <2>2. (s \o t)[Len(q) + 1] = EndOf(sock[w]) /\ Len(q) + 1 \in DOMAIN (s \o t)
      BY <1>2, <1>8, <2>1
    <2>3. \A i \in DOMAIN (s \o t) : i \in DOMAIN q \/ i = Len(q) + 1
      BY <1>2, <1>8, <2>1
    <2>4. Len(q) + 1 \notin DOMAIN q
      BY <1>2
    <2>5. QED
      BY <1>4, <1>9, <1>10, <2>2, <2>3, <2>4, Zenon DEF q, QueueKept
  <1>11. CASE ~Joins(a, w)
    <2>1. Len(t) = 0
      BY <1>5, <1>11
    <2>2. \A i \in DOMAIN (s \o t) : i \in DOMAIN q
      BY <1>2, <1>8, <2>1
    <2>3. Len(q) + 1 \notin DOMAIN q
      BY <1>2
    <2>4. QED
      BY <1>4, <1>9, <1>11, <2>2, <2>3, Zenon DEF q, QueueKept
  <1>12. QED
    BY <1>10, <1>11

\* An end that has not become Gone is what it was.
LEMMA SeenSame ==
    ASSUME NEW e, NEW unread, Seen(e, unread).fd # NoFd
    PROVE  Seen(e, unread) = e /\ link'[e.fd] # "free"
  BY DEF Seen

\* A worker's step keeps both ends in agreement.
LEMMA WorkerEnds ==
    ASSUME TypeOK, IInv, EndsAgree, AgentsTypeOK', NEW w \in Nodes, WorkerStep(w)
    PROVE  EndsAgree'
  <1>0. AgentsTypeOK /\ Worker(w) /\ at' = at
    BY DEF EndsAgree, WorkerStep
  <1>1. \A a \in Agents : QueueKept(a, w) /\ cur'[a] = Seen(cur[a], at[a] = "read")
    BY <1>0, QueueStep DEF WorkerStep
  \* An end of a queue after the step was there before, or it is new.
  <1>2. ASSUME NEW a \in Agents, NEW i \in DOMAIN backlog'[a], backlog'[a][i].fd # NoFd
        PROVE  \/ /\ i \in DOMAIN backlog[a] /\ backlog'[a][i] = backlog[a][i]
                  /\ link'[backlog[a][i].fd] # "free"
               \/ Joins(a, w) /\ i = Len(backlog[a]) + 1 /\ backlog'[a][i].fd = sock[w]
    <2>1. QueueKept(a, w)
      BY <1>1
    <2>2. CASE i \in DOMAIN backlog[a]
      <3>1. backlog'[a][i] = Seen(backlog[a][i], TRUE)
        BY <2>1, <2>2, Zenon DEF QueueKept
      <3>2. QED
        BY <1>2, <2>2, <3>1, SeenSame
    <2>3. CASE Joins(a, w) /\ i = Len(backlog[a]) + 1
      <3>1. backlog'[a][i] = EndOf(sock[w])
        BY <2>1, <2>3, Zenon DEF QueueKept
      <3>2. QED
        BY <2>3, <3>1 DEF EndOf
    <2>4. QED
      BY <2>1, <2>2, <2>3, Zenon DEF QueueKept
  <1>3. ASSUME NEW e, NEW u, e.fd # NoFd, link'[e.fd] # "free" PROVE Seen(e, u) = e
    BY <1>3 DEF Seen
  <1>4. ASSUME NEW a \in Agents, NEW i \in DOMAIN backlog[a], backlog[a][i].fd # NoFd
        PROVE  backlog[a][i].fd \in Serves(a)
    BY <1>4 DEF Serves, Ends
  <1>5. ASSUME NEW a \in Agents, at[a] # "accept", cur[a].fd # NoFd
        PROVE  cur[a].fd \in Serves(a)
    BY <1>5 DEF Serves, Ends
  \* What an agent holds after the step it held before, or it is new.
  <1>6. ASSUME NEW a \in Agents, NEW f \in Serves(a)'
        PROVE  \/ f \in Serves(a) /\ link'[f] # "free"
               \/ Joins(a, w) /\ f = sock[w]
    <2>1. f # NoFd
      BY <1>6 DEF Serves
    <2>2. CASE at[a] # "accept" /\ f = cur'[a].fd
      BY <1>1, <1>5, <2>1, <2>2, SeenSame
    <2>3. CASE \E i \in DOMAIN backlog'[a] : f = backlog'[a][i].fd
      <3>1. PICK i \in DOMAIN backlog'[a] : f = backlog'[a][i].fd
        BY <2>3
      <3>2. QED
        BY <1>2, <1>4, <2>1, <3>1
    <2>4. QED
      BY <1>0, <1>6, <2>2, <2>3 DEF Serves, Ends
  <1>7. ASSUME NEW a \in Agents, NEW f \in Serves(a), link'[f] # "free"
        PROVE  f \in Serves(a)'
    <2>1. f # NoFd
      BY <1>7 DEF Serves
    <2>2. CASE at[a] # "accept" /\ f = cur[a].fd
      <3>1. cur'[a] = cur[a]
        BY <1>1, <1>3, <1>7, <2>1, <2>2
      <3>2. QED
        BY <1>0, <2>1, <2>2, <3>1 DEF Serves, Ends
    <2>3. CASE \E i \in DOMAIN backlog[a] : f = backlog[a][i].fd
      <3>1. PICK i \in DOMAIN backlog[a] : f = backlog[a][i].fd
        BY <2>3
      <3>2. i \in DOMAIN backlog'[a] /\ backlog'[a][i] = backlog[a][i]
        BY <1>1, <1>3, <1>7, <2>1, <3>1 DEF QueueKept
      <3>3. QED
        BY <2>1, <3>1, <3>2 DEF Serves, Ends
    <2>4. QED
      BY <1>7, <2>2, <2>3 DEF Serves, Ends
  <1>8. ASSUME NEW a \in Agents, NEW f \in Serves(a)
        PROVE  f \in Fd /\ link[f] = "open" /\ AgentOf[peer[f]] = a
    BY <1>0, <1>8, ServesFd DEF EndsAgree
  <1>9. ASSUME NEW a \in Agents, NEW f \in Serves(a)'
        PROVE  link'[f] = "open" /\ AgentOf[peer'[f]] = a
    BY <1>0, <1>6, <1>8, <1>9, WorkerLinks DEF Joins
  <1>10. ASSUME NEW a \in Agents PROVE NoDuplicate(a)'
    <2>1. ASSUME Joins(a, w) PROVE sock[w] \notin Serves(a)
      BY <1>0, <1>8, <2>1, WorkerLinks DEF Joins
    <2>2. ASSUME NEW i \in DOMAIN backlog'[a], backlog'[a][i].fd # NoFd
          PROVE  \/ i \in DOMAIN backlog[a] /\ backlog'[a][i] = backlog[a][i]
                 \/ Joins(a, w) /\ i = Len(backlog[a]) + 1 /\ backlog'[a][i].fd = sock[w]
      BY <1>2, <2>2
    <2>3. NoDuplicate(a)
      BY DEF EndsAgree
    <2>4. ASSUME NEW i \in DOMAIN backlog'[a], NEW j \in DOMAIN backlog'[a],
                 backlog'[a][i].fd = backlog'[a][j].fd, backlog'[a][i].fd # NoFd
          PROVE  i = j
      BY <1>4, <2>1, <2>2, <2>3, <2>4 DEF NoDuplicate
    <2>5. ASSUME at[a] # "accept", cur'[a].fd # NoFd, NEW i \in DOMAIN backlog'[a]
          PROVE  backlog'[a][i].fd # cur'[a].fd
      <3>1. cur'[a] = cur[a] /\ cur[a].fd \in Serves(a)
        BY <1>1, <1>5, <2>5, SeenSame
      <3>2. QED
        BY <2>1, <2>2, <2>3, <2>5, <3>1 DEF NoDuplicate
    <2>6. QED
      BY <1>0, <2>4, <2>5 DEF NoDuplicate
  <1>11. ASSUME NEW a \in Agents, at'[a] = "answer", cur'[a].fd # NoFd
         PROVE  reqs'[cur'[a].fd] # <<>>
    <2>1. cur'[a] = cur[a] /\ link'[cur[a].fd] # "free" /\ cur[a].fd \in Serves(a)
      BY <1>0, <1>1, <1>5, <1>11, SeenSame
    <2>2. reqs[cur[a].fd] # <<>>
      BY <1>0, <1>11, <2>1 DEF EndsAgree
    <2>3. QED
      BY <1>0, <1>8, <2>1, <2>2, WorkerLinks
  <1>12. ASSUME NEW f \in Fd, link'[f] = "open" PROVE \E a \in Agents : f \in Serves(a)'
    <2>1. CASE link[f] = "open"
      BY <1>7, <1>12, <2>1 DEF EndsAgree
    <2>2. CASE link[f] # "open"
      <3>1. AgentOf[w] \in Agents /\ Joins(AgentOf[w], w) /\ f = sock[w]
        BY <1>0, <1>12, <2>2, WorkerLinks, WatchAssumption DEF Joins
      <3>2. \E i \in DOMAIN backlog'[AgentOf[w]] : backlog'[AgentOf[w]][i].fd = f
        <4>1. QueueKept(AgentOf[w], w) /\ Joins(AgentOf[w], w)
          BY <1>1, <3>1
        <4>2. /\ Len(backlog[AgentOf[w]]) + 1 \in DOMAIN backlog'[AgentOf[w]]
              /\ backlog'[AgentOf[w]][Len(backlog[AgentOf[w]]) + 1] = EndOf(sock[w])
          BY <4>1, Zenon DEF QueueKept
        <4>3. EndOf(sock[w]).fd = f
          BY <3>1 DEF EndOf
        <4>4. QED
          BY <4>2, <4>3, Zenon
      <3>3. f # NoFd
        BY FetchAssumption DEF NoFd
      <3>4. QED
        BY <3>1, <3>2, <3>3 DEF Serves, Ends
    <2>3. QED
      BY <2>1, <2>2
  <1>13. QED
    BY <1>9, <1>10, <1>11, <1>12 DEF EndsAgree
\* What an agent serves when one agent's ends are moved about, none lost.
LEMMA SameEnds ==
    ASSUME EndsAgree, AgentsTypeOK', NEW a \in Agents,
           UNCHANGED <<link, peer, reqs>>,
           Serves(a)' = Serves(a),
           NoDuplicate(a)',
           at'[a] = "answer" /\ cur'[a].fd # NoFd => reqs'[cur'[a].fd] # <<>>,
           \A b \in Agents \ {a} : at'[b] = at[b] /\ cur'[b] = cur[b] /\ backlog'[b] = backlog[b]
    PROVE  EndsAgree'
  <1>1. ASSUME NEW b \in Agents
        PROVE  /\ Serves(b)' = Serves(b)
               /\ NoDuplicate(b)'
               /\ at'[b] = "answer" /\ cur'[b].fd # NoFd => reqs'[cur'[b].fd] # <<>>
    <2>1. CASE b = a
      BY <2>1
    <2>2. CASE b # a
      BY <2>2 DEF EndsAgree, Serves, Ends, NoDuplicate
    <2>3. QED
      BY <2>1, <2>2
  <1>2. QED
    BY <1>1 DEF EndsAgree

\* The ends in the rest of a queue.
LEMMA TailEnds ==
    ASSUME NEW s \in Seq(End), s # <<>>
    PROVE  /\ 1 \in DOMAIN s /\ Head(s) = s[1]
           /\ \A i \in DOMAIN Tail(s) : i + 1 \in DOMAIN s /\ i + 1 # 1 /\ Tail(s)[i] = s[i + 1]
           /\ \A i \in DOMAIN s : i = 1 \/ \E j \in DOMAIN Tail(s) : i = j + 1
           /\ \A i, j \in DOMAIN Tail(s) : i + 1 = j + 1 => i = j
  <1>1. Len(s) \in Nat \ {0} /\ DOMAIN s = 1..Len(s) /\ Head(s) = s[1]
    BY LenProperties, EmptySeq, HeadTailProperties
  <1>2. Len(Tail(s)) = Len(s) - 1 /\ DOMAIN Tail(s) = 1..(Len(s) - 1)
    BY <1>1, HeadTailProperties, LenProperties
  <1>3. \A i \in 1..(Len(s) - 1) : Tail(s)[i] = s[i + 1]
    BY <1>1, <1>2, HeadTailProperties
  <1>4. \A i \in DOMAIN s : i = 1 \/ (i - 1 \in DOMAIN Tail(s) /\ i = i - 1 + 1)
    BY <1>1, <1>2
  <1>5. QED
    BY <1>1, <1>2, <1>3, <1>4

\* A step of an agent keeps both ends in agreement.
LEMMA AgentEnds ==
    ASSUME TypeOK, IInv, EndsAgree, AgentsTypeOK', NEW a \in Agents, AgentStep(a)
    PROVE  EndsAgree'
  <1>1. AgentsTypeOK /\ NoDuplicate(a)
    BY DEF EndsAgree
  <1>2. ASSUME NEW b \in Agents, NEW f \in Serves(b)
        PROVE  f \in Fd /\ link[f] = "open" /\ AgentOf[peer[f]] = b
    BY <1>1, <1>2, ServesFd DEF EndsAgree
  <1>3. CASE Accept(a)
    <2> DEFINE q == backlog[a]
    <2>1. q \in Seq(End) /\ q # <<>> /\ at[a] = "accept"
      BY <1>1, <1>3 DEF Accept, AgentsTypeOK
    <2>2. at'[a] = "read" /\ cur'[a] = q[1] /\ backlog'[a] = Tail(q)
      BY <1>1, <1>3, <2>1, TailEnds DEF Accept, AgentsTypeOK
    <2>3. /\ \A i \in DOMAIN Tail(q) : i + 1 \in DOMAIN q /\ i + 1 # 1 /\ Tail(q)[i] = q[i + 1]
          /\ \A i \in DOMAIN q : i = 1 \/ \E j \in DOMAIN Tail(q) : i = j + 1
          /\ 1 \in DOMAIN q
          /\ \A i, j \in DOMAIN Tail(q) : i + 1 = j + 1 => i = j
      BY <2>1, TailEnds
    <2> HIDE DEF q
    <2>4. Serves(a)' = Serves(a)
      <3>1. {q[i] : i \in DOMAIN q} = {Tail(q)[i] : i \in DOMAIN Tail(q)} \cup {q[1]}
        BY <2>3
      <3>2. Ends(a)' = Ends(a)
        BY <2>1, <2>2, <3>1 DEF Ends, q
      <3>3. QED
        BY <3>2 DEF Serves
    <2>5. NoDuplicate(a)'
      <3>1. \A i, j \in DOMAIN q : q[i].fd = q[j].fd /\ q[i].fd # NoFd => i = j
        BY <1>1 DEF NoDuplicate, q
      <3>2. \A i, j \in DOMAIN Tail(q) :
              Tail(q)[i].fd = Tail(q)[j].fd /\ Tail(q)[i].fd # NoFd => i = j
        BY <2>3, <3>1
      <3>3. q[1].fd # NoFd => \A i \in DOMAIN Tail(q) : Tail(q)[i].fd # q[1].fd
        BY <2>3, <3>1
      <3>4. QED
        BY <2>2, <3>2, <3>3 DEF NoDuplicate
    <2>6. QED
      BY <1>3, <2>2, <2>4, <2>5, SameEnds DEF Accept, vars, kernel, AgentsTypeOK
  <1>4. CASE Read(a)
    <2>1. at[a] = "read" /\ at'[a] = "answer" /\ cur'[a].fd = cur[a].fd /\ backlog'[a] = backlog[a]
      BY <1>1, <1>4 DEF Read, AgentsTypeOK, End
    <2>2. Serves(a)' = Serves(a)
      BY <2>1 DEF Serves, Ends
    <2>3. NoDuplicate(a)'
      BY <1>1, <2>1 DEF NoDuplicate
    <2>4. cur'[a].fd # NoFd => reqs'[cur'[a].fd] # <<>>
      BY <1>4, <2>1 DEF Read, Asked, vars, kernel
    <2>5. QED
      BY <1>1, <1>4, <2>2, <2>3, <2>4, SameEnds DEF Read, vars, kernel, AgentsTypeOK
  <1>5. CASE ReadEnds(a)
    <2>1. cur[a].fd = NoFd /\ at'[a] = "accept" /\ cur'[a] = cur[a] /\ backlog'[a] = backlog[a]
      BY <1>1, <1>5 DEF ReadEnds, AgentsTypeOK, Gone
    <2>2. Serves(a)' = Serves(a)
      BY <2>1 DEF Serves, Ends
    <2>3. NoDuplicate(a)'
      BY <1>1, <2>1 DEF NoDuplicate
    <2>4. QED
      BY <1>1, <1>5, <2>1, <2>2, <2>3, SameEnds DEF ReadEnds, vars, kernel, AgentsTypeOK
  <1>6. CASE Respond(a)
    <2> DEFINE f == cur[a].fd
    <2>1. at[a] = "answer" /\ at' = [at EXCEPT ![a] = "read"] /\ UNCHANGED <<cur, backlog>>
      BY <1>6 DEF Respond
    <2>2. \A b \in Agents : Serves(b)' = Serves(b) /\ NoDuplicate(b)'
      BY <1>1, <2>1 DEF AgentsTypeOK, EndsAgree, Serves, Ends, NoDuplicate
    <2>3. UNCHANGED <<link, peer>>
      <3>1. CASE Reply(f)
        <4>1. link[f] = "open" /\ link' = [link EXCEPT ![f] = "open"] /\ peer' = peer
          BY <3>1, WatchAssumption DEF Reply
        <4>2. QED
          BY <4>1 DEF TypeOK
      <3>2. QED
        BY <1>6, <3>1 DEF Respond, vars, kernel
    <2>4. \A g \in Fd : g # f => reqs'[g] = reqs[g]
      BY <1>6 DEF Respond, Reply, vars, kernel, TypeOK
    <2>5. ASSUME NEW b \in Agents, at'[b] = "answer", cur'[b].fd # NoFd
          PROVE  reqs'[cur'[b].fd] # <<>>
      <3>1. b # a /\ at[b] = "answer" /\ cur[b].fd # NoFd
        BY <1>1, <2>1, <2>5 DEF AgentsTypeOK
      <3>2. cur[b].fd \in Serves(b) /\ reqs[cur[b].fd] # <<>>
        BY <3>1 DEF EndsAgree, Serves, Ends
      <3>3. f # NoFd => f \in Serves(a)
        BY <2>1 DEF Serves, Ends
      <3>4. cur[b].fd # f
        BY <1>2, <3>1, <3>2, <3>3
      <3>5. QED
        BY <1>2, <2>1, <2>4, <3>2, <3>4
    <2>6. QED
      BY <2>2, <2>3, <2>5 DEF EndsAgree
  <1>7. CASE Restart(a)
    <2>1. /\ at'[a] = "accept" /\ cur'[a] = Gone /\ backlog'[a] = <<>>
          /\ \A b \in Agents \ {a} : at'[b] = at[b] /\ cur'[b] = cur[b] /\ backlog'[b] = backlog[b]
      BY <1>1, <1>7 DEF Restart, AgentsTypeOK
    <2>2. Serves(a)' = {} /\ NoDuplicate(a)'
      BY <2>1 DEF Serves, Ends, NoDuplicate
    <2>3. \A b \in Agents \ {a} : Serves(b)' = Serves(b) /\ NoDuplicate(b)'
      BY <2>1 DEF EndsAgree, Serves, Ends, NoDuplicate
    \* One connection at most is lost: the agent had no other.
    <2>4. \E f \in Fd \cup {NoFd} :
            /\ f # NoFd => f \in Serves(a)
            /\ \A g \in Fd \ {f} : link'[g] = link[g] /\ reqs'[g] = reqs[g]
            /\ peer' = peer
            /\ f = NoFd => Serves(a) = {}
            /\ f # NoFd => link'[f] # "open"
      <3>1. CASE Serves(a) = {} /\ UNCHANGED vars
        BY <3>1 DEF vars, kernel
      <3>2. ASSUME NEW f \in Serves(a), PeerGone(f) \/ Truncate(f)
            PROVE  /\ \A g \in Fd \ {f} : link'[g] = link[g] /\ reqs'[g] = reqs[g]
                   /\ peer' = peer /\ link'[f] # "open"
        BY <1>2, <3>2 DEF PeerGone, Truncate, TypeOK
      <3>3. at[a] = "answer" /\ cur[a].fd # NoFd => cur[a].fd \in Serves(a)
        BY DEF Serves, Ends
      <3>4. \A f \in Serves(a) : f \in Fd /\ f # NoFd
        BY <1>2 DEF Serves
      <3>5. CASE \E f \in Serves(a) : PeerGone(f) \/ Truncate(f)
        BY <3>2, <3>4, <3>5
      <3>6. QED
        BY <1>7, <3>1, <3>3, <3>5 DEF Restart
    <2>5. PICK f \in Fd \cup {NoFd} :
            /\ f # NoFd => f \in Serves(a)
            /\ \A g \in Fd \ {f} : link'[g] = link[g] /\ reqs'[g] = reqs[g]
            /\ peer' = peer
            /\ f = NoFd => Serves(a) = {}
            /\ f # NoFd => link'[f] # "open"
      BY <2>4
    <2>6. ASSUME NEW b \in Agents \ {a}, NEW g \in Serves(b)
          PROVE  link'[g] = "open" /\ AgentOf[peer'[g]] = b /\ reqs'[g] = reqs[g]
      <3>1. g \in Fd /\ link[g] = "open" /\ AgentOf[peer[g]] = b
        BY <1>2, <2>6
      <3>2. g # f
        BY <1>2, <2>5, <2>6, <3>1 DEF Serves
      <3>3. QED
        BY <2>5, <3>1, <3>2
    <2>7. ASSUME NEW g \in Fd, link'[g] = "open" PROVE \E b \in Agents \ {a} : g \in Serves(b)
      <3>1. g # f /\ link[g] = "open"
        BY <2>5, <2>7, FetchAssumption DEF NoFd
      <3>2. PICK b \in Agents : g \in Serves(b)
        BY <3>1 DEF EndsAgree
      <3>3. ASSUME b = a PROVE FALSE
        <4>1. f \in Fd /\ f \in Serves(a) /\ g \in Serves(a)
          BY <2>5, <3>2, <3>3
        <4>2. peer[f] \in Nodes /\ Held(peer[f]) = f /\ peer[g] \in Nodes /\ Held(peer[g]) = g
          BY <1>2, <4>1, OpenHeld
        <4>3. AgentOf[peer[f]] = a /\ AgentOf[peer[g]] = a
          BY <1>2, <4>1
        <4>4. peer[f] = peer[g]
          BY <1>7, <4>2, <4>3 DEF Restart
        <4>5. QED
          BY <3>1, <4>2, <4>4
      <3>4. QED
        BY <3>2, <3>3
    <2>8. ASSUME NEW b \in Agents, at'[b] = "answer", cur'[b].fd # NoFd
          PROVE  reqs'[cur'[b].fd] # <<>>
      <3>1. b # a /\ at[b] = "answer" /\ cur'[b] = cur[b]
        BY <2>1, <2>8
      <3>2. cur[b].fd \in Serves(b) /\ reqs[cur[b].fd] # <<>>
        BY <2>8, <3>1 DEF EndsAgree, Serves, Ends
      <3>3. QED
        BY <2>6, <3>1, <3>2
    <2>9. QED
      BY <2>2, <2>3, <2>6, <2>7, <2>8 DEF EndsAgree
  <1>8. QED
    BY <1>3, <1>4, <1>5, <1>6, <1>7 DEF AgentStep, Serve

\* The agents' ends and the workers' agree, through every close, restart and late
\* answer, if the second name resolution of a fetch does not fail.
THEOREM WatchEndsAgree == ResolvesAgain => (WatchSpec => []EndsAgree)
  <1> SUFFICES ASSUME ResolvesAgain PROVE WatchSpec => []EndsAgree
    OBVIOUS
  <1>1. WatchInit /\ AgentsTypeOK => EndsAgree
    BY DEF WatchInit, Init, EndsAgree, Serves, Ends, NoDuplicate
  <1>2. TypeOK /\ IInv /\ AgentsTypeOK' /\ EndsAgree /\ [WatchNext]_watchVars => EndsAgree'
    <2> SUFFICES ASSUME TypeOK, IInv, AgentsTypeOK', EndsAgree, [WatchNext]_watchVars
                 PROVE  EndsAgree'
      OBVIOUS
    <2>1. ASSUME NEW w \in Nodes, WorkerStep(w) PROVE EndsAgree'
      BY <2>1, WorkerEnds
    <2>2. ASSUME NEW a \in Agents, AgentStep(a) PROVE EndsAgree'
      BY <2>2, AgentEnds
    <2>3. CASE (StartTick \/ Finished) /\ UNCHANGED <<agents, hurt>>
      BY <2>3 DEF StartTick, Finished, vars, kernel, agents, EndsAgree, Serves, Ends, NoDuplicate
    <2>4. CASE UNCHANGED watchVars
      BY <2>4 DEF watchVars, vars, kernel, agents, EndsAgree, Serves, Ends, NoDuplicate
    <2>5. QED
      BY <2>1, <2>2, <2>3, <2>4 DEF WatchNext
  <1>3. WatchSpec => []IInv
    BY WatchIsFetch, FetchInvariant, PTL
  <1>4. QED
    BY <1>1, <1>2, <1>3, WatchTypeCorrect, PTL DEF WatchSpec

-----------------------------------------------------------------------------
(* One trouble is hidden.                                                  *)

\* What stands in the inbox of f is a good answer.
Good(f) == inbox[f] # <<>> => Head(inbox[f]).code = "200" /\ Head(inbox[f]).whole

\* A fetch that reconnects has met a trouble.  One that has not met two still
\* has an address to try, and its connection is open: but for the first trouble
\* it met, and as long as it may reconnect.
HurtInv(w) ==
    /\ tried[w] => hurt[w] # 0
    /\ hurt[w] # 2 =>
         /\ pc[w] = "addr" => addrs[w] > 0
         /\ Held(w) # NoFd /\ pc[w] # "connect" =>
              /\ link[Held(w)] = "open" \/ (hurt[w] = 1 /\ ~tried[w])
              /\ Good(Held(w))

\* No two entries of the inventory lead to the same agent.
AgentEach == \A v, w \in Nodes : AgentOf[v] = AgentOf[w] => v = w

\* When a trouble is all that goes wrong: names resolve, sockets are to be had
\* and can be set up, requests can be sent; every node has its own agent.
OnlyTroubles ==
    /\ Faults \cap {"dns", "retry_dns", "socket", "setsockopt", "send"} = {}
    /\ IsFiniteSet(Nodes) /\ IsFiniteSet(Fd) /\ Cardinality(Nodes) <= Cardinality(Fd)
    /\ AgentEach

\* The thread of an agent of one's own does not wait for another worker.
LEMMA NotStuck ==
    ASSUME AgentEach, TypeOK, IInv, EndsAgree, NEW w \in Nodes, pc[w] # "idle"
    PROVE  ~Stuck(AgentOf[w])
  <1> DEFINE a == AgentOf[w]
             f == cur[a].fd
  <1>1. SUFFICES ASSUME at[a] = "read", f # NoFd, pc[peer[f]] = "idle"
                 PROVE  FALSE
    BY DEF Stuck
  <1>2. a \in Agents /\ AgentsTypeOK
    BY WatchAssumption DEF EndsAgree
  <1>3. f \in Serves(a)
    BY <1>1 DEF Serves, Ends
  <1>4. f \in Fd /\ link[f] = "open" /\ AgentOf[peer[f]] = a
    BY <1>2, <1>3, ServesFd DEF EndsAgree
  <1>5. peer[f] \in Nodes
    BY <1>4, OpenHeld
  <1>6. peer[f] = w
    BY <1>4, <1>5 DEF AgentEach
  <1>7. QED
    BY <1>1, <1>6

\* A client that is connected, has asked and waits is answered unless its agent
\* is late, when no host is listed twice: a shared agent is all that makes the
\* server thread stay with somebody else's connection (agent.c:92-133).
THEOREM WatchQueuedAnswered == ResolvesAgain /\ AgentEach => (WatchSpec => QueuedAnswered)
  <1> SUFFICES ASSUME ResolvesAgain, AgentEach PROVE WatchSpec => QueuedAnswered
    OBVIOUS
  <1> DEFINE InTime == \A w \in Nodes : Waiting(w) /\ pc'[w] # "recv" => Late(w)
  <1>1. TypeOK /\ IInv /\ EndsAgree => InTime
    BY NotStuck DEF Waiting, Late
  <1>2. WatchSpec => []IInv
    BY WatchIsFetch, FetchInvariant, PTL
  <1>3. QED
    BY <1>1, <1>2, WatchTypeCorrect, WatchEndsAgree, PTL DEF QueuedAnswered

\* A worker that holds no descriptor finds one free.
LEMMA DescriptorFree ==
    ASSUME OnlyTroubles, TypeOK, IInv, NEW w \in Nodes, Held(w) = NoFd
    PROVE  \E f \in Fd : link[f] = "free"
  <1> SUFFICES ASSUME \A f \in Fd : link[f] # "free"
               PROVE  FALSE
    OBVIOUS
  <1> DEFINE Others == Nodes \ {w}
             Holder == [f \in Fd |-> CHOOSE v \in Nodes : Held(v) = f]
  <1>1. \A f \in Fd : f # NoFd /\ \E v \in Nodes : Held(v) = f
    BY FetchAssumption DEF IInv, NoFd
  <1>2. \A f \in Fd : Holder[f] \in Nodes /\ Held(Holder[f]) = f
    BY <1>1
  <1>3. Holder \in [Fd -> Others]
    BY <1>1, <1>2
  <1>4. IsFiniteSet(Others) /\ Cardinality(Others) = Cardinality(Nodes) - 1
    BY FS_RemoveElement DEF OnlyTroubles
  <1>5. Cardinality(Others) < Cardinality(Fd)
    BY <1>4, FS_CardinalityType DEF OnlyTroubles
  <1> HIDE DEF Others, Holder
  <1>6. \E f, g \in Fd : f # g /\ Holder[f] = Holder[g]
    BY <1>3, <1>4, <1>5, FS_PigeonHole DEF OnlyTroubles
  <1>7. QED
    BY <1>2, <1>6

\* What nobody touches is as it was.
LEMMA HurtKept ==
    ASSUME NEW w \in Nodes, HurtInv(w), TypeOK,
           pc'[w] = pc[w], tried'[w] = tried[w], addrs'[w] = addrs[w], hurt'[w] = hurt[w],
           Held(w)' = Held(w),
           Held(w) # NoFd => link'[Held(w)] = link[Held(w)] /\ inbox'[Held(w)] = inbox[Held(w)]
    PROVE  HurtInv(w)'
  BY DEF HurtInv, Good

\* A worker touches its own descriptor, or one that was free.
LEMMA WorkerTouches ==
    ASSUME TypeOK, IInv, NEW v \in Nodes, Worker(v)
    PROVE  /\ \A w \in Nodes \ {v} : /\ pc'[w] = pc[w]       /\ sock'[w] = sock[w]
                                     /\ tried'[w] = tried[w] /\ addrs'[w] = addrs[w]
                                     /\ psock'[w] = psock[w]
           /\ \A g \in Fd : g = Held(v) \/ link[g] = "free"
                              \/ (link'[g] = link[g] /\ inbox'[g] = inbox[g])
  <1>0. /\ pc[v] \in {"connect", "send", "recv"} => Held(v) = sock[v]
        /\ pc[v] = "reuse" => Held(v) = sock[v]
    BY TalkingHolds DEF IInv, LocalsInv, Held, TypeOK
  <1>1. CASE pc[v] \in {"connect", "send", "recv"} /\ \E s : NextAddr(v, s)
    BY <1>0, <1>1 DEF NextAddr, Close, TypeOK
  <1>2. CASE pc[v] \in {"connect", "send", "recv"} /\ Reconnect(v)
    BY <1>0, <1>2 DEF Reconnect, Close, TypeOK
  <1>3. CASE SendFails(v) \/ ReceiveEof(v) \/ ReceiveFails(v) \/ ConnectFails(v)
    BY <1>1, <1>2, <1>3 DEF SendFails, ReceiveEof, ReceiveFails, ConnectFails, Broken
  <1>4. CASE Resolve(v) \/ Reuse(v) \/ OpenSocketFails(v)
    BY <1>4 DEF Resolve, Reuse, OpenSocketFails, kernel, TypeOK
  <1>5. CASE ResolveFails(v) \/ AddrsExhausted(v)
    BY <1>5 DEF ResolveFails, AddrsExhausted, Return, kernel, TypeOK
  <1>6. CASE ReuseFails(v)
    BY <1>0, <1>6 DEF ReuseFails, Close, TypeOK
  <1>7. CASE OpenSocket(v)
    BY <1>7 DEF OpenSocket, LowestFree, TypeOK
  <1>8. CASE Connect(v)
    BY <1>0, <1>8 DEF Connect, TypeOK
  <1>9. CASE Send(v)
    BY <1>9 DEF Send, TypeOK
  <1>10. CASE Receive(v)
    <2>1. PICK r : Return(v, r)
      BY <1>10 DEF Receive
    <2>2. /\ pc[v] = "recv" /\ link' = link
          /\ psock' = [psock EXCEPT ![v] = sock[v]]
          /\ inbox' = [inbox EXCEPT ![sock[v]] = Tail(@)]
      BY <1>10, WatchAssumption DEF Receive
    <2>3. \A w \in Nodes \ {v} : /\ pc'[w] = pc[w]       /\ sock'[w] = sock[w]
                                 /\ tried'[w] = tried[w] /\ addrs'[w] = addrs[w]
                                 /\ psock'[w] = psock[w]
      BY <2>1, <2>2 DEF Return, TypeOK
    <2>4. \A g \in Fd : g = Held(v) \/ (link'[g] = link[g] /\ inbox'[g] = inbox[g])
      BY <1>0, <2>2 DEF TypeOK
    <2>5. QED
      BY <2>3, <2>4
  <1>11. QED
    BY <1>3, <1>4, <1>5, <1>6, <1>7, <1>8, <1>9, <1>10 DEF Worker

\* The step of another worker does not matter.
LEMMA OtherHurt ==
    ASSUME TypeOK, IInv, AgentsTypeOK, NEW v \in Nodes, NEW w \in Nodes \ {v},
           WorkerStep(v), HurtInv(w)
    PROVE  HurtInv(w)'
  <1>1. /\ pc'[w] = pc[w] /\ sock'[w] = sock[w] /\ tried'[w] = tried[w]
        /\ addrs'[w] = addrs[w] /\ psock'[w] = psock[w]
        /\ \A g \in Fd : g = Held(v) \/ link[g] = "free"
                           \/ (link'[g] = link[g] /\ inbox'[g] = inbox[g])
    BY WorkerTouches DEF WorkerStep
  <1>2. Held(w)' = Held(w)
    BY <1>1 DEF Held
  <1>3. hurt'[w] = hurt[w]
    BY DEF WorkerStep, AgentsTypeOK
  <1>4. Held(w) # NoFd => Held(w) \in Fd /\ Held(w) # Held(v) /\ link[Held(w)] # "free"
    <2>1. Held(w) \in Fd \cup {NoFd}
      BY DEF Held, TypeOK
    <2>2. Held(w) # NoFd => Held(w) # Held(v)
      BY DEF IInv
    <2>3. Held(w) # NoFd => link[Held(w)] # "free"
      BY DEF IInv, HeldInv, Live
    <2>4. QED
      BY <2>1, <2>2, <2>3
  <1>5. QED
    BY <1>1, <1>2, <1>3, <1>4, HurtKept

\* What a worker's step makes of its troubles.
LEMMA HurtNext ==
    ASSUME OnlyTroubles, TypeOK, IInv, EndsAgree, NEW w \in Nodes, WorkerStep(w)
    PROVE  /\ pc[w] # "idle" /\ hurt[w] \in 0..2
           /\ hurt'[w] = IF pc'[w] = "idle" THEN IF Dead(psock'[w]) THEN 1 ELSE 0
                         ELSE IF Waiting(w) THEN More(hurt[w]) ELSE hurt[w]
           /\ ~(pc[w] = "connect" /\ pc'[w] = "addr")
  <1>1. pc[w] # "idle"
    BY DEF WorkerStep, Worker, Resolve, ResolveFails, Reuse, ReuseFails, OpenSocket, OpenSocketFails,
           Connect, ConnectFails, AddrsExhausted, Send, SendFails, Receive, ReceiveEof, ReceiveFails
  <1>2. ~Stuck(AgentOf[w])
    BY <1>1, NotStuck DEF OnlyTroubles
  <1>3. Late(w) <=> Waiting(w)
    BY <1>2 DEF Late
  <1>4. hurt \in [Nodes -> 0..2]
    BY DEF EndsAgree, AgentsTypeOK
  <1>5. hurt'[w] = IF pc'[w] = "idle" THEN IF Dead(psock'[w]) THEN 1 ELSE 0
                   ELSE IF Late(w) THEN More(hurt[w]) ELSE hurt[w]
    BY <1>4 DEF WorkerStep
  <1>6. ~(pc[w] = "connect" /\ pc'[w] = "addr")
    BY <1>2 DEF WorkerStep, Timely
  <1>7. QED
    BY <1>1, <1>3, <1>4, <1>5, <1>6

\* An exchange that breaks: the trouble has been, or is being, felt.
LEMMA BrokenHurt ==
    ASSUME OnlyTroubles, TypeOK, IInv, EndsAgree, NEW w \in Nodes, WorkerStep(w), HurtInv(w),
           SendFails(w) \/ ReceiveEof(w) \/ ReceiveFails(w)
    PROVE  HurtInv(w)' /\ pc'[w] # "idle"
  <1>1. pc[w] \in {"send", "recv"}
    BY DEF SendFails, ReceiveEof, ReceiveFails
  <1>2. Held(w) = sock[w] /\ Held(w) # NoFd
    BY <1>1, TalkingHolds
  <1>3. PICK s : Broken(w, s)
    BY DEF SendFails, ReceiveEof, ReceiveFails
  <1>4. Waiting(w) \/ link[Held(w)] # "open"
    BY <1>2 DEF SendFails, ReceiveEof, ReceiveFails, Waiting, OnlyTroubles
  <1>5. hurt[w] # 2 => link[Held(w)] = "open" \/ (hurt[w] = 1 /\ ~tried[w])
    BY <1>1, <1>2 DEF HurtInv
  <1>6. (tried[w] => hurt[w] # 0) /\ hurt[w] \in 0..2
    BY HurtNext DEF HurtInv
  <1>7. CASE ~tried[w]
    <2>1. pc'[w] = "resolve" /\ tried'[w]
      BY <1>3, <1>7, WatchAssumption DEF Broken, Reconnect, TypeOK
    <2>2. Held(w)' = NoFd
      BY <2>1 DEF Held
    <2>3. hurt'[w] = IF Waiting(w) THEN More(hurt[w]) ELSE hurt[w]
      BY <2>1, HurtNext
    <2>4. hurt'[w] # 0
      BY <1>4, <1>5, <1>6, <2>3 DEF More
    <2>5. QED
      BY <2>1, <2>2, <2>4 DEF HurtInv
  <1>8. CASE tried[w]
    <2>1. pc'[w] = "addr"
      BY <1>3, <1>8 DEF Broken, NextAddr, TypeOK
    <2>2. hurt'[w] = IF Waiting(w) THEN More(hurt[w]) ELSE hurt[w]
      BY <2>1, HurtNext
    <2>3. hurt'[w] = 2
      BY <1>4, <1>5, <1>6, <1>8, <2>2 DEF More
    <2>4. QED
      BY <2>1, <2>3 DEF HurtInv
  <1>9. QED
    BY <1>7, <1>8 DEF TypeOK

\* An answer is taken: the row is good unless the answer was not.
LEMMA ReceiveHurt ==
    ASSUME OnlyTroubles, TypeOK, IInv, IInv', EndsAgree, NEW w \in Nodes, WorkerStep(w), HurtInv(w),
           Receive(w)
    PROVE  HurtInv(w)' /\ (row'[w].state = "OK" \/ hurt[w] = 2)
  <1> DEFINE r == Head(inbox[sock[w]])
  <1>1. pc[w] = "recv" /\ inbox[sock[w]] # <<>>
    BY DEF Receive
  <1>2. sock[w] \in Fd /\ Held(w) = sock[w] /\ Held(w) # NoFd
    BY <1>1, TalkingHolds
  <1>3. PICK s \in States(r) : Return(w, RowOf(r, s))
    BY DEF Receive
  <1>4. psock'[w] = sock[w] /\ link' = link
    BY WatchAssumption DEF Receive, TypeOK
  <1>5. pc'[w] = "idle" /\ ~tried'[w] /\ row'[w] = RowOf(r, s)
    BY <1>3 DEF Return, TypeOK
  <1>6. Held(w)' = sock[w]
    BY <1>4, <1>5 DEF Held
  <1>7. link[sock[w]] \in Live /\ inbox'[sock[w]] = <<>>
    <2>1. HeldInv(w)'
      BY DEF IInv
    <2>2. PICK g \in Fd : g = sock[w] /\ g # NoFd
      BY <1>2
    <2>3. Held(w)' = g
      BY <1>6, <2>2
    <2>4. Wire(w, g)' /\ link'[g] \in Live
      BY <1>5, <2>1, <2>2, <2>3 DEF HeldInv
    <2>5. QED
      BY <1>4, <1>5, <2>2, <2>4 DEF Wire
  <1>8. link[sock[w]] # "open" => hurt'[w] = 1
    <2>1. hurt'[w] = IF Dead(psock'[w]) THEN 1 ELSE 0
      BY <1>5, HurtNext
    <2>2. link[sock[w]] # "open" => Dead(psock'[w])
      BY <1>2, <1>4, <1>7 DEF Dead, Live
    <2>3. QED
      BY <2>1, <2>2
  <1>9. HurtInv(w)'
    BY <1>4, <1>5, <1>6, <1>7, <1>8 DEF HurtInv, Good
  <1>10. ASSUME hurt[w] # 2 PROVE row'[w].state = "OK"
    <2>1. r.code = "200" /\ r.whole
      BY <1>1, <1>2, <1>10 DEF HurtInv, Good
    <2> HIDE DEF r
    <2>2. s = "OK"
      BY <1>3, <2>1 DEF States
    <2>3. QED
      BY <1>5, <2>2 DEF RowOf
  <1>11. QED
    BY <1>9, <1>10

\* A fetch fails only after two troubles.
LEMMA OwnHurt ==
    ASSUME OnlyTroubles, TypeOK, IInv, IInv', EndsAgree, NEW w \in Nodes, WorkerStep(w), HurtInv(w)
    PROVE  HurtInv(w)' /\ (pc'[w] = "idle" => row'[w].state = "OK" \/ hurt[w] = 2)
  <1>1. LocalsInv(w) /\ HeldInv(w)
    BY DEF IInv
  <1>2. /\ pc[w] # "idle" /\ hurt[w] \in 0..2
        /\ pc'[w] # "idle" /\ pc[w] # "recv" => hurt'[w] = hurt[w]
    BY HurtNext DEF Waiting
  <1>3. Held(w) \in Fd \cup {NoFd}
    BY DEF Held, TypeOK
  <1>4. CASE Resolve(w)
    <2>1. /\ pc[w] = "resolve" /\ addrs'[w] > 0 /\ UNCHANGED <<sock, tried, psock, kernel>>
          /\ pc'[w] = IF sock[w] = NoFd THEN "addr" ELSE "reuse"
      BY <1>4, FetchAssumption DEF Resolve, TypeOK
    <2>2. Held(w)' # NoFd => Held(w)' = Held(w)
      BY <1>1, <2>1 DEF Held, LocalsInv
    <2>3. pc'[w] # "idle" /\ hurt'[w] = hurt[w] /\ tried'[w] = tried[w]
      BY <1>2, <2>1
    <2>4. UNCHANGED <<link, inbox>>
      BY <2>1 DEF kernel
    <2>5. QED
      BY <2>1, <2>2, <2>3, <2>4 DEF HurtInv, Good
  <1>5. CASE Reuse(w)
    <2>1. /\ pc[w] = "reuse" /\ pc'[w] = "send" /\ UNCHANGED <<sock, tried, psock, addrs, kernel>>
      BY <1>5 DEF Reuse, TypeOK
    <2>2. sock[w] # NoFd
      BY <2>1 DEF TypeOK
    <2>3. Held(w)' = Held(w)
      BY <1>1, <2>1, <2>2 DEF Held, LocalsInv
    <2>4. UNCHANGED <<link, inbox>> /\ hurt'[w] = hurt[w]
      BY <1>2, <2>1 DEF kernel
    <2>5. QED
      BY <2>1, <2>3, <2>4 DEF HurtInv, Good
  <1>6. CASE OpenSocket(w)
    <2>1. pc[w] = "addr" /\ pc'[w] = "connect" /\ tried' = tried
      BY <1>6 DEF OpenSocket, TypeOK
    <2>2. hurt'[w] = hurt[w]
      BY <1>2, <2>1
    <2>3. QED
      BY <2>1, <2>2 DEF HurtInv
  <1>7. CASE Connect(w)
    <2>1. /\ pc[w] = "connect" /\ pc'[w] = "send" /\ UNCHANGED <<sock, tried, addrs, inbox>>
          /\ link[sock[w]] = "new" /\ link' = [link EXCEPT ![sock[w]] = "open"]
      BY <1>7 DEF Connect, TypeOK
    <2>2. sock[w] \in Fd /\ Held(w)' = sock[w]
      BY <2>1, TalkingHolds DEF Held
    <2>3. link'[sock[w]] = "open" /\ inbox'[sock[w]] = <<>>
      BY <2>1, <2>2 DEF TypeOK, IInv
    <2>4. hurt'[w] = hurt[w]
      BY <1>2, <2>1
    <2>5. QED
      BY <2>1, <2>2, <2>3, <2>4 DEF HurtInv, Good
  <1>8. CASE Send(w)
    <2>1. /\ pc[w] = "send" /\ pc'[w] = "recv" /\ UNCHANGED <<sock, tried, addrs, psock, link, inbox>>
      BY <1>8 DEF Send, TypeOK
    <2>2. Held(w)' = Held(w) /\ hurt'[w] = hurt[w]
      BY <1>2, <2>1 DEF Held
    <2>3. QED
      BY <2>1, <2>2 DEF HurtInv, Good
  <1>9. CASE AddrsExhausted(w)
    <2>1. /\ pc[w] = "addr" /\ addrs[w] = 0 /\ pc'[w] = "idle" /\ ~tried'[w]
          /\ psock'[w] = NoFd
      BY <1>9 DEF AddrsExhausted, Return, TypeOK
    <2>2. Held(w)' = NoFd
      BY <2>1 DEF Held
    <2>3. hurt[w] = 2
      BY <2>1 DEF HurtInv
    <2>4. QED
      BY <2>1, <2>2, <2>3 DEF HurtInv
  \* These do not happen.
  <1>10. CASE ResolveFails(w)
    BY <1>10 DEF ResolveFails, OnlyTroubles
  <1>11. CASE ReuseFails(w)
    <2>1. Held(w) = sock[w] /\ sock[w] # NoFd /\ link[sock[w]] = "free" /\ pc[w] = "reuse"
      BY <1>1, <1>11 DEF ReuseFails, OnlyTroubles, Held, LocalsInv, TypeOK
    <2>2. QED
      BY <1>1, <2>1 DEF HeldInv, Live
  <1>12. CASE OpenSocketFails(w)
    <2>1. pc[w] = "addr" /\ \A f \in Fd : link[f] # "free"
      BY <1>12 DEF OpenSocketFails, OnlyTroubles
    <2>2. Held(w) = NoFd
      BY <2>1 DEF Held
    <2>3. QED
      BY <2>1, <2>2, DescriptorFree
  <1>13. CASE ConnectFails(w)
    <2>1. pc[w] = "connect" /\ pc'[w] = "addr"
      BY <1>13 DEF ConnectFails, NextAddr, TypeOK
    <2>2. QED
      BY <2>1, HurtNext
  <1>14. CASE Receive(w)
    BY <1>14, ReceiveHurt
  <1>15. CASE SendFails(w) \/ ReceiveEof(w) \/ ReceiveFails(w)
    BY <1>15, BrokenHurt
  <1>16. QED
    BY <1>4, <1>5, <1>6, <1>7, <1>8, <1>9, <1>10, <1>11, <1>12, <1>13, <1>14, <1>15
       DEF WorkerStep, Worker

\* A restart is a trouble; nothing else an agent does is.
LEMMA AgentHurt ==
    ASSUME OnlyTroubles, TypeOK, IInv, EndsAgree, NEW a \in Agents, AgentStep(a),
           NEW w \in Nodes, HurtInv(w)
    PROVE  HurtInv(w)' /\ pc' = pc
  <1> DEFINE f == cur[a].fd
  <1>1. AgentsTypeOK /\ \A g \in Serves(a) : g \in Fd /\ link[g] = "open" /\ AgentOf[peer[g]] = a
    BY ServesFd DEF EndsAgree
  <1>2. at[a] # "accept" /\ f # NoFd => f \in Serves(a)
    BY DEF Serves, Ends
  <1>3. HeldInv(w) /\ Held(w) \in Fd \cup {NoFd}
    BY DEF IInv, Held, TypeOK
  <1>4. \A g \in Serves(a) : g = Held(w) => AgentOf[w] = a
    BY <1>1, <1>3 DEF HeldInv, Serves
  <1>5. CASE Accept(a) \/ Read(a) \/ ReadEnds(a)
    <2>1. UNCHANGED <<pc, sock, tried, addrs, psock, link, inbox, hurt>>
      BY <1>5 DEF Accept, Read, ReadEnds, vars, worker, kernel
    <2>2. Held(w)' = Held(w)
      BY <2>1 DEF Held
    <2>3. QED
      BY <2>1, <2>2, HurtKept
  <1>6. CASE Respond(a)
    <2>1. UNCHANGED <<pc, sock, tried, addrs, psock, hurt>> /\ at[a] = "answer"
      BY <1>6 DEF Respond, Reply, vars, worker
    <2>2. Held(w)' = Held(w)
      BY <2>1 DEF Held
    <2>3. CASE f = NoFd
      BY <1>6, <2>1, <2>2, <2>3, HurtKept DEF Respond, vars, kernel
    <2>4. CASE f # NoFd
      <3>1. Reply(f) /\ f \in Fd
        BY <1>1, <1>2, <1>6, <2>1, <2>4 DEF Respond
      <3>2. link' = link
        <4>1. link[f] = "open" /\ link' = [link EXCEPT ![f] = "open"]
          BY <3>1, WatchAssumption DEF Reply
        <4>2. QED
          BY <4>1 DEF TypeOK
      <3>3. inbox' = [inbox EXCEPT ![f] = Append(@, [from |-> peer[f], to |-> Head(reqs[f]),
                                                     code |-> "200", whole |-> TRUE])]
        BY <3>1, WatchAssumption DEF Reply
      <3>4. CASE Held(w) # f
        <4>1. Held(w) # NoFd => link'[Held(w)] = link[Held(w)] /\ inbox'[Held(w)] = inbox[Held(w)]
          BY <1>3, <3>2, <3>3, <3>4 DEF TypeOK
        <4>2. QED
          BY <2>1, <2>2, <4>1, HurtKept
      <3>5. CASE Held(w) = f
        <4>1. link[f] = "open" /\ reqs[f] # <<>>
          BY <3>1 DEF Reply
        <4>2. inbox[f] = <<>> /\ pc[w] = "recv"
          BY <1>3, <2>4, <3>5, <4>1 DEF HeldInv, Wire
        <4> DEFINE r == [from |-> peer[f], to |-> Head(reqs[f]), code |-> "200", whole |-> TRUE]
        <4>3. r.code = "200" /\ r.whole
          OBVIOUS
        <4>4. inbox'[f] = Append(<<>>, r)
          BY <3>1, <3>3, <4>2 DEF TypeOK
        <4> HIDE DEF r
        <4>5. Head(inbox'[f]) = r
          BY <4>4
        <4> HIDE DEF f
        <4>6. PICK g \in Fd : g = f /\ g # NoFd
          BY <2>4, <3>1
        <4>7. Good(g)' /\ link'[g] = "open"
          BY <3>2, <4>1, <4>3, <4>5, <4>6 DEF Good
        <4>8. Held(w)' = g
          BY <2>2, <3>5, <4>6
        <4>9. pc'[w] = "recv" /\ tried'[w] = tried[w] /\ hurt'[w] = hurt[w]
          BY <2>1, <4>2
        <4>10. HurtInv(w)'
          BY <4>7, <4>8, <4>9 DEF HurtInv
        <4>11. QED
          BY <2>1, <4>10
      <3>6. QED
        BY <3>4, <3>5
    <2>5. QED
      BY <2>3, <2>4
  <1>7. CASE Restart(a)
    <2>1. \/ Serves(a) = {} /\ UNCHANGED vars
          \/ \E g \in Serves(a) : PeerGone(g)
          \/ f \in Serves(a) /\ Truncate(f)
      BY <1>2, <1>7 DEF Restart
    <2>2. UNCHANGED <<pc, sock, tried, addrs, psock>>
      BY <2>1 DEF PeerGone, Truncate, vars, worker
    <2>3. Held(w)' = Held(w)
      BY <2>2 DEF Held
    <2>4. /\ hurt \in [Nodes -> 0..2]
          /\ hurt'[w] = IF AgentOf[w] # a THEN hurt[w]
                        ELSE IF inbox' # inbox THEN 2 ELSE More(hurt[w])
      BY <1>1, <1>7 DEF Restart, AgentsTypeOK
    <2>5. CASE AgentOf[w] # a
      <3>1. Held(w) # NoFd => link'[Held(w)] = link[Held(w)] /\ inbox'[Held(w)] = inbox[Held(w)]
        BY <1>1, <1>3, <1>4, <2>1, <2>5 DEF PeerGone, Truncate, vars, kernel, TypeOK
      <3>2. QED
        BY <2>2, <2>3, <2>4, <2>5, <3>1, HurtKept
    <2>6. CASE AgentOf[w] = a /\ inbox' # inbox
      BY <2>2, <2>4, <2>6 DEF HurtInv
    <2>7. CASE AgentOf[w] = a /\ inbox' = inbox
      <3>1. hurt'[w] = More(hurt[w]) /\ hurt[w] \in 0..2
        BY <2>4, <2>7
      <3>2. hurt'[w] # 2 => hurt[w] = 0 /\ hurt'[w] = 1 /\ ~tried[w]
        BY <3>1 DEF More, HurtInv
      <3>3. hurt'[w] # 0
        BY <3>1 DEF More
      <3>4. QED
        BY <2>2, <2>3, <2>7, <3>2, <3>3 DEF HurtInv, Good
    <2>8. QED
      BY <2>5, <2>6, <2>7
  <1>8. QED
    BY <1>5, <1>6, <1>7 DEF AgentStep, Serve

\* A refresh does not change what a worker holds.
LEMMA StartHurt ==
    ASSUME TypeOK, IInv, StartTick, hurt' = hurt, NEW w \in Nodes, HurtInv(w)
    PROVE  HurtInv(w)' /\ pc'[w] # "idle"
  <1>1. /\ pc[w] = "idle" /\ pc'[w] = "resolve" /\ ~tried[w]
        /\ UNCHANGED <<tried, psock, link, inbox>>
    BY DEF StartTick, AtRest, IInv, LocalsInv, kernel
  <1>2. Held(w)' = Held(w)
    BY <1>1 DEF Held
  <1>3. QED
    BY <1>1, <1>2 DEF HurtInv, Good

\* One trouble with an agent never shows in the table; it takes two to make a
\* fetch fail, whatever the number of nodes, refreshes and troubles.
THEOREM WatchOneTroubleHidden == OnlyTroubles => (WatchSpec => OneTroubleHidden)
  <1> SUFFICES ASSUME OnlyTroubles PROVE WatchSpec => OneTroubleHidden
    OBVIOUS
  <1> DEFINE HurtOK == \A w \in Nodes : HurtInv(w)
             Shown1 == \A w \in Nodes : pc[w] # "idle" /\ pc'[w] = "idle" =>
                                          row'[w].state = "OK" \/ hurt[w] = 2
  <1>0. ResolvesAgain
    BY DEF OnlyTroubles, ResolvesAgain
  <1>1. WatchInit => HurtOK
    <2> SUFFICES ASSUME WatchInit, NEW w \in Nodes PROVE HurtInv(w)
      OBVIOUS
    <2>1. pc[w] = "idle" /\ psock[w] = NoFd /\ ~tried[w]
      BY DEF WatchInit, Init
    <2>2. Held(w) = NoFd
      BY <2>1 DEF Held
    <2>3. QED
      BY <2>1, <2>2 DEF HurtInv
  <1>2. TypeOK /\ IInv /\ IInv' /\ EndsAgree /\ HurtOK /\ [WatchNext]_watchVars
          => HurtOK' /\ Shown1
    <2> SUFFICES ASSUME TypeOK, IInv, IInv', EndsAgree, HurtOK, [WatchNext]_watchVars,
                        NEW w \in Nodes
                 PROVE  /\ HurtInv(w)'
                        /\ pc[w] # "idle" /\ pc'[w] = "idle" =>
                             row'[w].state = "OK" \/ hurt[w] = 2
      OBVIOUS
    <2>1. HurtInv(w) /\ AgentsTypeOK
      BY DEF EndsAgree
    <2>2. ASSUME NEW v \in Nodes, WorkerStep(v), v # w
          PROVE  HurtInv(w)' /\ pc'[w] = pc[w]
      <3>1. w \in Nodes \ {v}
        BY <2>2
      <3>2. pc'[w] = pc[w]
        BY <2>2, <3>1, WorkerTouches DEF WorkerStep
      <3>3. QED
        BY <2>1, <2>2, <3>1, <3>2, OtherHurt
    <2>3. CASE WorkerStep(w)
      BY <2>1, <2>3, OwnHurt
    <2>4. ASSUME NEW a \in Agents, AgentStep(a) PROVE HurtInv(w)' /\ pc' = pc
      BY <2>1, <2>4, AgentHurt
    <2>5. CASE StartTick /\ UNCHANGED <<agents, hurt>>
      BY <2>1, <2>5, StartHurt
    <2>6. CASE (Finished /\ UNCHANGED <<agents, hurt>>) \/ UNCHANGED watchVars
      <3>1. UNCHANGED <<pc, sock, tried, addrs, psock, link, inbox, hurt>>
        BY <2>6 DEF Finished, watchVars, vars, worker, kernel
      <3>2. Held(w)' = Held(w)
        BY <3>1 DEF Held
      <3>3. QED
        BY <2>1, <3>1, <3>2, HurtKept
    <2>7. QED
      BY <2>2, <2>3, <2>4, <2>5, <2>6 DEF WatchNext
  <1>3. WatchSpec => []IInv
    BY <1>0, WatchIsFetch, FetchInvariant, PTL
  <1>4. WatchSpec => []EndsAgree
    BY <1>0, WatchEndsAgree
  <1> HIDE DEF HurtOK
  <1>5. QED
    BY <1>1, <1>2, <1>3, <1>4, WatchTypeCorrect, PTL DEF WatchSpec, OneTroubleHidden
=============================================================================
