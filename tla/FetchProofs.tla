---------------------------- MODULE FetchProofs -----------------------------
(***************************************************************************)
(* Theorems about Fetch, for any inventory, descriptor limit, number of    *)
(* addresses and number of refreshes.                                      *)
(***************************************************************************)
EXTENDS Fetch, TLAPS

-----------------------------------------------------------------------------
(* Type correctness, whatever fails.                                       *)

\* Closing a descriptor keeps the kernel's tables well typed.
LEMMA CloseType ==
    ASSUME TypeOK, NEW f \in Fd, Close(f)
    PROVE  /\ link'  \in [Fd -> Link]
           /\ peer'  \in [Fd -> Nodes \cup {NoNode}]
           /\ reqs'  \in [Fd -> Seq(Request)]
           /\ inbox' \in [Fd -> Seq(Response)]
  <1>1. <<>> \in Seq(Request) /\ <<>> \in Seq(Response)
    OBVIOUS
  <1>2. QED
    BY <1>1 DEF TypeOK, Close, Link

\* Giving an address up keeps the types: there was one to give up.
LEMMA NextAddrType ==
    ASSUME TypeOK, NEW w \in Nodes, NEW s \in Failure,
           addrs[w] > 0, sock[w] \in Fd, NextAddr(w, s)
    PROVE  TypeOK'
  <1>1. /\ link'  \in [Fd -> Link]
        /\ peer'  \in [Fd -> Nodes \cup {NoNode}]
        /\ reqs'  \in [Fd -> Seq(Request)]
        /\ inbox' \in [Fd -> Seq(Response)]
    BY CloseType DEF NextAddr
  <1>2. addrs' \in [Nodes -> 0..MaxAddrs]
    BY FetchAssumption DEF TypeOK, NextAddr
  <1>3. QED
    BY <1>1, <1>2 DEF TypeOK, NextAddr, Pc

\* A broken exchange keeps the types, reconnecting or not.
LEMMA BrokenType ==
    ASSUME TypeOK, NEW w \in Nodes, NEW s \in Failure,
           addrs[w] > 0, sock[w] \in Fd, Broken(w, s)
    PROVE  TypeOK'
  <1>1. CASE NextAddr(w, s)
    BY <1>1, NextAddrType
  <1>2. CASE Reconnect(w)
    <2>1. /\ link'  \in [Fd -> Link]
          /\ peer'  \in [Fd -> Nodes \cup {NoNode}]
          /\ reqs'  \in [Fd -> Seq(Request)]
          /\ inbox' \in [Fd -> Seq(Response)]
      BY <1>2, CloseType DEF Reconnect
    <2>2. QED
      BY <1>2, <2>1 DEF TypeOK, Reconnect, Pc
  <1>3. QED
    BY <1>1, <1>2 DEF Broken

\* The locals of a worker that returns.
LEMMA ReturnType ==
    ASSUME TypeOK, NEW w \in Nodes, NEW r \in Row, Return(w, r)
    PROVE  /\ pc'    \in [Nodes -> Pc]
           /\ sock'  \in [Nodes -> Fd \cup {NoFd}]
           /\ tried' \in [Nodes -> BOOLEAN]
           /\ addrs' \in [Nodes -> 0..MaxAddrs]
           /\ last'  \in [Nodes -> Failure]
           /\ row'   \in [Nodes -> Row]
           /\ \A v \in Nodes : pc'[v] \in {"reuse", "connect", "send", "recv"} =>
                                 addrs'[v] > 0 /\ sock'[v] # NoFd
  BY FetchAssumption DEF TypeOK, Return, Pc, FetchState, Failure

\* A failed row is a row.
LEMMA FailType == \A s \in FetchState : Fail(s) \in Row
  BY FetchAssumption DEF Fail, Row

\* The row made of an answer is a row.
LEMMA RowOfType ==
    ASSUME NEW r \in Response, NEW s \in States(r)
    PROVE  RowOf(r, s) \in Row
  BY FetchAssumption DEF Response, Request, States, RowOf, Fail, Row, FetchState, Failure

\* Every step of a worker keeps the types.
LEMMA WorkerType ==
    ASSUME TypeOK, NEW w \in Nodes, Worker(w)
    PROVE  TypeOK'
  <1>1. CASE Resolve(w)
    BY <1>1, FetchAssumption DEF TypeOK, Resolve, Pc, FetchState, Failure, kernel
  <1>2. CASE ResolveFails(w)
    <2>1. Fail("DNS_ERROR") \in Row
      BY FailType DEF FetchState, Failure
    <2>2. QED
      BY <1>2, <2>1, ReturnType DEF TypeOK, ResolveFails, kernel
  <1>3. CASE Reuse(w)
    BY <1>3 DEF TypeOK, Reuse, Pc, kernel
  <1>4. CASE ReuseFails(w)
    <2>1. /\ link'  \in [Fd -> Link]
          /\ peer'  \in [Fd -> Nodes \cup {NoNode}]
          /\ reqs'  \in [Fd -> Seq(Request)]
          /\ inbox' \in [Fd -> Seq(Response)]
      BY <1>4, CloseType DEF ReuseFails, TypeOK
    <2>2. QED
      BY <1>4, <2>1 DEF TypeOK, ReuseFails, Pc
  <1>5. CASE OpenSocket(w)
    <2>1. PICK f \in Fd : /\ sock' = [sock EXCEPT ![w] = f]
                         /\ link' = [link EXCEPT ![f] = "new"]
      BY <1>5 DEF OpenSocket
    <2>2. link' \in [Fd -> Link] /\ sock' \in [Nodes -> Fd \cup {NoFd}]
      BY <2>1 DEF TypeOK, Link
    <2>3. \A v \in Nodes : pc'[v] \in {"reuse", "connect", "send", "recv"} =>
                          addrs'[v] > 0 /\ sock'[v] # NoFd
      BY <1>5, <2>1, FetchAssumption DEF TypeOK, OpenSocket, NoFd
    <2>4. QED
      BY <1>5, <2>2, <2>3 DEF TypeOK, OpenSocket, Pc
  <1>6. CASE OpenSocketFails(w)
    BY <1>6, FetchAssumption DEF TypeOK, OpenSocketFails, Pc, kernel
  <1>7. CASE Connect(w)
    BY <1>7 DEF TypeOK, Connect, Pc, Link
  <1>8. CASE ConnectFails(w)
    <2>1. \E s \in Failure : NextAddr(w, s)
      BY <1>8 DEF ConnectFails, FetchState, Failure
    <2>2. addrs[w] > 0 /\ sock[w] \in Fd
      BY <1>8 DEF TypeOK, ConnectFails
    <2>3. QED
      BY <2>1, <2>2, NextAddrType
  <1>9. CASE AddrsExhausted(w)
    <2>1. Fail(last[w]) \in Row
      BY FailType DEF TypeOK, Failure
    <2>2. QED
      BY <1>9, <2>1, ReturnType DEF TypeOK, AddrsExhausted, kernel
  <1>10. CASE Send(w)
    <2>1. [asker |-> w, tick |-> tick] \in Request
      BY DEF TypeOK, Request
    <2>2. reqs' \in [Fd -> Seq(Request)]
      BY <1>10, <2>1 DEF TypeOK, Send
    <2>3. QED
      BY <1>10, <2>2 DEF TypeOK, Send, Pc
  <1>11. CASE SendFails(w)
    <2>1. \E s \in Failure : Broken(w, s)
      BY <1>11 DEF SendFails, FetchState, Failure
    <2>2. addrs[w] > 0 /\ sock[w] \in Fd
      BY <1>11 DEF TypeOK, SendFails
    <2>3. QED
      BY <2>1, <2>2, BrokenType
  <1>12. CASE Receive(w)
    <2> DEFINE r == Head(inbox[sock[w]])
    <2>1. PICK s \in States(r) : Return(w, RowOf(r, s))
      BY <1>12 DEF Receive
    <2>2. sock[w] \in Fd
      BY <1>12 DEF TypeOK, Receive
    <2>3. QED
      <3>1. r \in Response
        BY <1>12, <2>2 DEF TypeOK, Receive
      <3>2. RowOf(r, s) \in Row
        BY <2>1, <3>1, RowOfType
      <3>3. CASE Persistent
        <4>1. Tail(inbox[sock[w]]) \in Seq(Response)
          BY <1>12, <2>2 DEF TypeOK, Receive
        <4>2. inbox' \in [Fd -> Seq(Response)] /\ psock' \in [Nodes -> Fd \cup {NoFd}]
          BY <1>12, <2>2, <3>3, <4>1 DEF TypeOK, Receive
        <4>3. QED
          BY <1>12, <2>1, <3>2, <3>3, <4>2, ReturnType DEF TypeOK, Receive
      <3>4. CASE ~Persistent
        <4>1. /\ link'  \in [Fd -> Link]
              /\ peer'  \in [Fd -> Nodes \cup {NoNode}]
              /\ reqs'  \in [Fd -> Seq(Request)]
              /\ inbox' \in [Fd -> Seq(Response)]
          BY <1>12, <2>2, <3>4, CloseType DEF Receive
        <4>2. QED
          BY <1>12, <2>1, <3>2, <3>4, <4>1, ReturnType DEF TypeOK, Receive
      <3>5. QED
        BY <3>3, <3>4, FetchAssumption
  <1>13. CASE ReceiveEof(w)
    <2>1. last[w] \in Failure /\ addrs[w] > 0 /\ sock[w] \in Fd
      BY <1>13 DEF TypeOK, ReceiveEof
    <2>2. QED
      BY <1>13, <2>1, BrokenType DEF ReceiveEof
  <1>14. CASE ReceiveFails(w)
    <2>1. \E s \in Failure : Broken(w, s)
      BY <1>14 DEF ReceiveFails, FetchState, Failure
    <2>2. addrs[w] > 0 /\ sock[w] \in Fd
      BY <1>14 DEF TypeOK, ReceiveFails
    <2>3. QED
      BY <2>1, <2>2, BrokenType
  <1>15. QED
    BY <1>1, <1>2, <1>3, <1>4, <1>5, <1>6, <1>7, <1>8, <1>9, <1>10, <1>11,
       <1>12, <1>13, <1>14 DEF Worker

\* Every step of an agent keeps the types.
LEMMA AgentType ==
    ASSUME TypeOK, NEW f \in Fd, Agent(f)
    PROVE  TypeOK'
  <1>1. /\ link' \in [Fd -> Link]
        /\ reqs' \in [Fd -> Seq(Request)]
        /\ inbox' \in [Fd -> Seq(Response)]
    <2>1. CASE Reply(f)
      <3>1. Head(reqs[f]) \in Request /\ Tail(reqs[f]) \in Seq(Request)
        BY <2>1 DEF TypeOK, Reply
      <3>2. \A c \in {"200", "500"} :
              [from |-> peer[f], to |-> Head(reqs[f]), code |-> c, whole |-> TRUE] \in Response
        BY <3>1 DEF TypeOK, Response
      <3>3. PICK c \in {"200", "500"} :
              /\ inbox' = [inbox EXCEPT ![f] = Append(@, [from |-> peer[f], to |-> Head(reqs[f]),
                                                          code |-> c, whole |-> TRUE])]
              /\ link'  = [link EXCEPT ![f] = IF Persistent /\ c = "200" THEN "open" ELSE "eof"]
        BY <2>1 DEF Reply
      <3>4. inbox' \in [Fd -> Seq(Response)]
        <4> DEFINE a == [from |-> peer[f], to |-> Head(reqs[f]), code |-> c, whole |-> TRUE]
        <4>1. a \in Response
          BY <3>2
        <4>2. inbox' = [inbox EXCEPT ![f] = Append(@, a)]
          BY <3>3
        <4> HIDE DEF a
        <4>3. QED
          BY <4>1, <4>2 DEF TypeOK
      <3>5. link' \in [Fd -> Link]
        BY <3>3 DEF TypeOK, Link
      <3>6. QED
        BY <2>1, <3>1, <3>4, <3>5 DEF TypeOK, Reply
    <2>2. CASE Truncate(f)
      <3>1. Head(reqs[f]) \in Request
        BY <2>2 DEF TypeOK, Truncate
      <3>2. [from |-> peer[f], to |-> Head(reqs[f]), code |-> "200", whole |-> FALSE] \in Response
        BY <3>1 DEF TypeOK, Response
      <3>3. <<>> \in Seq(Request)
        OBVIOUS
      <3>4. QED
        BY <2>2, <3>2, <3>3 DEF TypeOK, Truncate, Link
    <2>3. CASE PeerGone(f)
      <3>1. <<>> \in Seq(Request)
        OBVIOUS
      <3>2. QED
        BY <2>3, <3>1 DEF TypeOK, PeerGone, Link
    <2>4. QED
      BY <2>1, <2>2, <2>3 DEF Agent
  <1>2. UNCHANGED <<tick, worker, psock, peer>>
    BY DEF Agent, Reply, Truncate, PeerGone
  <1>3. QED
    BY <1>1, <1>2 DEF TypeOK, worker

\* Every step keeps the types.
LEMMA StepType ==
    ASSUME TypeOK, [Next]_vars
    PROVE  TypeOK'
  <1>1. CASE StartTick
    <2>1. Blank \in Row /\ tick' \in 0..MaxTicks
      BY <1>1, FetchAssumption DEF Blank, Row, TypeOK, StartTick
    <2>2. QED
      BY <1>1, <2>1 DEF TypeOK, StartTick, Pc, kernel
  <1>2. ASSUME NEW w \in Nodes, Worker(w) PROVE TypeOK'
    BY <1>2, WorkerType
  <1>3. ASSUME NEW f \in Fd, Agent(f) PROVE TypeOK'
    BY <1>3, AgentType
  <1>4. CASE UNCHANGED vars
    BY <1>4 DEF TypeOK, vars, worker, kernel
  <1>5. QED
    BY <1>1, <1>2, <1>3, <1>4 DEF Next, Finished

\* Every value the fetch code and the descriptor table take is of its type; a
\* worker past getaddrinfo has an address left and, when it talks, a descriptor.
THEOREM FetchTypeCorrect == Spec => []TypeOK
  <1>1. Init => TypeOK
    BY FetchAssumption DEF Init, TypeOK, Pc, FetchState, Failure, Row, Blank, Link
  <1>2. TypeOK /\ [Next]_vars => TypeOK'
    BY StepType
  <1>3. QED
    BY <1>1, <1>2, PTL DEF Spec

-----------------------------------------------------------------------------
(* The inductive invariant.                                                *)

\* Worker w and the descriptor h it holds, or is given, are all that a step
\* touches: then only w's part of the invariant has to be looked at.
LEMMA LocalStep ==
    ASSUME TypeOK, IInv, NEW w \in Nodes, NEW h \in Fd \cup {NoFd},
           tick' = tick,
           \A v \in Nodes \ {w} : /\ pc'[v] = pc[v]       /\ sock'[v] = sock[v]
                                  /\ tried'[v] = tried[v] /\ psock'[v] = psock[v]
                                  /\ row'[v] = row[v],
           \A g \in Fd \ {h} : /\ link'[g] = link[g] /\ peer'[g] = peer[g]
                               /\ reqs'[g] = reqs[g] /\ inbox'[g] = inbox[g],
           LocalsInv(w)', HeldInv(w)', RowInv(w)',
           h = NoFd => Held(w)' = Held(w),
           h # NoFd => /\ Held(w) = h \/ (Held(w) = NoFd /\ link[h] = "free")
                       /\ Held(w)' = h \/ (Held(w)' = NoFd /\ link'[h] = "free")
                       /\ link'[h] \in {"free", "new"} => reqs'[h] = <<>> /\ inbox'[h] = <<>>
    PROVE  IInv'
  <1>1. \A v \in Nodes \ {w} : Held(v)' = Held(v)
    BY DEF Held
  <1>2. \A v \in Nodes : Held(v) \in Fd \cup {NoFd}
    BY DEF Held, TypeOK
  <1>3. \A v \in Nodes : Held(v) # NoFd => link[Held(v)] # "free"
    BY DEF IInv, HeldInv, Live
  <1>4. \A v \in Nodes \ {w} : Held(v) # NoFd => Held(v) # h
    BY <1>3 DEF IInv
  <1>5. \A v \in Nodes \ {w} : LocalsInv(v)' /\ RowInv(v)'
    BY DEF IInv, LocalsInv, RowInv
  <1>6. ASSUME NEW v \in Nodes \ {w} PROVE HeldInv(v)'
    <2>1. CASE Held(v) = NoFd
      BY <1>1, <2>1 DEF HeldInv
    <2>2. CASE Held(v) # NoFd
      <3> DEFINE g == Held(v)
      <3>1. g \in Fd \ {h}
        BY <1>2, <1>4, <2>2
      <3>2. HeldInv(v)
        BY DEF IInv
      <3>3. Wire(v, g) => Wire(v, g)'
        BY <1>1, <3>1 DEF Wire
      <3>4. QED
        BY <1>1, <2>2, <3>1, <3>2, <3>3 DEF HeldInv
    <2>3. QED
      BY <2>1, <2>2
  <1>7. \A u, v \in Nodes : Held(u)' = Held(v)' /\ Held(u)' # NoFd => u = v
    BY <1>1, <1>4 DEF IInv
  <1>8. ASSUME NEW f \in Fd PROVE
           /\ link'[f] # "free" => \E v \in Nodes : Held(v)' = f
           /\ link'[f] \in {"free", "new"} => reqs'[f] = <<>> /\ inbox'[f] = <<>>
    <2>1. CASE f = h
      BY <2>1, FetchAssumption DEF NoFd
    <2>2. CASE f # h
      <3>1. link[f] # "free" => \E v \in Nodes : Held(v) = f
        BY DEF IInv
      <3>2. \A v \in Nodes : Held(v) = f => Held(v)' = f
        BY <1>1, <2>2, FetchAssumption DEF NoFd
      <3>3. QED
        BY <2>2, <3>1, <3>2 DEF IInv
    <2>3. QED
      BY <2>1, <2>2
  <1>9. \A v \in Nodes : LocalsInv(v)' /\ HeldInv(v)' /\ RowInv(v)'
    BY <1>5, <1>6
  <1>10. QED
    BY <1>7, <1>8, <1>9 DEF IInv

\* A worker that talks holds the descriptor it talks on, and nobody has its
\* request of this refresh but the agent at the other end.
LEMMA TalkingHolds ==
    ASSUME TypeOK, IInv, NEW w \in Nodes, pc[w] \in {"connect", "send", "recv"}
    PROVE  /\ sock[w] \in Fd /\ Held(w) = sock[w] /\ Held(w) # NoFd
           /\ LocalsInv(w) /\ HeldInv(w) /\ RowInv(w)
  BY FetchAssumption DEF TypeOK, IInv, Held

\* Giving an address up closes the descriptor and leaves nothing behind.
LEMMA NextAddrInv ==
    ASSUME TypeOK, IInv, NEW w \in Nodes, pc[w] \in {"connect", "send", "recv"},
           NEW s, NextAddr(w, s)
    PROVE  IInv'
  <1>1. /\ sock[w] \in Fd /\ Held(w) = sock[w] /\ Held(w) # NoFd
        /\ LocalsInv(w) /\ RowInv(w)
    BY TalkingHolds
  <1>2. pc'[w] = "addr" /\ sock'[w] = NoFd /\ tried'[w] = tried[w]
        /\ psock'[w] = psock[w] /\ row'[w] = row[w]
    BY DEF NextAddr, TypeOK
  <1>3. Held(w)' = NoFd
    BY <1>2 DEF Held
  <1>4. LocalsInv(w)' /\ HeldInv(w)' /\ RowInv(w)'
    BY <1>1, <1>2, <1>3 DEF LocalsInv, HeldInv, RowInv, NextAddr
  <1>5. \A v \in Nodes \ {w} : /\ pc'[v] = pc[v]       /\ sock'[v] = sock[v]
                               /\ tried'[v] = tried[v] /\ psock'[v] = psock[v]
                               /\ row'[v] = row[v]
    BY DEF NextAddr, TypeOK
  <1>6. /\ \A g \in Fd \ {sock[w]} : /\ link'[g] = link[g] /\ peer'[g] = peer[g]
                                     /\ reqs'[g] = reqs[g] /\ inbox'[g] = inbox[g]
        /\ link'[sock[w]] = "free" /\ reqs'[sock[w]] = <<>> /\ inbox'[sock[w]] = <<>>
    BY <1>1 DEF NextAddr, Close, TypeOK
  <1>7. tick' = tick
    BY DEF NextAddr
  <1>8. QED
    BY <1>1, <1>3, <1>4, <1>5, <1>6, <1>7, LocalStep

\* So does a reconnect, for the one time it happens in a fetch.
LEMMA ReconnectInv ==
    ASSUME TypeOK, IInv, NEW w \in Nodes, pc[w] \in {"connect", "send", "recv"},
           Persistent, Reconnect(w)
    PROVE  IInv'
  <1>1. /\ sock[w] \in Fd /\ Held(w) = sock[w] /\ Held(w) # NoFd
        /\ LocalsInv(w) /\ RowInv(w)
    BY TalkingHolds
  <1>2. pc'[w] = "resolve" /\ sock'[w] = NoFd /\ tried'[w]
        /\ psock'[w] = psock[w] /\ row'[w] = row[w]
    BY DEF Reconnect, TypeOK
  <1>3. Held(w)' = NoFd
    BY <1>2 DEF Held
  <1>4. LocalsInv(w)' /\ HeldInv(w)' /\ RowInv(w)'
    BY <1>1, <1>2, <1>3 DEF LocalsInv, HeldInv, RowInv, Reconnect
  <1>5. \A v \in Nodes \ {w} : /\ pc'[v] = pc[v]       /\ sock'[v] = sock[v]
                               /\ tried'[v] = tried[v] /\ psock'[v] = psock[v]
                               /\ row'[v] = row[v]
    BY DEF Reconnect, TypeOK
  <1>6. /\ \A g \in Fd \ {sock[w]} : /\ link'[g] = link[g] /\ peer'[g] = peer[g]
                                     /\ reqs'[g] = reqs[g] /\ inbox'[g] = inbox[g]
        /\ link'[sock[w]] = "free" /\ reqs'[sock[w]] = <<>> /\ inbox'[sock[w]] = <<>>
    BY <1>1 DEF Reconnect, Close, TypeOK
  <1>7. tick' = tick
    BY DEF Reconnect
  <1>8. QED
    BY <1>1, <1>3, <1>4, <1>5, <1>6, <1>7, LocalStep

LEMMA BrokenInv ==
    ASSUME TypeOK, IInv, NEW w \in Nodes, pc[w] \in {"connect", "send", "recv"},
           NEW s, Broken(w, s)
    PROVE  IInv'
  BY NextAddrInv, ReconnectInv DEF Broken

\* A worker that starts a fetch, or takes its kept descriptor up, changes
\* nothing but where it stands.
LEMMA QuietInv ==
    ASSUME TypeOK, IInv, NEW w \in Nodes,
           Resolve(w) \/ Reuse(w) \/ OpenSocketFails(w)
    PROVE  IInv'
  <1>1. LocalsInv(w) /\ HeldInv(w) /\ RowInv(w)
    BY DEF IInv
  <1>2. /\ pc[w] \in {"resolve", "reuse", "addr"}
        /\ pc'[w] = CASE pc[w] = "reuse"   -> "send"
                      [] pc[w] = "addr"    -> "addr"
                      [] pc[w] = "resolve" -> IF sock[w] = NoFd THEN "addr" ELSE "reuse"
        /\ UNCHANGED <<tick, sock, tried, row, psock, kernel>>
        /\ \A v \in Nodes \ {w} : pc'[v] = pc[v]
    BY DEF Resolve, Reuse, OpenSocketFails, TypeOK
  <1>3. /\ pc'[w] = "reuse" => pc[w] = "resolve" /\ sock[w] # NoFd
        /\ pc'[w] = "send"  => pc[w] = "reuse"
        /\ pc'[w] = "addr"  => pc[w] = "addr" \/ (pc[w] = "resolve" /\ sock[w] = NoFd)
        /\ pc'[w] \in {"reuse", "send", "addr"}
    BY <1>2
  <1>4. pc[w] = "reuse" => sock[w] # NoFd
    BY DEF TypeOK
  <1>5. Held(w)' = Held(w)
    BY <1>1, <1>2, <1>3, <1>4 DEF Held, LocalsInv
  <1>6. LocalsInv(w)' /\ RowInv(w)'
    BY <1>1, <1>2, <1>3, <1>4 DEF LocalsInv, RowInv
  <1>7. HeldInv(w)'
    BY <1>1, <1>2, <1>3, <1>5 DEF HeldInv, Wire, kernel
  <1>8. QED
    BY <1>2, <1>5, <1>6, <1>7, LocalStep DEF kernel

\* A failed first name resolution: the kept connection stays w's.
LEMMA ResolveFailsInv ==
    ASSUME TypeOK, IInv, NEW w \in Nodes, ResolveFails(w), ~tried[w]
    PROVE  IInv'
  <1>1. LocalsInv(w) /\ HeldInv(w) /\ RowInv(w)
    BY DEF IInv
  <1>2. /\ pc[w] = "resolve" /\ pc'[w] = "idle" /\ sock'[w] = NoFd /\ ~tried'[w]
        /\ row'[w] = Fail("DNS_ERROR")
        /\ UNCHANGED <<tick, psock, kernel>>
        /\ \A v \in Nodes \ {w} : /\ pc'[v] = pc[v]       /\ sock'[v] = sock[v]
                                  /\ tried'[v] = tried[v] /\ row'[v] = row[v]
    BY DEF ResolveFails, Return, TypeOK
  <1>3. Held(w)' = Held(w)
    BY <1>2 DEF Held
  <1>4. LocalsInv(w)' /\ RowInv(w)'
    BY <1>1, <1>2 DEF LocalsInv, RowInv, Fail
  <1>5. HeldInv(w)'
    BY <1>1, <1>2, <1>3 DEF HeldInv, Wire, kernel
  <1>6. QED
    BY <1>2, <1>3, <1>4, <1>5, LocalStep DEF kernel

\* Giving the kept descriptor up closes it and forgets it.
LEMMA ReuseFailsInv ==
    ASSUME TypeOK, IInv, NEW w \in Nodes, ReuseFails(w)
    PROVE  IInv'
  <1>1. LocalsInv(w) /\ HeldInv(w) /\ RowInv(w)
    BY DEF IInv
  <1>2. /\ pc[w] = "reuse" /\ pc'[w] = "addr" /\ sock'[w] = NoFd /\ psock'[w] = NoFd
        /\ UNCHANGED <<tick, tried, row>>
        /\ \A v \in Nodes \ {w} : /\ pc'[v] = pc[v] /\ sock'[v] = sock[v]
                                  /\ psock'[v] = psock[v]
    BY DEF ReuseFails, TypeOK
  <1>3. sock[w] \in Fd /\ Held(w) = sock[w] /\ Held(w) # NoFd
    BY <1>1, <1>2, FetchAssumption DEF TypeOK, Held, LocalsInv
  <1>4. Held(w)' = NoFd
    BY <1>2 DEF Held
  <1>5. LocalsInv(w)' /\ HeldInv(w)' /\ RowInv(w)'
    BY <1>1, <1>2, <1>4 DEF LocalsInv, HeldInv, RowInv
  <1>6. /\ \A g \in Fd \ {sock[w]} : /\ link'[g] = link[g] /\ peer'[g] = peer[g]
                                     /\ reqs'[g] = reqs[g] /\ inbox'[g] = inbox[g]
        /\ link'[sock[w]] = "free" /\ reqs'[sock[w]] = <<>> /\ inbox'[sock[w]] = <<>>
    BY <1>3 DEF ReuseFails, Close, TypeOK
  <1>7. QED
    BY <1>2, <1>3, <1>4, <1>5, <1>6, LocalStep

\* A new socket is a free descriptor, so nobody held it.
LEMMA OpenSocketInv ==
    ASSUME TypeOK, IInv, NEW w \in Nodes, OpenSocket(w)
    PROVE  IInv'
  <1>1. LocalsInv(w) /\ HeldInv(w) /\ RowInv(w)
    BY DEF IInv
  <1>2. PICK f \in Fd : /\ LowestFree(f)
                        /\ sock' = [sock EXCEPT ![w] = f]
                        /\ link' = [link EXCEPT ![f] = "new"]
    BY DEF OpenSocket
  <1>3. /\ pc[w] = "addr" /\ pc'[w] = "connect" /\ sock'[w] = f
        /\ UNCHANGED <<tick, tried, row, psock, peer, reqs, inbox>>
        /\ \A v \in Nodes \ {w} : pc'[v] = pc[v] /\ sock'[v] = sock[v]
    BY <1>2 DEF OpenSocket, TypeOK
  <1>4. Held(w) = NoFd /\ Held(w)' = f /\ f # NoFd
    BY <1>3, FetchAssumption DEF Held, NoFd
  <1>5. link[f] = "free" /\ link'[f] = "new" /\ reqs[f] = <<>> /\ inbox[f] = <<>>
    BY <1>2 DEF LowestFree, TypeOK, IInv
  <1>6. \A g \in Fd \ {f} : link'[g] = link[g]
    BY <1>2 DEF TypeOK
  <1>7. LocalsInv(w)' /\ HeldInv(w)' /\ RowInv(w)'
    BY <1>1, <1>3, <1>4, <1>5 DEF LocalsInv, HeldInv, RowInv
  <1>8. QED
    BY <1>3, <1>4, <1>5, <1>6, <1>7, LocalStep

LEMMA ConnectInv ==
    ASSUME TypeOK, IInv, NEW w \in Nodes, Connect(w)
    PROVE  IInv'
  <1>1. /\ sock[w] \in Fd /\ Held(w) = sock[w] /\ Held(w) # NoFd
        /\ LocalsInv(w) /\ RowInv(w)
    BY TalkingHolds DEF Connect
  <1>2. /\ pc[w] = "connect" /\ pc'[w] = "send"
        /\ UNCHANGED <<tick, sock, tried, row, psock, reqs, inbox>>
        /\ \A v \in Nodes \ {w} : pc'[v] = pc[v]
        /\ link[sock[w]] = "new" /\ link'[sock[w]] = "open" /\ peer'[sock[w]] = w
        /\ \A g \in Fd \ {sock[w]} : link'[g] = link[g] /\ peer'[g] = peer[g]
    BY <1>1 DEF Connect, TypeOK
  <1>3. Held(w)' = sock[w]
    BY <1>2 DEF Held
  <1>4. Wire(w, sock[w])'
    BY <1>1, <1>2 DEF Wire, IInv
  <1>5. LocalsInv(w)' /\ RowInv(w)'
    BY <1>1, <1>2 DEF LocalsInv, RowInv
  <1>6. HeldInv(w)'
    BY <1>2, <1>3, <1>4 DEF HeldInv, Live
  <1>7. QED
    BY <1>1, <1>2, <1>3, <1>5, <1>6, LocalStep

LEMMA AddrsExhaustedInv ==
    ASSUME TypeOK, IInv, NEW w \in Nodes, AddrsExhausted(w)
    PROVE  IInv'
  <1>1. LocalsInv(w) /\ HeldInv(w) /\ RowInv(w)
    BY DEF IInv
  <1>2. /\ pc[w] = "addr" /\ pc'[w] = "idle" /\ sock'[w] = NoFd /\ ~tried'[w]
        /\ row'[w] = Fail(last[w]) /\ psock'[w] = NoFd
        /\ UNCHANGED <<tick, kernel>>
        /\ \A v \in Nodes \ {w} : /\ pc'[v] = pc[v]       /\ sock'[v] = sock[v]
                                  /\ tried'[v] = tried[v] /\ row'[v] = row[v]
                                  /\ psock'[v] = psock[v]
    BY DEF AddrsExhausted, Return, TypeOK
  <1>3. Held(w)' = NoFd /\ Held(w) = NoFd
    BY <1>2 DEF Held
  <1>4. row'[w].state # "OK" /\ row'[w].state # "blank"
    <2>1. last[w] \in Failure
      BY DEF TypeOK
    <2>2. QED
      BY <1>2, <2>1 DEF Fail, FetchState, Failure
  <1>5. LocalsInv(w)' /\ RowInv(w)' /\ HeldInv(w)'
    BY <1>1, <1>2, <1>3, <1>4 DEF LocalsInv, RowInv, HeldInv
  <1>6. QED
    BY <1>2, <1>3, <1>5, LocalStep DEF kernel

\* The request goes out on an empty wire.
LEMMA SendInv ==
    ASSUME TypeOK, IInv, NEW w \in Nodes, Send(w)
    PROVE  IInv'
  <1> DEFINE f == sock[w]
             q == [asker |-> w, tick |-> tick]
  <1>1. /\ f \in Fd /\ Held(w) = f /\ Held(w) # NoFd
        /\ LocalsInv(w) /\ HeldInv(w) /\ RowInv(w)
    BY TalkingHolds DEF Send
  <1>2. /\ pc[w] = "send" /\ pc'[w] = "recv"
        /\ UNCHANGED <<tick, sock, tried, row, psock, link, peer, inbox>>
        /\ \A v \in Nodes \ {w} : pc'[v] = pc[v]
        /\ \A g \in Fd \ {f} : reqs'[g] = reqs[g]
    BY <1>1 DEF Send, TypeOK
  <1>3. Held(w)' = f
    BY <1>2 DEF Held
  <1>4. /\ link[f] \in Live /\ peer[f] = w
        /\ reqs[f] = <<>> /\ inbox[f] = <<>>
    BY <1>1, <1>2 DEF HeldInv, Wire
  <1>5. reqs'[f] = <<>> \/ reqs'[f] = <<q>>
    <2>1. Append(<<>>, q) = <<q>>
      OBVIOUS
    <2>2. QED
      BY <1>1, <1>4, <2>1 DEF Send, TypeOK
  <1>6. Wire(w, f)'
    BY <1>2, <1>4, <1>5 DEF Wire
  <1>7. LocalsInv(w)' /\ RowInv(w)'
    BY <1>1, <1>2 DEF LocalsInv, RowInv
  <1>8. HeldInv(w)'
    BY <1>2, <1>3, <1>4, <1>6 DEF HeldInv
  <1>9. link[f] \notin {"free", "new"}
    BY <1>4 DEF Live
  <1>10. QED
    BY <1>1, <1>2, <1>3, <1>7, <1>8, <1>9, LocalStep

\* The answer read is the agent's answer to this request; the wire is empty
\* again and the descriptor is kept (watch) or closed (status).
LEMMA ReceiveInv ==
    ASSUME TypeOK, IInv, NEW w \in Nodes, Receive(w)
    PROVE  IInv'
  <1> DEFINE f == sock[w]
             r == Head(inbox[f])
  <1>1. /\ f \in Fd /\ Held(w) = f /\ Held(w) # NoFd
        /\ LocalsInv(w) /\ HeldInv(w) /\ RowInv(w)
    BY TalkingHolds DEF Receive
  <1>2. PICK s \in States(r) : Return(w, RowOf(r, s))
    BY DEF Receive
  <1>3. /\ pc[w] = "recv" /\ pc'[w] = "idle" /\ sock'[w] = NoFd /\ ~tried'[w]
        /\ row'[w] = RowOf(r, s) /\ tick' = tick
        /\ \A v \in Nodes \ {w} : /\ pc'[v] = pc[v]       /\ sock'[v] = sock[v]
                                  /\ tried'[v] = tried[v] /\ row'[v] = row[v]
                                  /\ psock'[v] = psock[v]
    BY <1>2 DEF Receive, Return, TypeOK
  <1>4. /\ link[f] \in Live /\ peer[f] = w /\ reqs[f] = <<>>
        /\ r.from = w /\ r.to = [asker |-> w, tick |-> tick]
        /\ Tail(inbox[f]) = <<>>
    <2>1. link[f] \in Live /\ peer[f] = w /\ Wire(w, f) /\ inbox[f] # <<>>
      BY <1>1, <1>3 DEF HeldInv, Receive
    <2>2. PICK c \in {"200", "500"}, b \in BOOLEAN :
            inbox[f] = <<[from |-> w, to |-> [asker |-> w, tick |-> tick],
                          code |-> c, whole |-> b]>>
      BY <2>1 DEF Wire
    <2>3. Head(inbox[f]) = [from |-> w, to |-> [asker |-> w, tick |-> tick],
                            code |-> c, whole |-> b] /\ Tail(inbox[f]) = <<>>
      BY <2>2
    <2>4. QED
      BY <2>1, <2>3 DEF Wire
  <1>5. RowInv(w)'
    <2>1. /\ row'[w].state = s
          /\ s = "OK" => row'[w].from = w /\ row'[w].tick = tick
      BY <1>3, <1>4 DEF RowOf, Fail
    <2>2. s # "blank"
      BY DEF States
    <2>3. tick' # 0
      BY <1>1, <1>3 DEF RowInv, TypeOK
    <2>4. QED
      BY <1>3, <2>1, <2>2, <2>3 DEF RowInv
  <1>6. CASE Persistent
    <2>1. /\ psock'[w] = f /\ UNCHANGED <<link, peer, reqs>>
          /\ inbox'[f] = <<>> /\ \A g \in Fd \ {f} : inbox'[g] = inbox[g]
      BY <1>1, <1>4, <1>6 DEF Receive, TypeOK
    <2>2. Held(w)' = f
      BY <1>3, <2>1 DEF Held
    <2>3. LocalsInv(w)'
      BY <1>3, <1>6 DEF LocalsInv
    <2>4. reqs'[f] = <<>> /\ inbox'[f] = <<>> /\ link'[f] = link[f] /\ peer'[f] = peer[f]
      BY <1>4, <2>1
    <2>5. HeldInv(w)'
      <3>1. HeldInv(w)' = (Held(w)' # NoFd =>
                IF pc'[w] = "connect" THEN link'[Held(w)'] = "new"
                ELSE link'[Held(w)'] \in Live /\ peer'[Held(w)'] = w /\ Wire(w, Held(w))')
        BY DEF HeldInv
      <3>2. Wire(w, Held(w))'
        BY <2>2, <2>4 DEF Wire
      <3>3. QED
        BY <1>3, <1>4, <2>2, <2>4, <3>1, <3>2
    <2>6. link[f] \notin {"free", "new"}
      BY <1>4 DEF Live
    <2>7. QED
      BY <1>1, <1>3, <1>5, <2>1, <2>2, <2>3, <2>5, <2>6, LocalStep
  <1>7. CASE ~Persistent
    <2>1. /\ psock' = psock /\ psock[w] = NoFd
          /\ link'[f] = "free" /\ reqs'[f] = <<>> /\ inbox'[f] = <<>>
          /\ \A g \in Fd \ {f} : /\ link'[g] = link[g] /\ peer'[g] = peer[g]
                                 /\ reqs'[g] = reqs[g] /\ inbox'[g] = inbox[g]
      BY <1>1, <1>7 DEF Receive, Close, TypeOK, LocalsInv
    <2>2. Held(w)' = NoFd
      BY <1>3, <2>1 DEF Held
    <2>3. LocalsInv(w)' /\ HeldInv(w)'
      BY <1>3, <2>1, <2>2 DEF LocalsInv, HeldInv
    <2>4. QED
      BY <1>1, <1>3, <1>5, <2>1, <2>2, <2>3, LocalStep
  <1>8. QED
    BY <1>6, <1>7, FetchAssumption

\* The name resolution of a reconnect does not fail; status mode has none.
ResolvesAgain == Persistent => "retry_dns" \notin Faults

\* Every step of a worker keeps the invariant, when a reconnect's name
\* resolution does not fail.
LEMMA WorkerInv ==
    ASSUME ResolvesAgain, TypeOK, IInv, NEW w \in Nodes, Worker(w)
    PROVE  IInv'
  <1>1. CASE ResolveFails(w)
    <2>1. ~tried[w]
      BY <1>1 DEF ResolveFails, ResolvesAgain, IInv, LocalsInv
    <2>2. QED
      BY <1>1, <2>1, ResolveFailsInv
  <1>2. CASE ConnectFails(w)
    <2>1. \E s \in Failure : NextAddr(w, s)
      BY <1>2 DEF ConnectFails, FetchState, Failure
    <2>2. pc[w] \in {"connect", "send", "recv"}
      BY <1>2 DEF ConnectFails
    <2>3. QED
      BY <2>1, <2>2, NextAddrInv
  <1>3. CASE SendFails(w)
    <2>1. \E s \in Failure : Broken(w, s)
      BY <1>3 DEF SendFails, FetchState, Failure
    <2>2. pc[w] \in {"connect", "send", "recv"}
      BY <1>3 DEF SendFails
    <2>3. QED
      BY <2>1, <2>2, BrokenInv
  <1>4. CASE ReceiveEof(w) \/ ReceiveFails(w)
    <2>1. \E s \in Failure : Broken(w, s)
      BY <1>4 DEF ReceiveEof, ReceiveFails, FetchState, Failure, TypeOK
    <2>2. pc[w] \in {"connect", "send", "recv"}
      BY <1>4 DEF ReceiveEof, ReceiveFails
    <2>3. QED
      BY <2>1, <2>2, BrokenInv
  <1>5. CASE Resolve(w) \/ Reuse(w) \/ OpenSocketFails(w)
    BY <1>5, QuietInv
  <1>6. CASE ReuseFails(w) \/ OpenSocket(w) \/ Connect(w) \/ AddrsExhausted(w)
    BY <1>6, ReuseFailsInv, OpenSocketInv, ConnectInv, AddrsExhaustedInv
  <1>7. CASE Send(w) \/ Receive(w)
    BY <1>7, SendInv, ReceiveInv
  <1>8. QED
    BY <1>1, <1>2, <1>3, <1>4, <1>5, <1>6, <1>7 DEF Worker

\* A step of an agent changes the wire of the one worker that holds the link.
LEMMA AgentInv ==
    ASSUME TypeOK, IInv, NEW f \in Fd, Agent(f)
    PROVE  IInv'
  <1>1. /\ link[f] = "open" /\ UNCHANGED <<tick, worker, psock, peer>>
        /\ link'[f] \in Live
        /\ \A g \in Fd \ {f} : link'[g] = link[g] /\ reqs'[g] = reqs[g] /\ inbox'[g] = inbox[g]
    BY DEF Agent, Reply, Truncate, PeerGone, TypeOK, Live
  <1>2. PICK w \in Nodes : Held(w) = f
    BY <1>1 DEF IInv
  <1>3. f # NoFd
    BY FetchAssumption DEF NoFd
  <1>4. LocalsInv(w) /\ HeldInv(w) /\ RowInv(w)
    BY DEF IInv
  <1>5. pc[w] # "connect" /\ peer[f] = w /\ Wire(w, f)
    BY <1>1, <1>2, <1>3, <1>4 DEF HeldInv
  <1>6. Held(w)' = f
    BY <1>1, <1>2 DEF Held, worker
  <1>7. LocalsInv(w)' /\ RowInv(w)'
    BY <1>1, <1>4 DEF LocalsInv, RowInv, worker
  <1>8. Wire(w, f)'
    <2> DEFINE q == [asker |-> w, tick |-> tick]
    <2>1. ASSUME reqs[f] # <<>>
          PROVE  pc[w] = "recv" /\ reqs[f] = <<q>> /\ inbox[f] = <<>>
      BY <1>5, <2>1 DEF Wire
    <2>2. ASSUME NEW c \in {"200", "500"}, NEW b \in BOOLEAN, reqs[f] # <<>>, reqs'[f] = <<>>,
                 inbox'[f] = Append(inbox[f], [from |-> peer[f], to |-> Head(reqs[f]),
                                               code |-> c, whole |-> b])
          PROVE  Wire(w, f)'
      <3> DEFINE a == [from |-> w, to |-> q, code |-> c, whole |-> b]
      <3>1. Head(reqs[f]) = q
        BY <2>1, <2>2
      <3>2. inbox'[f] = Append(<<>>, a)
        BY <1>5, <2>1, <2>2, <3>1
      <3>3. inbox'[f] = <<a>>
        BY <3>2
      <3>4. pc'[w] = "recv" /\ tick' = tick
        BY <1>1, <2>1, <2>2 DEF worker
      <3>5. QED
        BY <2>2, <3>3, <3>4 DEF Wire
    <2>3. CASE Reply(f)
      <3>1. Tail(reqs[f]) = <<>>
        <4>1. reqs[f] = <<q>>
          BY <2>1, <2>3 DEF Reply
        <4>2. QED
          BY <4>1
      <3>2. reqs'[f] = <<>> /\ reqs[f] # <<>>
        BY <2>3, <3>1 DEF Reply, TypeOK
      <3>3. PICK c \in {"200", "500"} :
              inbox' = [inbox EXCEPT ![f] = Append(@, [from |-> peer[f], to |-> Head(reqs[f]),
                                                       code |-> c, whole |-> TRUE])]
        BY <2>3 DEF Reply
      <3>4. QED
        BY <2>2, <3>2, <3>3 DEF TypeOK
    <2>4. CASE Truncate(f)
      <3>1. reqs'[f] = <<>> /\ reqs[f] # <<>>
        BY <2>4 DEF Truncate, TypeOK
      <3>2. QED
        BY <2>2, <2>4, <3>1 DEF Truncate, TypeOK
    <2>5. CASE PeerGone(f)
      <3>1. reqs'[f] = <<>> /\ inbox' = inbox
        BY <2>5 DEF PeerGone, TypeOK
      <3>2. pc'[w] = pc[w] /\ tick' = tick
        BY <1>1 DEF worker
      <3>3. QED
        BY <1>5, <3>1, <3>2 DEF Wire
    <2>6. QED
      BY <2>3, <2>4, <2>5 DEF Agent
  <1>9. HeldInv(w)'
    BY <1>1, <1>5, <1>6, <1>8 DEF HeldInv, worker
  <1>10. link'[f] \notin {"free", "new"}
    BY <1>1 DEF Live
  <1>11. QED
    BY <1>1, <1>2, <1>3, <1>6, <1>7, <1>9, <1>10, LocalStep DEF worker

\* A refresh starts every worker on the descriptor it holds.
LEMMA StartTickInv ==
    ASSUME TypeOK, IInv, StartTick
    PROVE  IInv'
  <1>1. ASSUME NEW w \in Nodes
        PROVE  /\ pc[w] = "idle" /\ pc'[w] = "resolve" /\ ~tried[w]
               /\ sock'[w] = psock[w] /\ row'[w] = Blank
               /\ LocalsInv(w) /\ HeldInv(w)
    BY DEF StartTick, AtRest, IInv, LocalsInv
  <1>2. UNCHANGED <<tried, psock, kernel>> /\ tick' > 0
    BY DEF StartTick, TypeOK
  <1>3. \A w \in Nodes : Held(w)' = Held(w)
    BY <1>1, <1>2 DEF Held
  <1>4. ASSUME NEW w \in Nodes PROVE LocalsInv(w)' /\ HeldInv(w)' /\ RowInv(w)'
    <2>1. LocalsInv(w)'
      BY <1>1, <1>2 DEF LocalsInv
    <2>2. RowInv(w)'
      BY <1>1, <1>2 DEF RowInv, Blank
    <2>3. HeldInv(w)'
      BY <1>1, <1>2, <1>3 DEF HeldInv, Wire, kernel
    <2>4. QED
      BY <2>1, <2>2, <2>3
  <1>5. QED
    BY <1>2, <1>3, <1>4 DEF IInv, kernel

\* Every step keeps the inductive invariant.
LEMMA StepInv ==
    ASSUME ResolvesAgain, TypeOK, IInv, [Next]_vars
    PROVE  IInv'
  <1>1. CASE StartTick
    BY <1>1, StartTickInv
  <1>2. ASSUME NEW w \in Nodes, Worker(w) PROVE IInv'
    BY <1>2, WorkerInv
  <1>3. ASSUME NEW f \in Fd, Agent(f) PROVE IInv'
    BY <1>3, AgentInv
  <1>4. CASE UNCHANGED vars
    <2>1. UNCHANGED <<tick, pc, sock, tried, row, psock, link, peer, reqs, inbox>>
      BY <1>4 DEF vars, worker, kernel
    <2>2. \A w \in Nodes : Held(w)' = Held(w)
      BY <2>1 DEF Held
    <2>3. \A w \in Nodes : LocalsInv(w)' /\ RowInv(w)'
      BY <2>1 DEF IInv, LocalsInv, RowInv
    <2>4. ASSUME NEW w \in Nodes PROVE HeldInv(w)'
      <3>1. Wire(w, Held(w)) => Wire(w, Held(w))'
        BY <2>1, <2>2 DEF Wire
      <3>2. QED
        BY <2>1, <2>2, <3>1 DEF IInv, HeldInv
    <2>5. QED
      BY <2>1, <2>2, <2>3, <2>4 DEF IInv
  <1>5. QED
    BY <1>1, <1>2, <1>3, <1>4 DEF Next, Finished

\* The initial states satisfy it.
LEMMA InitInv == Init => IInv
  BY FetchAssumption DEF Init, IInv, LocalsInv, HeldInv, RowInv, Held, Blank, NoFd

\* In status mode, and in watch mode as long as the name resolution of a
\* reconnect does not fail, every open descriptor of nodectl is held by exactly
\* one worker, is connected to that worker's agent, and carries nothing but that
\* worker's current exchange.
THEOREM FetchInvariant == ResolvesAgain => (Spec => []IInv)
  <1> SUFFICES ASSUME ResolvesAgain PROVE Spec => []IInv
    OBVIOUS
  <1>1. TypeOK /\ IInv /\ [Next]_vars => IInv'
    BY StepInv
  <1>2. QED
    BY InitInv, <1>1, FetchTypeCorrect, PTL DEF Spec

\* ... so between refreshes nothing is leaked and every kept number is a live
\* connection to its own agent;
THEOREM FetchDescriptors == ResolvesAgain => (Spec => []DescriptorsAccounted)
  <1>1. IInv => DescriptorsAccounted
    BY DEF IInv, DescriptorsAccounted, AtRest, HeldInv, Held, Live
  <1>2. QED
    BY <1>1, FetchInvariant, PTL

\* ... no worker ever talks on a descriptor that is not its own;
THEOREM FetchOwnConnection == ResolvesAgain => (Spec => []OwnConnection)
  <1>1. TypeOK /\ IInv => OwnConnection
    <2> SUFFICES ASSUME TypeOK, IInv, NEW w \in Nodes, pc[w] \in {"send", "recv"}
                 PROVE  link[sock[w]] # "free" /\ peer[sock[w]] = w
      BY DEF OwnConnection
    <2>1. Held(w) = sock[w] /\ Held(w) # NoFd /\ HeldInv(w)
      BY TalkingHolds
    <2>2. QED
      BY <2>1 DEF HeldInv, Live
  <1>2. QED
    BY <1>1, FetchInvariant, FetchTypeCorrect, PTL

\* ... and no row shows another node's numbers or those of an earlier refresh.
THEOREM FetchRows == ResolvesAgain => (Spec => []RowsOwnAndFresh)
  <1>1. IInv => RowsOwnAndFresh
    BY DEF IInv, RowsOwnAndFresh, RowInv
  <1>2. QED
    BY <1>1, FetchInvariant, PTL

-----------------------------------------------------------------------------
(* Fetch implements Poll.                                                  *)

\* What a row looks like in the table.
LEMMA ShownRow ==
    ASSUME TypeOK, IInv, NEW w \in Nodes
    PROVE  /\ pc[w] # "idle" => Shown[w] = Table!Blank
           /\ pc[w] = "idle" /\ tick > 0 => Shown[w] \in {Table!Failed, Table!Answer(w, tick)}
  <1>1. RowInv(w) /\ tick \in 0..MaxTicks
    BY DEF IInv, TypeOK
  <1>2. QED
    BY <1>1, FetchAssumption DEF Shown, RowInv, Blank, Table!Blank, Table!Failed, Table!Answer

\* A step of worker w is a step of the table only when it returns.
LEMMA WorkerShown ==
    ASSUME TypeOK, IInv, TypeOK', IInv', NEW w \in Nodes, Worker(w)
    PROVE  Table!Fill(w) \/ UNCHANGED <<tick, Shown>>
  <1>1. /\ pc[w] # "idle" /\ tick' = tick
        /\ \A v \in Nodes \ {w} : row'[v] = row[v] /\ pc'[v] = pc[v]
    <2>1. ASSUME NEW s, Broken(w, s)
          PROVE  UNCHANGED <<tick, row>> /\ \A v \in Nodes \ {w} : pc'[v] = pc[v]
      BY <2>1 DEF Broken, Reconnect, NextAddr, TypeOK
    <2>2. ASSUME NEW r, Return(w, r)
          PROVE  \A v \in Nodes \ {w} : row'[v] = row[v] /\ pc'[v] = pc[v]
      BY <2>2 DEF Return, TypeOK
    <2>3. CASE ConnectFails(w)
      <3>1. \E s \in FetchState : NextAddr(w, s)
        BY <2>3 DEF ConnectFails, FetchState
      <3>2. QED
        BY <2>3, <3>1 DEF ConnectFails, NextAddr, TypeOK
    <2>4. CASE SendFails(w) \/ ReceiveEof(w) \/ ReceiveFails(w)
      BY <2>1, <2>4 DEF SendFails, ReceiveEof, ReceiveFails
    <2>5. CASE ResolveFails(w) \/ AddrsExhausted(w)
      BY <2>2, <2>5 DEF ResolveFails, AddrsExhausted
    <2>6. CASE Receive(w)
      BY <2>2, <2>6 DEF Receive
    <2>7. CASE \/ Resolve(w) \/ Reuse(w) \/ ReuseFails(w) \/ OpenSocket(w)
               \/ OpenSocketFails(w) \/ Connect(w) \/ Send(w)
      BY <2>7 DEF Resolve, Reuse, ReuseFails, OpenSocket, OpenSocketFails, Connect, Send, TypeOK
    <2>8. QED
      BY <2>3, <2>4, <2>5, <2>6, <2>7 DEF Worker
  <1>2. \A v \in Nodes \ {w} : Shown'[v] = Shown[v]
    BY <1>1 DEF Shown
  <1>3. tick > 0 /\ Shown[w] = Table!Blank
    BY <1>1, ShownRow DEF IInv, RowInv
  <1>4. CASE pc'[w] # "idle"
    <2>1. Shown'[w] = Table!Blank
      BY <1>4, FetchAssumption DEF TypeOK, IInv, RowInv, Shown, Blank, Table!Blank
    <2>2. QED
      BY <1>1, <1>2, <1>3, <2>1 DEF Shown
  <1>5. CASE pc'[w] = "idle"
    <2>1. Shown'[w] \in {Table!Failed, Table!Answer(w, tick)}
      BY <1>1, <1>3, <1>5 DEF TypeOK, IInv, RowInv, Shown, Table!Failed, Table!Answer
    <2>2. Shown' = [Shown EXCEPT ![w] = Shown'[w]]
      BY <1>2 DEF Shown
    <2>3. QED
      BY <1>1, <1>3, <2>1, <2>2 DEF Table!Fill
  <1>6. QED
    BY <1>4, <1>5

\* The polling code keeps the promise made to the reader of the table: one row
\* per node and refresh, refreshes that do not overlap, rows own and fresh.
THEOREM FetchImplementsPoll == ResolvesAgain => (Spec => PollSpec)
  <1> SUFFICES ASSUME ResolvesAgain PROVE Spec => PollSpec
    OBVIOUS
  <1>1. Init => Table!Init
    BY DEF Init, Blank, Shown, Table!Init, Table!Blank
  <1>2. TypeOK /\ IInv /\ TypeOK' /\ IInv' /\ [Next]_vars => [Table!Next]_(Table!vars)
    <2> SUFFICES ASSUME TypeOK, IInv, TypeOK', IInv', [Next]_vars
                 PROVE  Table!Next \/ UNCHANGED <<tick, Shown>>
      BY DEF Table!vars
    <2>1. CASE StartTick
      <3>1. tick > 0 => \A w \in Nodes : Shown[w] # Table!Blank
        BY <2>1, ShownRow DEF StartTick, AtRest, Table!Blank, Table!Failed, Table!Answer
      <3>2. Shown' = [w \in Nodes |-> Table!Blank]
        BY <2>1 DEF StartTick, Shown, Blank, Table!Blank
      <3>3. QED
        BY <2>1, <3>1, <3>2 DEF StartTick, Table!Next, Table!Refresh
    <2>2. ASSUME NEW w \in Nodes, Worker(w) PROVE Table!Next \/ UNCHANGED <<tick, Shown>>
      BY <2>2, WorkerShown DEF Table!Next
    <2>3. ASSUME NEW f \in Fd, Agent(f) PROVE UNCHANGED <<tick, Shown>>
      BY <2>3 DEF Agent, Reply, Truncate, PeerGone, worker, Shown
    <2>4. CASE UNCHANGED vars
      BY <2>4 DEF vars, worker, Shown
    <2>5. QED
      BY <2>1, <2>2, <2>3, <2>4 DEF Next, Finished
  <1>3. QED
    BY <1>1, <1>2, FetchTypeCorrect, FetchInvariant, PTL DEF Spec, PollSpec, Table!Spec

-----------------------------------------------------------------------------
(* Every fetch is bounded.                                                 *)

\* How many steps the fetch of w may still take: at most five for each address
\* left, a resolution before them, and all of it once more until it has
\* reconnected.
Round == 5 * MaxAddrs + 5
StepsLeft(w) ==
    IF pc[w] = "idle" THEN 0
    ELSE (IF tried[w] THEN 0 ELSE Round + 1)
         + (IF pc[w] = "resolve" THEN Round
            ELSE 5 * addrs[w] + (IF pc[w] = "reuse" THEN 4
                                 ELSE IF pc[w] = "addr" THEN 3
                                 ELSE IF pc[w] = "connect" THEN 2
                                 ELSE IF pc[w] = "send" THEN 1 ELSE 0))

\* Each step of a fetch brings it nearer to its end, and nothing another thread
\* or an agent does takes it back.
Nearer == \A w \in Nodes : pc[w] # "idle" =>
             /\ StepsLeft(w)' <= StepsLeft(w)
             /\ Worker(w) => StepsLeft(w)' < StepsLeft(w)
Bounded == /\ [](\A w \in Nodes : StepsLeft(w) \in 0..10 * MaxAddrs + 11)
           /\ [][Nearer]_vars

\* Giving an address up uses up its calls; reconnecting uses up the reconnect.
LEMMA BrokenSteps ==
    ASSUME TypeOK, NEW w \in Nodes, NEW s, Broken(w, s),
           pc[w] \in {"connect", "send", "recv"}
    PROVE  StepsLeft(w)' < StepsLeft(w)
  <1>1. addrs[w] \in 1..MaxAddrs /\ MaxAddrs \in Nat
    BY FetchAssumption DEF TypeOK
  <1>2. CASE NextAddr(w, s)
    <2>1. pc'[w] = "addr" /\ tried'[w] = tried[w] /\ addrs'[w] = addrs[w] - 1
      BY <1>2 DEF NextAddr, TypeOK
    <2>2. QED
      BY <1>1, <2>1 DEF StepsLeft, Round
  <1>3. CASE Reconnect(w) /\ ~tried[w]
    <2>1. pc'[w] = "resolve" /\ tried'[w] /\ addrs'[w] = addrs[w]
      BY <1>3 DEF Reconnect, TypeOK
    <2>2. QED
      BY <1>1, <1>3, <2>1 DEF StepsLeft, Round
  <1>4. QED
    BY <1>2, <1>3 DEF Broken

\* Every step of a fetch leaves it fewer to go.
LEMMA StepsDown ==
    ASSUME TypeOK, NEW w \in Nodes, Worker(w)
    PROVE  StepsLeft(w)' < StepsLeft(w)
  <1>1. addrs[w] \in 0..MaxAddrs /\ MaxAddrs \in Nat /\ tried[w] \in BOOLEAN /\ pc[w] \in Pc
    BY FetchAssumption DEF TypeOK
  <1>2. ASSUME NEW s, NextAddr(w, s), pc[w] = "connect" PROVE StepsLeft(w)' < StepsLeft(w)
    <2>1. /\ pc'[w] = "addr" /\ tried'[w] = tried[w] /\ addrs'[w] = addrs[w] - 1
          /\ addrs[w] > 0
      BY <1>2 DEF NextAddr, TypeOK
    <2>2. QED
      BY <1>1, <1>2, <2>1 DEF StepsLeft, Round
  <1>3. CASE ConnectFails(w)
    BY <1>2, <1>3 DEF ConnectFails
  <1>4. CASE SendFails(w) \/ ReceiveEof(w) \/ ReceiveFails(w)
    BY <1>4, BrokenSteps DEF SendFails, ReceiveEof, ReceiveFails
  <1>5. CASE ResolveFails(w) \/ AddrsExhausted(w) \/ Receive(w)
    <2>1. pc'[w] = "idle" /\ pc[w] # "idle"
      BY <1>5 DEF ResolveFails, AddrsExhausted, Receive, Return, TypeOK
    <2>2. pc[w] = "recv" => addrs[w] > 0
      BY DEF TypeOK
    <2>3. QED
      BY <1>1, <1>5, <2>1, <2>2 DEF StepsLeft, Round, ResolveFails, AddrsExhausted, Receive
  <1>6. CASE Resolve(w)
    <2>1. /\ addrs'[w] \in 1..MaxAddrs /\ tried'[w] = tried[w]
          /\ pc[w] = "resolve" /\ pc'[w] \in {"addr", "reuse"}
      BY <1>6 DEF Resolve, TypeOK
    <2>2. QED
      BY <1>1, <2>1 DEF StepsLeft, Round
  <1>7. CASE \/ Reuse(w) \/ ReuseFails(w) \/ OpenSocket(w) \/ Connect(w) \/ Send(w)
    <2>1. /\ addrs'[w] = addrs[w] /\ tried'[w] = tried[w]
          /\ \/ pc[w] = "reuse" /\ pc'[w] \in {"addr", "send"}
             \/ pc[w] = "addr" /\ pc'[w] = "connect"
             \/ pc[w] = "connect" /\ pc'[w] = "send"
             \/ pc[w] = "send" /\ pc'[w] = "recv"
      BY <1>7 DEF Reuse, ReuseFails, OpenSocket, Connect, Send, TypeOK
    <2>2. QED
      BY <1>1, <2>1 DEF StepsLeft, Round
  <1>8. CASE OpenSocketFails(w)
    <2>1. /\ pc[w] = "addr" /\ pc'[w] = "addr" /\ tried'[w] = tried[w]
          /\ addrs'[w] = addrs[w] - 1
      BY <1>8 DEF OpenSocketFails, TypeOK
    <2>2. QED
      BY <1>1, <2>1 DEF StepsLeft, Round
  <1>9. QED
    BY <1>3, <1>4, <1>5, <1>6, <1>7, <1>8 DEF Worker

\* No other thread touches the locals of a fetch.
LEMMA StepsOthers ==
    ASSUME TypeOK, NEW v \in Nodes, NEW w \in Nodes \ {v}, Worker(v)
    PROVE  UNCHANGED <<pc[w], tried[w], addrs[w]>>
  <1>1. ASSUME NEW s, NextAddr(v, s) \/ Broken(v, s)
        PROVE  UNCHANGED <<pc[w], tried[w], addrs[w]>>
    BY <1>1 DEF Broken, NextAddr, Reconnect, TypeOK
  <1>2. ASSUME NEW r, Return(v, r) PROVE UNCHANGED <<pc[w], tried[w], addrs[w]>>
    BY <1>2 DEF Return, TypeOK
  <1>3. CASE ConnectFails(v) \/ SendFails(v) \/ ReceiveEof(v) \/ ReceiveFails(v)
    BY <1>1, <1>3 DEF ConnectFails, SendFails, ReceiveEof, ReceiveFails
  <1>4. CASE ResolveFails(v) \/ AddrsExhausted(v) \/ Receive(v)
    BY <1>2, <1>4 DEF ResolveFails, AddrsExhausted, Receive
  <1>5. CASE \/ Resolve(v) \/ Reuse(v) \/ ReuseFails(v) \/ OpenSocket(v)
             \/ OpenSocketFails(v) \/ Connect(v) \/ Send(v)
    BY <1>5 DEF Resolve, Reuse, ReuseFails, OpenSocket, OpenSocketFails, Connect, Send, TypeOK
  <1>6. QED
    BY <1>3, <1>4, <1>5 DEF Worker

\* A fetch never takes more than 10 * MaxAddrs + 11 steps, whatever fails and
\* whatever the other threads do: the goto and the loop over the addresses
\* (nodes.c:362-503) come to their ends.
THEOREM FetchBounded == Spec => Bounded
  <1>1. TypeOK /\ [Next]_vars => Nearer
    <2> SUFFICES ASSUME TypeOK, [Next]_vars, NEW w \in Nodes, pc[w] # "idle"
                 PROVE  StepsLeft(w)' <= StepsLeft(w) /\ (Worker(w) => StepsLeft(w)' < StepsLeft(w))
      BY DEF Nearer
    <2>1. StepsLeft(w) \in Int
      BY FetchAssumption DEF TypeOK, StepsLeft, Round
    <2>2. Worker(w) => StepsLeft(w)' < StepsLeft(w)
      BY StepsDown
    <2>3. CASE UNCHANGED <<pc[w], tried[w], addrs[w]>>
      <3>1. StepsLeft(w)' = StepsLeft(w)
        BY <2>3 DEF StepsLeft
      <3>2. QED
        BY <2>1, <2>2, <3>1
    <2>4. CASE Worker(w)
      <3>1. TypeOK'
        BY StepType
      <3>2. (StepsLeft(w) \in Int)'
        BY <3>1, FetchAssumption DEF TypeOK, StepsLeft, Round
      <3>3. QED
        BY <2>1, <2>2, <2>4, <3>2
    <2>5. ASSUME NEW v \in Nodes \ {w}, Worker(v)
          PROVE  UNCHANGED <<pc[w], tried[w], addrs[w]>>
      BY <2>5, StepsOthers
    <2>6. CASE (\E f \in Fd : Agent(f)) \/ Finished \/ UNCHANGED vars
      BY <2>3, <2>6 DEF Agent, Reply, Truncate, PeerGone, Finished, vars, worker
    <2>7. ~StartTick
      BY DEF StartTick, AtRest
    <2>8. CASE \E v \in Nodes : Worker(v)
      <3>1. PICK v \in Nodes : Worker(v)
        BY <2>8
      <3>2. CASE v = w
        BY <2>4, <3>1, <3>2
      <3>3. CASE v # w
        BY <2>3, <2>5, <3>1, <3>3
      <3>4. QED
        BY <3>2, <3>3
    <2>9. QED
      BY <2>6, <2>7, <2>8 DEF Next
  <1>2. TypeOK => \A w \in Nodes : StepsLeft(w) \in 0..10 * MaxAddrs + 11
    BY FetchAssumption DEF TypeOK, StepsLeft, Round
  <1>3. QED
    BY <1>1, <1>2, FetchTypeCorrect, PTL DEF Spec, Bounded
=============================================================================
