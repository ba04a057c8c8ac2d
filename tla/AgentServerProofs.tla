------------------------- MODULE AgentServerProofs --------------------------
(***************************************************************************)
(* Theorems about AgentServer, for any connections, any queue length and   *)
(* any number of requests on a connection.                                 *)
(***************************************************************************)
EXTENDS AgentServer, SequenceTheorems, TLAPS

\* The request c waits for an answer to, as it is on the wire when it is whole.
Asking(c) == Text(asked[c][Len(asked[c])], c \in KeepAlive)
Waits(c)  == Len(asked[c]) = Len(answers[c]) + 1

\* What holds of a connection whose requests arrive whole: what is on the wire,
\* or in the buffer, is the one request not answered yet; what was answered is
\* what was asked; and why the connection is read again, or closed.
WholeInv(c) ==
    /\ unsent[c] = <<>>
    /\ wire[c] # <<>> => wire[c] = Asking(c) /\ Waits(c)
    /\ pc = "answer" /\ cur = c => request = Asking(c) /\ Waits(c) /\ wire[c] = <<>>
    /\ Len(answers[c]) <= Len(asked[c])
    /\ \A k \in 1..Len(answers[c]) : /\ answers[c][k].about = asked[c][k]
                                     /\ Right(answers[c][k].code, asked[c][k])
    /\ pc = "close" /\ cur = c /\ c \in KeepAlive =>
         ~open[c] \/ (answers[c] # <<>> /\ Latest(c).code = "500")
    /\ pc \in {"read", "answer"} /\ cur = c /\ answers[c] # <<>> =>
         c \in KeepAlive /\ Latest(c).code # "500"

\* A connection is in the queue once, before it is served, unanswered.
QueueInv ==
    /\ \A c \in Conns : conn[c] \in {"none", "queued"} => answers[c] = <<>>
    /\ \A k \in 1..Len(queue) : conn[queue[k]] = "queued"
    /\ \A k, j \in 1..Len(queue) : queue[k] = queue[j] => k = j
    /\ pc \in {"read", "answer", "close"} => conn[cur] = "serving"

\* The inductive invariant.
ServerInv == QueueInv /\ \A c \in Conns \ Split : WholeInv(c)

-----------------------------------------------------------------------------
(* Types.                                                                  *)

\* What the sequences of this module have in common.
LEMMA SeqFacts ==
    ASSUME NEW S
    PROVE  /\ <<>> \in Seq(S)
           /\ \A e \in S : <<e>> \in Seq(S)
           /\ \A s \in Seq(S) : Len(s) \in Nat /\ (s = <<>> <=> Len(s) = 0)
           /\ \A s \in Seq(S) : \A k \in 1..Len(s) : s[k] \in S
           /\ \A s \in Seq(S) : s # <<>> => Head(s) \in S /\ Tail(s) \in Seq(S) /\ Head(s) = s[1]
           /\ \A s, t \in Seq(S) : s \o t \in Seq(S)
           /\ \A s \in Seq(S), e \in S :
                /\ Append(s, e) \in Seq(S)
                /\ Len(Append(s, e)) = Len(s) + 1
                /\ Append(s, e)[Len(s) + 1] = e
                /\ \A k \in 1..Len(s) : Append(s, e)[k] = s[k]
  OBVIOUS

\* The text of a request, and what it is cut into.
LEMMA TextFacts ==
    ASSUME NEW p \in Paths, NEW a \in BOOLEAN
    PROVE  /\ Text(p, a) \in Seq(Fragment)
           /\ Text(p, a) # <<>> /\ DOMAIN Text(p, a) = 1..5 /\ Len(Text(p, a)) = 5
           /\ \A k \in 1..5 : Text(p, a)[k] = [part |-> k, path |-> p, alive |-> a]
           /\ \A cut \in 1..4 : /\ SubSeq(Text(p, a), 1, cut) \in Seq(Fragment)
                                /\ SubSeq(Text(p, a), cut + 1, 5) \in Seq(Fragment)
  <1>1. \A k \in 1..5 : Piece(k, p, a) \in Fragment
    BY DEF Piece, Fragment
  <1>2. /\ Text(p, a) \in Seq(Fragment) /\ Len(Text(p, a)) = 5
        /\ Text(p, a) # <<>> /\ DOMAIN Text(p, a) = 1..5
    BY <1>1 DEF Text
  <1>3. \A k \in 1..5 : Text(p, a)[k] = [part |-> k, path |-> p, alive |-> a]
    BY DEF Text, Piece
  <1>4. ASSUME NEW cut \in 1..4
        PROVE  /\ SubSeq(Text(p, a), 1, cut) \in Seq(Fragment)
               /\ SubSeq(Text(p, a), cut + 1, 5) \in Seq(Fragment)
    <2> DEFINE t == Text(p, a)
    <2>1. t \in Seq(Fragment) /\ Len(t) = 5
      BY <1>2
    <2> HIDE DEF t
    <2>2. \A k \in 1..5 : t[k] \in Fragment
      BY <2>1, SeqFacts
    <2>3. \A k \in 1..cut : t[k] \in Fragment
      BY <2>2
    <2>4. \A k \in cut + 1..5 : t[k] \in Fragment
      BY <2>2
    <2>5. SubSeq(t, 1, cut) \in Seq(Fragment)
      BY <2>3, SubSeqProperties
    <2>6. SubSeq(t, cut + 1, 5) \in Seq(Fragment)
      BY <2>4, SubSeqProperties
    <2>7. QED
      BY <2>5, <2>6 DEF t
  <1>5. QED
    BY <1>2, <1>3, <1>4

\* The same of the requests of connection c.
LEMMA OwnText ==
    ASSUME NEW p \in Paths, NEW c
    PROVE  /\ Text(p, c \in KeepAlive) \in Seq(Fragment)
           /\ Text(p, c \in KeepAlive) # <<>>
           /\ DOMAIN Text(p, c \in KeepAlive) = 1..5 /\ Len(Text(p, c \in KeepAlive)) = 5
           /\ \A k \in 1..5 :
                Text(p, c \in KeepAlive)[k] = [part |-> k, path |-> p, alive |-> c \in KeepAlive]
           /\ \A cut \in 1..4 : /\ SubSeq(Text(p, c \in KeepAlive), 1, cut) \in Seq(Fragment)
                                /\ SubSeq(Text(p, c \in KeepAlive), cut + 1, 5) \in Seq(Fragment)
  <1>1. (c \in KeepAlive) \in BOOLEAN
    OBVIOUS
  <1>2. QED
    BY <1>1, TextFacts, Zenon

\* Until the server listens nobody talks to it.
LEMMA StartingOnly ==
    ASSUME Options \/ StartUp
    PROVE  /\ UNCHANGED talk
           /\ pc \notin {"read", "answer", "close"} /\ pc' \notin {"read", "answer", "close"}
  <1>1. CASE Options
    BY <1>1 DEF Options, Help, SetPort, Invalid, OptionsEnd, Goto, Exit
  <1>2. CASE StartUp
    BY <1>2 DEF StartUp, StartSampler, OpenListener, ListenerFails, SetReuse, Bind, Listen,
                Exit, start
  <1>3. QED
    BY <1>1, <1>2

\* As long as the command line is the same, so are the places in it.
LEMMA SamePlaces ==
    ASSUME argv' = argv
    PROVE  Place' = Place
  BY DEF Place

\* The places of the loop as numbers.
LEMMA PlaceFacts ==
    ASSUME argv \in Seq(STRING)
    PROVE  /\ Len(argv) \in Nat
           /\ \A k : k \in Place <=> k \in 1..Len(argv) + 1
  BY DEF Place

\* One step of the option loop.
LEMMA OptionsType ==
    ASSUME StartTypeOK, Options
    PROVE  StartTypeOK'
  <1>1. /\ argv \in Seq(STRING) /\ i \in Place /\ port \in Ports
        /\ status \in {0, 1} /\ pc = "options"
        /\ argv' = argv /\ sampler' = sampler /\ listener' = listener
    BY DEF StartTypeOK, Options
  <1>2. Len(argv) \in Nat /\ i \in 1..Len(argv) + 1
    BY <1>1, PlaceFacts
  <1>3. /\ i' \in 1..Len(argv) + 1 /\ port' \in Ports
        /\ pc' \in {"options", "sampler", "exited"} /\ status' \in {0, 1}
    <2>1. CASE Help
      BY <1>1, <1>2, <2>1 DEF Help, Exit
    <2>2. CASE Invalid
      BY <1>1, <1>2, <2>2 DEF Invalid, Exit
    <2>3. CASE OptionsEnd
      BY <1>1, <1>2, <2>3 DEF OptionsEnd
    <2>4. CASE SetPort
      <3>1. \A t \in DOMAIN PortTexts : PortTexts[t] \in Ports
        BY ArgumentAssumption
      <3>2. CASE At(PortOptions) /\ PortTaken /\ port' = PortTexts[argv[i + 1]] /\ Goto(i + 2)
        <4>1. i < Len(argv) /\ i' = i + 2 /\ pc' = pc /\ status' = status
          BY <3>2 DEF PortTaken, Goto
        <4>2. port' \in Ports
          BY <3>1, <3>2 DEF PortTaken
        <4>3. QED
          BY <1>1, <1>2, <4>1, <4>2
      <3>3. CASE At(DOMAIN Assigned) /\ Assigned[argv[i]] \in DOMAIN PortTexts
                 /\ port' = PortTexts[Assigned[argv[i]]] /\ Goto(i + 1)
        <4>1. i <= Len(argv) /\ i' = i + 1 /\ pc' = pc /\ status' = status
          BY <3>3 DEF At, Goto
        <4>2. port' \in Ports
          BY <3>1, <3>3
        <4>3. QED
          BY <1>1, <1>2, <4>1, <4>2
      <3>4. QED
        BY <2>4, <3>2, <3>3 DEF SetPort
    <2>5. QED
      BY <2>1, <2>2, <2>3, <2>4 DEF Options
  <1>4. i' \in Place'
    BY <1>1, <1>3, SamePlaces, PlaceFacts
  <1>5. QED
    BY <1>1, <1>3, <1>4 DEF StartTypeOK, Pc, Listening

\* One call of the start-up.
LEMMA StartUpType ==
    ASSUME StartTypeOK, StartUp
    PROVE  StartTypeOK'
  <1>1. CASE StartSampler
    BY <1>1, SamePlaces DEF StartTypeOK, StartSampler, Exit, line, Pc, Listening
  <1>2. CASE OpenListener
    BY <1>2, SamePlaces DEF StartTypeOK, OpenListener, Exit, line, Pc, Listening
  <1>3. CASE ListenerFails
    BY <1>3, SamePlaces DEF StartTypeOK, ListenerFails, Exit, line, Pc, Listening
  <1>4. CASE SetReuse \/ Bind
    BY <1>4, SamePlaces DEF StartTypeOK, SetReuse, Bind, start, line, Pc, Listening
  <1>5. CASE Listen
    <2>1. <<>> \in Seq(STRING) /\ 1 \in 1..Len(<<>>) + 1 /\ DefaultPort \in Ports
      BY DEF DefaultPort, Ports
    <2>2. argv' = <<>> /\ i' = 1
      BY <1>5 DEF Listen
    <2>3. argv' \in Seq(STRING) /\ i' \in Place'
      BY <2>1, <2>2 DEF Place
    <2>4. QED
      BY <1>5, <2>1, <2>3 DEF StartTypeOK, Listen, Pc, Listening
  <1>6. QED
    BY <1>1, <1>2, <1>3, <1>4, <1>5 DEF StartUp

\* Once it listens it never stops.
LEMMA StartKept ==
    ASSUME StartTypeOK, Listening, Listening', UNCHANGED start
    PROVE  StartTypeOK'
  BY SamePlaces DEF StartTypeOK, start, line, Pc, Listening

LEMMA ServerType ==
    ASSUME TypeOK, Server
    PROVE  TypeOK'
  <1>1. CASE Options \/ StartUp
    <2>1. TalkTypeOK'
      BY <1>1, StartingOnly DEF TypeOK, TalkTypeOK, talk, client
    <2>2. QED
      BY <1>1, <2>1, OptionsType, StartUpType DEF TypeOK
  <1>1a. ASSUME Accept \/ Read \/ ReadEnds \/ Respond \/ Close
         PROVE  StartTypeOK'
    <2>1. Listening /\ UNCHANGED start
      BY <1>1a DEF Accept, Read, ReadEnds, Respond, Close, Listening
    <2>2. Listening'
      BY <1>1a DEF Accept, Read, ReadEnds, Respond, Close, Listening
    <2>3. QED
      BY <2>1, <2>2, StartKept DEF TypeOK
  <1>2. CASE Accept
    <2>1. Head(queue) \in Conns /\ Tail(queue) \in Seq(Conns)
      BY <1>2, SeqFacts DEF Accept, TypeOK, TalkTypeOK
    <2>2. QED
      BY <1>1a, <1>2, <2>1 DEF TypeOK, TalkTypeOK, Accept, client
  <1>3. CASE Read
    <2>1. cur \in Conns /\ <<>> \in Seq(Fragment)
      BY <1>3 DEF Read, TypeOK, TalkTypeOK
    <2>2. QED
      BY <1>1a, <1>3, <2>1 DEF TypeOK, TalkTypeOK, Read, client
  <1>4. CASE ReadEnds
    BY <1>1a, <1>4 DEF TypeOK, TalkTypeOK, ReadEnds, client
  <1>5. CASE Respond
    <2>1. cur \in Conns
      BY <1>5 DEF Respond, TypeOK, TalkTypeOK
    <2>2. PICK code \in Codes :
            /\ answers' = IF open[cur]
                          THEN [answers EXCEPT ![cur] = Append(@, [code |-> code, about |-> Path])]
                          ELSE answers
            /\ pc' \in {"read", "close"}
      BY <1>5 DEF Respond
    <2>3. Path \in Paths \cup {Garbage}
      <3>1. request[1] \in Fragment
        BY <1>5, SeqFacts DEF TypeOK, TalkTypeOK, Respond
      <3>2. QED
        BY <3>1 DEF Fragment, Path
    <2>4. [code |-> code, about |-> Path] \in Answer
      BY <2>2, <2>3 DEF Answer, Codes
    <2>5. answers' \in [Conns -> Seq(Answer)]
      BY <2>1, <2>2, <2>4 DEF TypeOK, TalkTypeOK
    <2>6. QED
      BY <1>1a, <1>5, <2>1, <2>2, <2>5 DEF TypeOK, TalkTypeOK, Respond, client
  <1>6. CASE Close
    <2>1. cur \in Conns /\ <<>> \in Seq(Fragment)
      BY <1>6 DEF Close, TypeOK, TalkTypeOK
    <2>2. QED
      BY <1>1a, <1>6, <2>1 DEF TypeOK, TalkTypeOK, Close, client
  <1>7. QED
    BY <1>1, <1>2, <1>3, <1>4, <1>5, <1>6 DEF Server

LEMMA ClientType ==
    ASSUME TypeOK, NEW c \in Conns, Client(c)
    PROVE  TypeOK'
  <1>0. <<>> \in Seq(Fragment)
    BY SeqFacts
  <1>0a. StartTypeOK'
    <2>1. UNCHANGED <<start, pc>>
      BY DEF Client, Connect, Ask, Deliver, GiveUp, server
    <2>2. QED
      BY <2>1, SamePlaces DEF TypeOK, StartTypeOK, start, line, Listening
  <1>1. CASE Connect(c)
    <2>1. Append(queue, c) \in Seq(Conns)
      BY DEF TypeOK, TalkTypeOK
    <2>2. QED
      BY <1>0a, <1>1, <2>1 DEF TypeOK, TalkTypeOK, Connect, server
  <1>2. CASE Ask(c)
    <2>1. PICK p \in Paths :
            /\ asked' = [asked EXCEPT ![c] = Append(@, p)]
            /\ \/ /\ wire' = [wire EXCEPT ![c] = @ \o Text(p, c \in KeepAlive)]
                  /\ UNCHANGED unsent
               \/ \E cut \in 1..4 :
                    /\ wire' = [wire EXCEPT ![c] = @ \o SubSeq(Text(p, c \in KeepAlive), 1, cut)]
                    /\ unsent' = [unsent EXCEPT ![c] = SubSeq(Text(p, c \in KeepAlive), cut + 1, 5)]
      BY <1>2 DEF Ask
    <2>2. asked' \in [Conns -> Seq(Paths)]
      <3>1. Append(asked[c], p) \in Seq(Paths)
        BY DEF TypeOK, TalkTypeOK
      <3>2. QED
        BY <2>1, <3>1 DEF TypeOK, TalkTypeOK
    <2>3. wire' \in [Conns -> Seq(Fragment)] /\ unsent' \in [Conns -> Seq(Fragment)]
      <3> DEFINE t == Text(p, c \in KeepAlive)
      <3>1. /\ t \in Seq(Fragment)
            /\ \A cut \in 1..4 : /\ SubSeq(t, 1, cut) \in Seq(Fragment)
                                 /\ SubSeq(t, cut + 1, 5) \in Seq(Fragment)
        BY OwnText, Zenon
      <3>2. \/ /\ wire' = [wire EXCEPT ![c] = @ \o t]
               /\ UNCHANGED unsent
            \/ \E cut \in 1..4 :
                 /\ wire' = [wire EXCEPT ![c] = @ \o SubSeq(t, 1, cut)]
                 /\ unsent' = [unsent EXCEPT ![c] = SubSeq(t, cut + 1, 5)]
        BY <2>1, Zenon
      <3> HIDE DEF t
      <3>3. \A e \in Seq(Fragment) : wire[c] \o e \in Seq(Fragment)
        BY SeqFacts DEF TypeOK, TalkTypeOK
      <3>4. CASE wire' = [wire EXCEPT ![c] = @ \o t] /\ UNCHANGED unsent
        BY <3>1, <3>3, <3>4 DEF TypeOK, TalkTypeOK
      <3>5. ASSUME NEW cut \in 1..4,
                   wire' = [wire EXCEPT ![c] = @ \o SubSeq(t, 1, cut)],
                   unsent' = [unsent EXCEPT ![c] = SubSeq(t, cut + 1, 5)]
            PROVE  wire' \in [Conns -> Seq(Fragment)] /\ unsent' \in [Conns -> Seq(Fragment)]
        BY <3>1, <3>3, <3>5 DEF TypeOK, TalkTypeOK
      <3>6. QED
        BY <3>2, <3>4, <3>5
    <2>4. QED
      BY <1>0a, <1>2, <2>2, <2>3 DEF TypeOK, TalkTypeOK, Ask, server
  <1>3. CASE Deliver(c)
    <2>1. wire[c] \o unsent[c] \in Seq(Fragment)
      BY SeqFacts DEF TypeOK, TalkTypeOK
    <2>2. QED
      BY <1>0a, <1>0, <1>3, <2>1 DEF TypeOK, TalkTypeOK, Deliver, server
  <1>4. CASE GiveUp(c)
    BY <1>0a, <1>0, <1>4 DEF TypeOK, TalkTypeOK, GiveUp, server
  <1>5. QED
    BY <1>1, <1>2, <1>3, <1>4 DEF Client

\* Every step keeps the types.
LEMMA StepType ==
    ASSUME TypeOK, [Next]_vars
    PROVE  TypeOK'
  <1>1. CASE UNCHANGED vars
    BY <1>1, SamePlaces DEF TypeOK, StartTypeOK, TalkTypeOK, vars, start, line, server, client, Listening
  <1>2. QED
    BY <1>1, ServerType, ClientType DEF Next

LEMMA AgentInit ==
    Init => TypeOK
  <1> SUFFICES ASSUME Init PROVE TypeOK
    OBVIOUS
  <1>1. argv \in Seq(STRING) /\ i \in Place
    <2>1. argv \in Seq(STRING) /\ i = 1
      BY ArgumentAssumption DEF Init
    <2>2. QED
      BY <2>1, PlaceFacts
  <1>2. DefaultPort \in Ports
    BY DEF DefaultPort, Ports
  <1>3. StartTypeOK
    BY <1>1, <1>2 DEF Init, StartTypeOK, Pc
  <1>4. TalkTypeOK
    BY SeqFacts DEF Init, TalkTypeOK
  <1>5. QED
    BY <1>3, <1>4 DEF TypeOK

\* Every variable of the agent keeps its type, and the buffer that is answered
\* is never empty.
THEOREM AgentTypeCorrect == Spec => []TypeOK
  <1>1. Init => TypeOK
    BY AgentInit
  <1>2. TypeOK /\ [Next]_vars => TypeOK'
    BY StepType
  <1>3. QED
    BY <1>1, <1>2, PTL DEF Spec

-----------------------------------------------------------------------------
(* The inductive invariant: first what a step leaves alone.                *)

\* A whole connection the step says nothing about keeps its invariant, whether
\* or not the server has just left another one.
LEMMA WholeFrame ==
    ASSUME NEW c \in Conns \ Split, TypeOK, WholeInv(c),
           unsent'[c] = unsent[c], wire'[c] = wire[c], asked'[c] = asked[c],
           answers'[c] = answers[c], open'[c] = open[c],
           \/ UNCHANGED server
           \/ cur' # c
    PROVE  WholeInv(c)'
  BY DEF WholeInv, Waits, Asking, Latest, Right, server

LEMMA QueueStep ==
    ASSUME TypeOK, QueueInv, [Next]_vars
    PROVE  QueueInv'
  <1>1. CASE Options \/ StartUp \/ ReadEnds
    <2>1. CASE Options \/ StartUp
      BY <2>1, StartingOnly DEF QueueInv, talk
    <2>2. CASE ReadEnds
      BY <2>2 DEF QueueInv, TypeOK, TalkTypeOK, ReadEnds, client
    <2>3. QED
      BY <1>1, <2>1, <2>2
  <1>2. CASE Accept
    <2>1. /\ queue \in Seq(Conns) /\ queue # <<>> /\ queue' = Tail(queue)
          /\ cur' = queue[1] /\ conn' = [conn EXCEPT ![queue[1]] = "serving"]
          /\ pc' = "read" /\ answers' = answers /\ queue[1] \in Conns
      BY <1>2, SeqFacts DEF Accept, TypeOK, TalkTypeOK, client
    <2>2. /\ Len(queue) \in Nat /\ Len(queue) # 0 /\ Len(queue') = Len(queue) - 1
          /\ \A k \in 1..Len(queue') : queue'[k] = queue[k + 1] /\ queue[k + 1] \in Conns
      BY <2>1
    <2>3. \A k \in 1..Len(queue') : queue'[k] # queue[1] /\ conn'[queue'[k]] = "queued"
      <3> TAKE k \in 1..Len(queue')
      <3>1. k + 1 \in 1..Len(queue) /\ 1 \in 1..Len(queue) /\ k + 1 # 1
        BY <2>2
      <3>2. queue[k + 1] # queue[1] /\ conn[queue[k + 1]] = "queued"
        BY <3>1 DEF QueueInv
      <3>3. QED
        BY <2>1, <2>2, <3>2 DEF TypeOK, TalkTypeOK
    <2>4. \A k, j \in 1..Len(queue') : queue'[k] = queue'[j] => k = j
      BY <2>2 DEF QueueInv
    <2>5. \A c \in Conns : conn'[c] \in {"none", "queued"} => answers'[c] = <<>>
      BY <2>1 DEF QueueInv, TypeOK, TalkTypeOK
    <2>6. conn'[cur'] = "serving"
      BY <2>1 DEF TypeOK, TalkTypeOK
    <2>7. QED
      BY <2>3, <2>4, <2>5, <2>6 DEF QueueInv
  <1>3. CASE Read
    BY <1>3 DEF QueueInv, TypeOK, TalkTypeOK, Read, client
  <1>4. CASE Respond
    <2>1. cur \in Conns /\ conn[cur] = "serving"
      BY <1>4 DEF Respond, TypeOK, TalkTypeOK, QueueInv
    <2>2. \A c \in Conns : c # cur => answers'[c] = answers[c]
      BY <1>4, <2>1 DEF Respond, TypeOK, TalkTypeOK
    <2>3. /\ queue' = queue /\ conn' = conn /\ cur' = cur
          /\ pc' \in {"read", "close"}
      BY <1>4 DEF Respond
    <2>4. \A c \in Conns : conn'[c] \in {"none", "queued"} => answers'[c] = <<>>
      BY <2>1, <2>2, <2>3 DEF QueueInv
    <2>5. QED
      BY <2>1, <2>3, <2>4 DEF QueueInv
  <1>5. CASE Close
    <2>1. cur \in Conns /\ conn[cur] = "serving"
      BY <1>5 DEF Close, TypeOK, TalkTypeOK, QueueInv
    <2>2. \A k \in 1..Len(queue) : queue[k] \in Conns
      BY SeqFacts DEF TypeOK, TalkTypeOK
    <2>3. QED
      BY <1>5, <2>1, <2>2 DEF QueueInv, TypeOK, TalkTypeOK, Close, client
  <1>6. ASSUME NEW c \in Conns, Connect(c)
        PROVE  QueueInv'
    <2>1. /\ queue' = Append(queue, c) /\ conn[c] = "none"
          /\ conn' = [conn EXCEPT ![c] = "queued"] /\ answers' = answers
          /\ pc' = pc /\ cur' = cur
      BY <1>6 DEF Connect, server
    <2>2. /\ Len(queue) \in Nat /\ Len(queue') = Len(queue) + 1 /\ queue'[Len(queue')] = c
          /\ \A k \in 1..Len(queue) : queue'[k] = queue[k] /\ queue[k] \in Conns
      BY <2>1 DEF TypeOK, TalkTypeOK
    <2>3. \A k \in 1..Len(queue) : queue[k] # c /\ conn'[queue[k]] = "queued"
      BY <2>1, <2>2 DEF QueueInv, TypeOK, TalkTypeOK
    <2>4. conn'[c] = "queued" /\ \A d \in Conns : d # c => conn'[d] = conn[d]
      BY <2>1 DEF TypeOK, TalkTypeOK
    <2>5. \A k \in 1..Len(queue') : k \in 1..Len(queue) \/ k = Len(queue')
      BY <2>2
    <2>6. \A k \in 1..Len(queue') : conn'[queue'[k]] = "queued"
      BY <2>2, <2>3, <2>4, <2>5
    <2>7. \A k, j \in 1..Len(queue') : queue'[k] = queue'[j] => k = j
      BY <2>2, <2>3, <2>5 DEF QueueInv
    <2>8. pc' \in {"read", "answer", "close"} => conn'[cur'] = "serving"
      BY <2>1, <2>4 DEF QueueInv, TypeOK, TalkTypeOK
    <2>9. QED
      BY <2>1, <2>4, <2>6, <2>7, <2>8 DEF QueueInv
  <1>7. ASSUME NEW c \in Conns, Ask(c) \/ Deliver(c) \/ GiveUp(c)
        PROVE  QueueInv'
    BY <1>7 DEF QueueInv, TypeOK, TalkTypeOK, Ask, Deliver, GiveUp, server
  <1>8. CASE UNCHANGED vars
    BY <1>8 DEF QueueInv, vars, server
  <1>9. QED
    BY <1>1, <1>2, <1>3, <1>4, <1>5, <1>6, <1>7, <1>8 DEF Next, Server, Client

LEMMA ServerWhole ==
    ASSUME TypeOK, QueueInv, Server, NEW c \in Conns \ Split, WholeInv(c)
    PROVE  WholeInv(c)'
  <1>1. CASE Options \/ StartUp
    BY <1>1, StartingOnly DEF WholeInv, Waits, Asking, Latest, Right, TypeOK, TalkTypeOK, talk, client
  <1>2. CASE Accept
    <2>1. /\ queue[1] \in Conns /\ cur' = queue[1] /\ pc' = "read"
          /\ 1 \in 1..Len(queue)
      BY <1>2, SeqFacts DEF Accept, TypeOK, TalkTypeOK
    <2>2. answers[cur'] = <<>>
      BY <2>1 DEF QueueInv
    <2>3. UNCHANGED <<wire, client, answers>>
      BY <1>2 DEF Accept
    <2>4. QED
      BY <2>1, <2>2, <2>3 DEF WholeInv, Waits, Asking, Latest, Right, client
  <1>3. CASE Read
    <2>1. /\ pc' = "answer" /\ cur' = cur /\ request' = wire[cur] /\ wire[cur] # <<>>
          /\ wire' = [wire EXCEPT ![cur] = <<>>] /\ pc = "read"
          /\ UNCHANGED <<client, answers>> /\ cur \in Conns
      BY <1>3 DEF Read, TypeOK, TalkTypeOK
    <2>2. CASE c # cur
      BY <2>1, <2>2, WholeFrame DEF client, TypeOK, TalkTypeOK
    <2>3. CASE c = cur
      <3>1. wire'[c] = <<>>
        BY <2>1, <2>3 DEF TypeOK, TalkTypeOK
      <3>2. QED
        BY <2>1, <2>3, <3>1 DEF WholeInv, Waits, Asking, Latest, Right, client
    <2>4. QED
      BY <2>2, <2>3
  <1>4. CASE ReadEnds
    BY <1>4 DEF WholeInv, Waits, Asking, Latest, Right, ReadEnds, client
  <1>5. CASE Respond
    <2>1. PICK code \in Codes :
            /\ answers' = IF open[cur]
                          THEN [answers EXCEPT ![cur] = Append(@, [code |-> code, about |-> Path])]
                          ELSE answers
            /\ pc' = IF KeepAliveAsked /\ code # "500" THEN "read" ELSE "close"
      BY <1>5 DEF Respond
    <2>2. /\ cur \in Conns /\ pc = "answer" /\ cur' = cur
          /\ UNCHANGED <<wire, client>>
      BY <1>5 DEF Respond, TypeOK, TalkTypeOK
    <2>3. CASE c # cur
      BY <2>1, <2>2, <2>3, WholeFrame DEF client, TypeOK, TalkTypeOK
    <2>4. CASE c = cur
      <3>1. /\ request = Asking(c) /\ Waits(c) /\ wire[c] = <<>> /\ unsent[c] = <<>>
            /\ answers[c] # <<>> => c \in KeepAlive /\ Latest(c).code # "500"
        BY <2>2, <2>4 DEF WholeInv
      <3>2. Path = asked[c][Len(asked[c])] /\ (KeepAliveAsked <=> c \in KeepAlive)
        <4> DEFINE p == asked[c][Len(asked[c])]
        <4>1. p \in Paths
          BY <3>1, SeqFacts DEF TypeOK, TalkTypeOK, Waits
        <4>2. /\ DOMAIN request = 1..5 /\ Len(request) = 5
              /\ \A k \in 1..5 : request[k] = [part |-> k, path |-> p, alive |-> c \in KeepAlive]
          <5>1. request = Text(p, c \in KeepAlive)
            BY <3>1 DEF Asking
          <5> HIDE DEF p
          <5>2. QED
            BY <4>1, <5>1, OwnText, Zenon
        <4> HIDE DEF p
        <4>3. Path = p
          BY <4>2 DEF Path
        <4>4. KeepAliveAsked <=> c \in KeepAlive
          <5>1. /\ request[4].part = 4 /\ request[3].part = 3
                /\ request[4].alive = (c \in KeepAlive)
                /\ \A k \in 1..5 : request[k].part = k
            BY <4>2
          <5>2. KeepAliveAsked => c \in KeepAlive
            <6> SUFFICES ASSUME NEW k \in 1..5, request[k].part = 4, request[k].alive
                         PROVE  c \in KeepAlive
              BY <4>2 DEF KeepAliveAsked
            <6>1. k = 4
              BY <5>1
            <6>2. QED
              BY <5>1, <6>1, Zenon
          <5>3. c \in KeepAlive => KeepAliveAsked
            <6> SUFFICES ASSUME c \in KeepAlive
                         PROVE  KeepAliveAsked
              OBVIOUS
            <6>1. request[4].alive
              BY <5>1, Zenon
            <6>2. 4 \in DOMAIN request /\ request[4].part = 4 /\ request[4 - 1].part = 3
              BY <4>2, <5>1
            <6>3. QED
              BY <6>1, <6>2 DEF KeepAliveAsked
          <5>4. QED
            BY <5>2, <5>3
        <4>5. QED
          BY <4>3, <4>4 DEF p
      <3>3. Right(code, asked[c][Len(asked[c])])
        BY <2>1, <3>2 DEF Codes, Right
      <3>4. CASE open[c]
        <4> DEFINE a == [code |-> code, about |-> Path]
        <4>1. answers'[c] = Append(answers[c], a)
          BY <2>1, <2>2, <2>4, <3>4 DEF TypeOK, TalkTypeOK
        <4>2. answers[c] \in Seq(Answer) /\ asked[c] \in Seq(Paths)
          BY DEF TypeOK, TalkTypeOK
        <4>3. a.code = code /\ a.about = Path
          OBVIOUS
        <4> HIDE DEF a
        <4>4. /\ Len(answers[c]) \in Nat /\ Len(answers'[c]) = Len(answers[c]) + 1
              /\ answers'[c][Len(answers'[c])] = a
              /\ \A k \in 1..Len(answers[c]) : answers'[c][k] = answers[c][k]
          BY <4>1, <4>2
        <4>5. Len(asked[c]) = Len(answers'[c]) /\ asked'[c] = asked[c]
          BY <2>2, <3>1, <4>4 DEF Waits, client
        <4>6. \A k \in 1..Len(answers'[c]) : /\ answers'[c][k].about = asked[c][k]
                                             /\ Right(answers'[c][k].code, asked[c][k])
          <5> TAKE k \in 1..Len(answers'[c])
          <5>1. CASE k = Len(answers'[c])
            BY <3>2, <3>3, <4>3, <4>4, <4>5, <5>1
          <5>2. CASE k # Len(answers'[c])
            <6>1. k \in 1..Len(answers[c])
              BY <4>4, <5>2
            <6>2. QED
              BY <4>4, <6>1 DEF WholeInv
          <5>3. QED
            BY <5>1, <5>2
        <4>7. answers'[c][Len(answers'[c])].code = code /\ answers'[c] # <<>>
          BY <4>3, <4>4
        <4>8. QED
          BY <2>1, <2>2, <2>4, <3>1, <3>2, <4>4, <4>5, <4>6, <4>7 DEF WholeInv, Waits, Latest, client
      <3>5. CASE ~open[c]
        BY <2>1, <2>2, <2>4, <3>1, <3>2, <3>5 DEF WholeInv, Waits, Latest, Right, client
      <3>6. QED
        BY <3>4, <3>5
    <2>5. QED
      BY <2>3, <2>4
  <1>6. CASE Close
    <2>1. wire'[c] = wire[c] \/ wire'[c] = <<>>
      BY <1>6 DEF Close, TypeOK, TalkTypeOK
    <2>2. QED
      BY <1>6, <2>1 DEF WholeInv, Waits, Asking, Latest, Right, Close, client
  <1>7. QED
    BY <1>1, <1>2, <1>3, <1>4, <1>5, <1>6 DEF Server

LEMMA ClientWhole ==
    ASSUME TypeOK, QueueInv, NEW d \in Conns, Client(d), NEW c \in Conns \ Split, WholeInv(c)
    PROVE  WholeInv(c)'
  <1>1. UNCHANGED server
    BY DEF Client, Connect, Ask, Deliver, GiveUp
  <1>2. CASE Connect(d)
    <2>1. CASE c # d
      BY <1>1, <1>2, <2>1, WholeFrame DEF Connect, TypeOK, TalkTypeOK
    <2>2. CASE c = d
      <3>1. ~(pc \in {"read", "answer", "close"} /\ cur = c)
        BY <1>2, <2>2 DEF Connect, QueueInv
      <3>2. QED
        BY <1>1, <1>2, <3>1 DEF WholeInv, Waits, Asking, Connect, server
    <2>3. QED
      BY <2>1, <2>2
  <1>3. CASE Ask(d)
    <2>1. CASE c # d
      BY <1>1, <1>3, <2>1, WholeFrame DEF Ask, TypeOK, TalkTypeOK
    <2>2. CASE c = d
      <3>1. PICK p \in Paths :
              /\ asked' = [asked EXCEPT ![c] = Append(@, p)]
              /\ wire' = [wire EXCEPT ![c] = @ \o Text(p, c \in KeepAlive)]
              /\ UNCHANGED unsent
        BY <1>3, <2>2 DEF Ask
      <3>2. /\ Len(answers[c]) = Len(asked[c]) /\ answers' = answers /\ open' = open
            /\ asked[c] \in Seq(Paths) /\ asked'[c] = Append(asked[c], p)
        BY <1>3, <2>2, <3>1 DEF Ask, TypeOK, TalkTypeOK
      <3>3. /\ Len(asked[c]) \in Nat /\ Len(asked'[c]) = Len(asked[c]) + 1
            /\ asked'[c][Len(asked'[c])] = p
            /\ \A k \in 1..Len(asked[c]) : asked'[c][k] = asked[c][k]
        BY <3>2
      <3>4. wire[c] = <<>> /\ ~(pc = "answer" /\ cur = c)
        BY <3>2, <3>3 DEF WholeInv, Waits
      <3>5. wire'[c] = Text(p, c \in KeepAlive)
        <4>1. Text(p, c \in KeepAlive) \in Seq(Fragment) /\ wire[c] = <<>>
          BY <3>4, OwnText, Zenon
        <4>2. wire'[c] = <<>> \o Text(p, c \in KeepAlive)
          BY <3>1, <4>1 DEF TypeOK, TalkTypeOK
        <4>3. QED
          BY <4>1, <4>2, ConcatEmptySeq
      <3>6. Waits(c)' /\ Asking(c)' = Text(p, c \in KeepAlive)
        BY <3>2, <3>3 DEF Waits, Asking
      <3>7. \A k \in 1..Len(answers'[c]) : /\ answers'[c][k].about = asked'[c][k]
                                           /\ Right(answers'[c][k].code, asked'[c][k])
        BY <3>2, <3>3 DEF WholeInv
      <3>8. QED
        BY <1>1, <3>1, <3>2, <3>3, <3>4, <3>5, <3>6, <3>7 DEF WholeInv, Latest, server
    <2>3. QED
      BY <2>1, <2>2
  <1>4. CASE Deliver(d)
    <2>1. c # d
      BY <1>4 DEF Deliver, WholeInv
    <2>2. QED
      BY <1>1, <1>4, <2>1, WholeFrame DEF Deliver, TypeOK, TalkTypeOK
  <1>5. CASE GiveUp(d)
    <2>1. CASE c # d
      BY <1>1, <1>5, <2>1, WholeFrame DEF GiveUp, TypeOK, TalkTypeOK
    <2>2. CASE c = d
      BY <1>1, <1>5, <2>2 DEF WholeInv, Waits, Asking, Latest, Right, GiveUp, server, TypeOK, TalkTypeOK
    <2>3. QED
      BY <2>1, <2>2
  <1>6. QED
    BY <1>2, <1>3, <1>4, <1>5 DEF Client

\* The invariant is inductive.
LEMMA StepInv ==
    ASSUME TypeOK, ServerInv, [Next]_vars
    PROVE  ServerInv'
  <1>1. QueueInv'
    BY QueueStep DEF ServerInv
  <1>2. ASSUME NEW c \in Conns \ Split
        PROVE  WholeInv(c)'
    <2>1. WholeInv(c)
      BY DEF ServerInv
    <2>2. CASE UNCHANGED vars
      BY <2>1, <2>2, WholeFrame DEF vars, client
    <2>3. QED
      BY <2>1, <2>2, ServerWhole, ClientWhole DEF Next, ServerInv
  <1>3. QED
    BY <1>1, <1>2 DEF ServerInv

\* The agent's inductive invariant holds in every state.
THEOREM AgentInvariant == Spec => [](TypeOK /\ ServerInv)
  <1>1. Init => TypeOK /\ ServerInv
    <2>1. Init => TypeOK
      BY AgentInit
    <2>2. Init => ServerInv
      BY DEF Init, ServerInv, QueueInv, WholeInv
    <2>3. QED
      BY <2>1, <2>2
  <1>2. TypeOK /\ ServerInv /\ [Next]_vars => TypeOK' /\ ServerInv'
    BY StepType, StepInv
  <1>3. QED
    BY <1>1, <1>2, PTL DEF Spec

\* A client whose requests arrive whole is answered once per request at most,
\* in order, about what it asked (agent.c:92-133).
THEOREM AgentAnswersMatch == Spec => []AnswersMatch
  <1>1. TypeOK /\ ServerInv => AnswersMatch
    <2> SUFFICES ASSUME TypeOK, ServerInv, NEW c \in Conns \ Split
                 PROVE  /\ Len(answers[c]) <= Len(asked[c])
                        /\ \A k \in DOMAIN answers[c] :
                             /\ answers[c][k].about = asked[c][k]
                             /\ Right(answers[c][k].code, asked[c][k])
      BY DEF AnswersMatch
    <2>1. DOMAIN answers[c] = 1..Len(answers[c])
      BY DEF TypeOK, TalkTypeOK
    <2>2. QED
      BY <2>1 DEF ServerInv, WholeInv
  <1>2. QED
    BY <1>1, AgentInvariant, PTL

\* A connection asked to be kept alive is kept until its client has gone or a
\* 500 has been sent, and no other is read again (agent.c:98, 116, 124).
THEOREM AgentKeptAlive == Spec => []KeptAlive
  <1>1. TypeOK /\ ServerInv => KeptAlive
    BY DEF ServerInv, WholeInv, KeptAlive
  <1>2. QED
    BY <1>1, AgentInvariant, PTL

-----------------------------------------------------------------------------
(* The option loop.                                                        *)

\* p is what the last of the places S says, or the default.
PortIs(p, S) ==
    IF S = {} THEN p = DefaultPort
    ELSE \E k \in S : p = PortAt(k) /\ \A j \in S : j <= k

Before(k) == {j \in Named : j < k}

\* At argument k the loop has understood all before it, of which the last is
\* no option that still wants its value, and p is the last port among them.
ReadTo(k, p) ==
    /\ Understood(k)
    /\ ~Value(k)
    /\ PortIs(p, Before(k))

\* The inductive invariant.
LoopInv ==
    /\ pc = "options" => ReadTo(i, port)
    /\ pc = "sampler" => Understood(Len(argv) + 1) /\ PortIs(port, Named)
    /\ pc = "exited" /\ sampler = "off" /\ ~Understood(Len(argv) + 1) =>
         (status = 0 <=> \E k \in DOMAIN argv : argv[k] \in HelpOptions /\ Understood(k))

\* Which kinds of argument exclude each other.
LEMMA Kinds ==
    /\ \A a \in PortOptions : a \notin HelpOptions /\ a \notin DOMAIN PortTexts
                              /\ a \notin DOMAIN Assigned
    /\ \A a \in HelpOptions : a \notin DOMAIN PortTexts /\ a \notin DOMAIN Assigned
  <1>1. \A a \in PortOptions : a \notin HelpOptions
    BY DEF PortOptions, HelpOptions
  <1>2. QED
    BY <1>1, ArgumentAssumption

\* An option and its value are read together.
LEMMA ReadPair ==
    ASSUME argv \in Seq(STRING), NEW n \in 1..Len(argv), NEW p, ReadTo(n, p),
           argv[n] \in PortOptions, n < Len(argv), argv[n + 1] \in DOMAIN PortTexts
    PROVE  ReadTo(n + 2, PortTexts[argv[n + 1]])
  <1>1. Len(argv) \in Nat /\ DOMAIN argv = 1..Len(argv)
    OBVIOUS
  <1>2. Value(n + 1) /\ ~Value(n) /\ ~Value(n + 2)
    <2>1. argv[n + 1] \notin PortOptions
      BY Kinds
    <2>2. QED
      BY <1>1, <2>1 DEF Value, ReadTo
  <1>3. Understood(n + 2)
    <2> SUFFICES ASSUME NEW j \in 1..(n + 2) - 1
                 PROVE  \/ argv[j] \in PortOptions /\ j + 1 < n + 2 /\ argv[j + 1] \in DOMAIN PortTexts
                        \/ argv[j] \in DOMAIN Assigned /\ Assigned[argv[j]] \in DOMAIN PortTexts
                        \/ Value(j) /\ argv[j] \in DOMAIN PortTexts
      BY DEF Understood
    <2>1. CASE j <= n - 1
      <3>1. j \in 1..n - 1
        BY <1>1, <2>1
      <3>2. \/ argv[j] \in PortOptions /\ j + 1 < n /\ argv[j + 1] \in DOMAIN PortTexts
            \/ argv[j] \in DOMAIN Assigned /\ Assigned[argv[j]] \in DOMAIN PortTexts
            \/ Value(j) /\ argv[j] \in DOMAIN PortTexts
        BY <3>1 DEF ReadTo, Understood
      <3>3. j + 1 < n => j + 1 < n + 2
        BY <1>1
      <3>4. QED
        BY <3>2, <3>3
    <2>2. CASE j = n
      BY <1>1, <2>2
    <2>3. CASE j = n + 1
      BY <1>2, <2>3
    <2>4. QED
      BY <1>1, <2>1, <2>2, <2>3
  <1>4. Before(n + 2) = Before(n) \cup {n + 1}
    <2>1. n \notin Named
      BY <1>2, Kinds DEF Named
    <2>2. n + 1 \in Named
      BY <1>1, <1>2 DEF Named
    <2>3. \A k \in Named : k \in Nat
      BY <1>1 DEF Named
    <2>4. \A k \in Named : k < n + 2 <=> k < n \/ k = n + 1
      BY <1>1, <2>1, <2>3
    <2>5. QED
      BY <2>2, <2>4 DEF Before
  <1>5. PortIs(PortTexts[argv[n + 1]], Before(n + 2))
    <2>1. PortAt(n + 1) = PortTexts[argv[n + 1]]
      BY <1>2 DEF PortAt
    <2>2. \A j \in Before(n + 2) : j <= n + 1
      BY <1>1, <1>4 DEF Before, Named
    <2>3. QED
      BY <1>4, <2>1, <2>2 DEF PortIs
  <1>6. QED
    BY <1>2, <1>3, <1>5 DEF ReadTo

\* An option that carries its value is read alone.
LEMMA ReadOne ==
    ASSUME argv \in Seq(STRING), NEW n \in 1..Len(argv), NEW p, ReadTo(n, p),
           argv[n] \in DOMAIN Assigned, Assigned[argv[n]] \in DOMAIN PortTexts
    PROVE  ReadTo(n + 1, PortTexts[Assigned[argv[n]]])
  <1>1. Len(argv) \in Nat /\ DOMAIN argv = 1..Len(argv)
    OBVIOUS
  <1>2. ~Value(n) /\ ~Value(n + 1)
    <2>1. argv[n] \notin PortOptions
      BY Kinds
    <2>2. QED
      BY <1>1, <2>1 DEF Value, ReadTo
  <1>3. Understood(n + 1)
    <2> SUFFICES ASSUME NEW j \in 1..(n + 1) - 1
                 PROVE  \/ argv[j] \in PortOptions /\ j + 1 < n + 1 /\ argv[j + 1] \in DOMAIN PortTexts
                        \/ argv[j] \in DOMAIN Assigned /\ Assigned[argv[j]] \in DOMAIN PortTexts
                        \/ Value(j) /\ argv[j] \in DOMAIN PortTexts
      BY DEF Understood
    <2>1. CASE j <= n - 1
      <3>1. j \in 1..n - 1
        BY <1>1, <2>1
      <3>2. \/ argv[j] \in PortOptions /\ j + 1 < n /\ argv[j + 1] \in DOMAIN PortTexts
            \/ argv[j] \in DOMAIN Assigned /\ Assigned[argv[j]] \in DOMAIN PortTexts
            \/ Value(j) /\ argv[j] \in DOMAIN PortTexts
        BY <3>1 DEF ReadTo, Understood
      <3>3. j + 1 < n => j + 1 < n + 1
        BY <1>1
      <3>4. QED
        BY <3>2, <3>3
    <2>2. CASE j = n
      BY <2>2
    <2>3. QED
      BY <1>1, <2>1, <2>2
  <1>4. Before(n + 1) = Before(n) \cup {n}
    <2>1. n \in Named
      BY <1>1 DEF Named
    <2>2. \A k \in Named : k \in Nat
      BY <1>1 DEF Named
    <2>3. \A k \in Named : k < n + 1 <=> k < n \/ k = n
      BY <1>1, <2>2
    <2>4. QED
      BY <2>1, <2>3 DEF Before
  <1>5. PortIs(PortTexts[Assigned[argv[n]]], Before(n + 1))
    <2>1. PortAt(n) = PortTexts[Assigned[argv[n]]]
      BY <1>2 DEF PortAt
    <2>2. \A j \in Before(n + 1) : j <= n
      BY <1>1, <1>4 DEF Before, Named
    <2>3. QED
      BY <1>4, <2>1, <2>2 DEF PortIs
  <1>6. QED
    BY <1>2, <1>3, <1>5 DEF ReadTo

\* After an argument the loop gives up on, no help is asked for that it
\* understands.
LEMMA NoHelp ==
    ASSUME argv \in Seq(STRING), i \in 1..Len(argv) + 1, NEW p, ReadTo(i, p), Invalid,
           NEW k \in DOMAIN argv, argv[k] \in HelpOptions, Understood(k)
    PROVE  FALSE
  <1>1. Len(argv) \in Nat /\ DOMAIN argv = 1..Len(argv) /\ k \in 1..Len(argv)
    OBVIOUS
  <1>2. i <= Len(argv) /\ argv[i] \notin HelpOptions
    BY Kinds DEF Invalid, At
  <1>3. CASE k < i
    <2>1. k \in 1..i - 1
      BY <1>1, <1>2, <1>3
    <2>2. \/ argv[k] \in PortOptions
          \/ argv[k] \in DOMAIN Assigned
          \/ argv[k] \in DOMAIN PortTexts
      BY <2>1 DEF ReadTo, Understood
    <2>3. QED
      BY <2>2, Kinds
  <1>4. CASE k > i
    <2>1. i \in 1..k - 1
      BY <1>1, <1>2, <1>4
    <2>2. \/ argv[i] \in PortOptions /\ i + 1 < k /\ argv[i + 1] \in DOMAIN PortTexts
          \/ argv[i] \in DOMAIN Assigned /\ Assigned[argv[i]] \in DOMAIN PortTexts
      BY <2>1 DEF ReadTo, Understood
    <2>3. i + 1 < k => i < Len(argv)
      BY <1>1, <2>1
    <2>4. QED
      BY <2>2, <2>3, Kinds DEF Invalid, At, PortTaken
  <1>5. QED
    BY <1>1, <1>2, <1>3, <1>4

\* What is said of a command line stays true while it is the same.
LEMMA SameReading ==
    ASSUME argv' = argv
    PROVE  /\ \A k, p : ReadTo(k, p)' <=> ReadTo(k, p)
           /\ \A k : Understood(k)' <=> Understood(k)
           /\ Named' = Named
           /\ \A p : PortIs(p, Named)' <=> PortIs(p, Named)
  BY DEF ReadTo, Understood, Value, PortIs, Before, Named, PortAt

LEMMA LoopStep ==
    ASSUME StartTypeOK, LoopInv, Options
    PROVE  LoopInv'
  <1>1. /\ argv \in Seq(STRING) /\ i \in Place
        /\ pc = "options" /\ argv' = argv /\ sampler' = sampler
    BY DEF StartTypeOK, Options
  <1>2. /\ Len(argv) \in Nat /\ DOMAIN argv = 1..Len(argv) /\ i \in 1..Len(argv) + 1
        /\ ReadTo(i, port)
    BY <1>1, PlaceFacts DEF LoopInv
  <1>3. CASE Help
    <2>1. pc' = "exited" /\ status' = 0 /\ i \in DOMAIN argv /\ argv[i] \in HelpOptions
      BY <1>2, <1>3 DEF Help, Exit, At
    <2>2. \E k \in DOMAIN argv : argv[k] \in HelpOptions /\ Understood(k)
      BY <1>2, <2>1 DEF ReadTo
    <2>3. QED
      BY <1>1, <2>1, <2>2, SameReading DEF LoopInv
  <1>4. CASE SetPort
    <2>1. CASE At(PortOptions) /\ PortTaken /\ port' = PortTexts[argv[i + 1]] /\ Goto(i + 2)
      <3>1. ReadTo(i + 2, port') /\ i' = i + 2 /\ pc' = "options"
        BY <1>1, <1>2, <2>1, ReadPair DEF At, PortTaken, Goto
      <3>2. QED
        BY <1>1, <3>1 DEF LoopInv, ReadTo, Understood, Value, PortIs, Before, Named, PortAt
    <2>2. CASE At(DOMAIN Assigned) /\ Assigned[argv[i]] \in DOMAIN PortTexts
               /\ port' = PortTexts[Assigned[argv[i]]] /\ Goto(i + 1)
      <3>1. ReadTo(i + 1, port') /\ i' = i + 1 /\ pc' = "options"
        BY <1>1, <1>2, <2>2, ReadOne DEF At, Goto
      <3>2. QED
        BY <1>1, <3>1 DEF LoopInv, ReadTo, Understood, Value, PortIs, Before, Named, PortAt
    <2>3. QED
      BY <1>4, <2>1, <2>2 DEF SetPort
  <1>5. CASE Invalid
    <2>1. pc' = "exited" /\ status' = 1
      BY <1>5 DEF Invalid, Exit
    <2>2. ~\E k \in DOMAIN argv : argv[k] \in HelpOptions /\ Understood(k)
      BY <1>1, <1>2, <1>5, NoHelp
    <2>3. QED
      BY <1>1, <2>1, <2>2, SameReading DEF LoopInv
  <1>6. CASE OptionsEnd
    <2>1. pc' = "sampler" /\ port' = port /\ i = Len(argv) + 1
      BY <1>2, <1>6 DEF OptionsEnd
    <2>2. Before(i) = Named
      BY <1>2, <2>1 DEF Before, Named
    <2>3. Understood(Len(argv) + 1) /\ PortIs(port, Named)
      BY <1>2, <2>1, <2>2 DEF ReadTo
    <2>4. QED
      BY <1>1, <2>1, <2>3 DEF LoopInv, Understood, Value, PortIs, Named, PortAt
  <1>7. QED
    BY <1>3, <1>4, <1>5, <1>6 DEF Options

\* An exit of the start-up is one after a command line that was understood, or
\* with the sampler on.
LEMMA StartUpStep ==
    ASSUME StartTypeOK, LoopInv, StartUp
    PROVE  LoopInv'
  <1>1. CASE StartSampler
    <2>1. argv' = argv /\ Understood(Len(argv) + 1) /\ pc' \in {"socket", "exited"}
      BY <1>1 DEF StartSampler, Exit, line, LoopInv
    <2>2. Understood(Len(argv) + 1)'
      BY <2>1 DEF Understood, Value
    <2>3. QED
      BY <2>1, <2>2 DEF LoopInv
  <1>2. CASE OpenListener \/ ListenerFails \/ SetReuse \/ Bind \/ Listen
    <2>1. sampler = "on" /\ sampler' = sampler /\ pc' \notin {"options", "sampler"}
      BY <1>2 DEF OpenListener, ListenerFails, SetReuse, Bind, Listen, Exit, start, StartTypeOK
    <2>2. QED
      BY <2>1 DEF LoopInv
  <1>3. QED
    BY <1>1, <1>2 DEF StartUp

\* Nothing after the start-up touches what it left.
LEMMA LoopKept ==
    ASSUME LoopInv, UNCHANGED start, pc' = pc \/ Listening'
    PROVE  LoopInv'
  <1>1. CASE Listening'
    BY <1>1 DEF LoopInv, Listening
  <1>2. CASE pc' = pc
    BY <1>2 DEF LoopInv, start, line, ReadTo, Understood, Value, PortIs, Before, Named, PortAt
  <1>3. QED
    BY <1>1, <1>2

\* The option loop, from left to right and skipping values, understands the
\* command line as a whole, whatever it is (agent.c:146-177).
THEOREM AgentListensAsTold == Spec => []ListensAsTold
  <1>1. Init => LoopInv
    <2> SUFFICES ASSUME Init PROVE LoopInv
      OBVIOUS
    <2>1. pc = "options" /\ i = 1 /\ port = DefaultPort
      BY DEF Init
    <2>2. Before(1) = {}
      <3>1. argv \in Seq(STRING)
        BY ArgumentAssumption DEF Init
      <3>2. DOMAIN argv = 1..Len(argv) /\ Len(argv) \in Nat
        BY <3>1
      <3>3. QED
        BY <3>2 DEF Before, Named
    <2>3. ReadTo(1, DefaultPort)
      BY <2>2 DEF ReadTo, Understood, Value, PortIs
    <2>4. QED
      BY <2>1, <2>3 DEF LoopInv
  <1>2. TypeOK /\ LoopInv /\ [Next]_vars => LoopInv'
    <2> SUFFICES ASSUME TypeOK, LoopInv, [Next]_vars PROVE LoopInv'
      OBVIOUS
    <2>1. CASE Options \/ StartUp
      BY <2>1, LoopStep, StartUpStep DEF TypeOK
    <2>2. CASE Accept \/ Read \/ ReadEnds \/ Respond \/ Close
      BY <2>2, LoopKept DEF Accept, Read, ReadEnds, Respond, Close, Listening
    <2>3. CASE \E c \in Conns : Client(c)
      BY <2>3, LoopKept DEF Client, Connect, Ask, Deliver, GiveUp, server
    <2>4. CASE UNCHANGED vars
      BY <2>4, LoopKept DEF vars, server
    <2>5. QED
      BY <2>1, <2>2, <2>3, <2>4 DEF Next, Server
  <1>3. LoopInv => ListensAsTold
    BY DEF LoopInv, ListensAsTold, PortIs
  <1>4. QED
    BY <1>1, <1>2, <1>3, AgentTypeCorrect, PTL DEF Spec
=============================================================================
