-------------------------- MODULE RoundRobinProofs --------------------------
(***************************************************************************)
(* Theorems about RoundRobin for any number of servers and clients, any    *)
(* capacity of the connections and any size of the buffers.                *)
(***************************************************************************)
EXTENDS RoundRobin, SumProofs

USE RoundRobinAssumption

\* The smaller of two positive numbers is positive and at most either.
LEMMA LesserOfTwo ==
  ASSUME NEW a \in Nat, NEW b \in Nat
  PROVE  /\ Min({a, b}) \in Nat
         /\ Min({a, b}) <= a
         /\ Min({a, b}) <= b
<1>1. \E x \in {a, b} : \A y \in {a, b} : x <= y
  <2>1. CASE a <= b
    BY <2>1
  <2>2. CASE b <= a
    BY <2>2
  <2> QED
    BY <2>1, <2>2
<1>2. Min({a, b}) \in {a, b} /\ \A y \in {a, b} : Min({a, b}) <= y
  BY <1>1 DEF Min
<1> QED
  BY <1>2

\* The rotation stays within the servers and counts one draw.
LEMMA DrawType ==
  ASSUME TypeOK, Draw
  PROVE  /\ target' \in Servers
         /\ CurSelectedServerIndex' \in Servers
         /\ drawn' \in [Servers -> Nat]
<1> DEFINE cur == CurSelectedServerIndex
<1>1. cur \in Servers /\ drawn \in [Servers -> Nat]
  BY DEF TypeOK
<1>2. drawn[cur] + 1 \in Nat
  BY <1>1
<1>3. drawn' = [drawn EXCEPT ![cur] = drawn[cur] + 1]
  BY DEF Draw
<1>4. drawn' \in [Servers -> Nat]
  BY <1>1, <1>2, <1>3
<1>5. target' = cur
  BY DEF Draw
<1>6. CurSelectedServerIndex' = IF cur + 1 >= SERVERS_NUM THEN 0 ELSE cur + 1
  BY DEF Draw
<1> HIDE DEF cur
<1>7. CurSelectedServerIndex' \in Servers
  BY <1>1, <1>6 DEF Servers
<1> QED
  BY <1>1, <1>4, <1>5, <1>7
-----------------------------------------------------------------------------
(***************************************************************************)
(* Type correctness.                                                       *)
(***************************************************************************)
LEMMA TypeInit == Init => TypeOK
<1> SUFFICES ASSUME Init PROVE TypeOK
  OBVIOUS
<1>1. 0 \in Servers /\ 0 \in 0 .. BUFSIZ
  BY DEF Servers
<1>2. innerUp \in [Servers -> BOOLEAN] /\ echoing \in [Servers -> BOOLEAN]
  BY DEF Init
<1>3. /\ workb \in [Servers -> Nat]
      /\ replyb \in [Servers -> Nat]
      /\ drawn \in [Servers -> Nat]
  BY DEF Init
<1>4. /\ cst \in [Conns -> {"idle", "queued", "open", "closed"}]
      /\ ending \in [Conns -> {"no", "fin", "reset"}]
      /\ avail \in [Conns -> Nat]
      /\ inbox \in [Conns -> Nat]
      /\ sent \in [Conns -> Nat]
      /\ chunks \in [Conns -> Nat]
      /\ answers \in [Conns -> Nat]
  BY DEF Init
<1> QED
  BY <1>1, <1>2, <1>3, <1>4 DEF Init, TypeOK

\* Reading takes no more than there is, and leaves a chunk to write.
LEMMA TypeRead ==
  ASSUME TypeOK, NEW c \in Conns, Read(c)
  PROVE  TypeOK'
<1> DEFINE n == Min({avail[c], BUFSIZ})
<1>1. avail[c] \in Nat /\ BUFSIZ \in Nat
  BY DEF TypeOK
<1>2. n \in Nat /\ n <= avail[c] /\ n <= BUFSIZ
  BY <1>1, LesserOfTwo
<1>3. avail[c] - n \in Nat /\ n \in 0 .. BUFSIZ
  BY <1>1, <1>2
<1>4. avail' = [avail EXCEPT ![c] = avail[c] - n] /\ readn' = n /\ unsent' = n
  BY DEF Read
<1> HIDE DEF n
<1>5. /\ avail' \in [Conns -> Nat]
      /\ readn' \in 0 .. BUFSIZ
      /\ unsent' \in 0 .. BUFSIZ
  BY <1>3, <1>4 DEF TypeOK
<1>6. Draw
  BY DEF Read
<1>7. chunks' \in [Conns -> Nat]
  BY DEF Read, TypeOK
<1>8. /\ target' \in Servers
      /\ CurSelectedServerIndex' \in Servers
      /\ drawn' \in [Servers -> Nat]
  BY <1>6, DrawType
<1>9. /\ fd' \in Conns /\ verdict' \in BOOLEAN
      /\ batch' \subseteq Conns \cup {Listener}
      /\ opc' = "write"
  BY DEF Read, TypeOK
<1> QED
  BY <1>5, <1>7, <1>8, <1>9 DEF Read, TypeOK, serverVars

\* So does writing: no more than is left, and no more than there is room for.
LEMMA TypeWriteSome ==
  ASSUME TypeOK, WriteSome
  PROVE  TypeOK'
<1> DEFINE n == Min({unsent, WorkCap - workb[target]})
<1>1. /\ unsent \in Nat /\ unsent <= BUFSIZ
      /\ workb[target] \in Nat /\ WorkCap - workb[target] \in Nat
  BY DEF TypeOK, WriteSome
<1>2. n \in Nat /\ n <= unsent
  BY <1>1, LesserOfTwo
<1>3. unsent - n \in 0 .. BUFSIZ /\ workb[target] + n \in Nat
  BY <1>1, <1>2
<1>4. /\ workb' = [workb EXCEPT ![target] = workb[target] + n]
      /\ unsent' = unsent - n
  BY DEF WriteSome
<1> HIDE DEF n
<1>5. workb' \in [Servers -> Nat] /\ unsent' \in 0 .. BUFSIZ
  BY <1>3, <1>4 DEF TypeOK
<1>6. verdict' \in BOOLEAN /\ opc' \in {"write", "answer"}
  BY DEF WriteSome
<1> QED
  BY <1>5, <1>6 DEF WriteSome, TypeOK, connVars, ghostVars

LEMMA TypeDispatcher ==
  ASSUME TypeOK, Dispatcher \/ MainReturns
  PROVE  TypeOK'
<1> USE DEF chunkVars, connVars, serverVars, ghostVars
<1>1. CASE EpollWait
  BY <1>1 DEF EpollWait, Ready, TypeOK
<1>2. CASE HandleListen
  BY <1>2 DEF HandleListen, TypeOK
<1>3. ASSUME NEW c \in Conns, Accept(c) PROVE TypeOK'
  BY <1>3 DEF Accept, TypeOK
<1>4. ASSUME NEW c \in Conns, Close(c) PROVE TypeOK'
  BY <1>4 DEF Close, NextEvent, TypeOK
<1>5. CASE AcceptDone
  BY <1>5 DEF AcceptDone, NextEvent, TypeOK
<1>6. CASE AcceptFails \/ MainReturns
  BY <1>6 DEF AcceptFails, MainReturns, Exit, TypeOK
<1>7. CASE WriteToDead
  <2>1. verdict' \in BOOLEAN
    BY <1>7 DEF WriteToDead
  <2> QED
    BY <1>7, <2>1 DEF WriteToDead, TypeOK
<1>8. CASE Answer
  <2>1. 0 \in Servers /\ 0 \in 0 .. BUFSIZ /\ FALSE \in BOOLEAN
    BY DEF Servers
  <2>2. answers' \in [Conns -> Nat] /\ inbox' \in [Conns -> Nat]
    BY <1>8 DEF Answer, TypeOK
  <2>3. /\ fd' = Listener /\ readn' \in 0 .. BUFSIZ /\ unsent' \in 0 .. BUFSIZ
        /\ verdict' \in BOOLEAN /\ target' \in Servers
    BY <1>8, <2>1 DEF Answer, NoChunk
  <2>4. opc' \in {"wait", "batch"}
    BY <1>8 DEF Answer, NextEvent
  <2> QED
    BY <1>8, <2>2, <2>3, <2>4 DEF Answer, TypeOK
<1> QED
  BY <1>1, <1>2, <1>3, <1>4, <1>5, <1>6, <1>7, <1>8, TypeRead, TypeWriteSome
     DEF Dispatcher

LEMMA TypeServer ==
  ASSUME TypeOK, NEW s \in Servers, Worker(s) \/ Crash(s)
  PROVE  TypeOK'
<1> USE DEF distributorVars, chunkVars, connVars, ghostVars
<1>1. CASE WorkerRead(s)
  <2>1. workb[s] \in Nat
    BY DEF TypeOK
  <2>2. PICK n \in 1 .. Min({workb[s], messLen}) :
          /\ workb' = [workb EXCEPT ![s] = workb[s] - n]
          /\ echoing' = [echoing EXCEPT ![s] = (n = messLen)]
    BY <1>1 DEF WorkerRead
  <2>3. workb[s] - n \in Nat
    BY <2>1, LesserOfTwo
  <2>4. workb' \in [Servers -> Nat] /\ echoing' \in [Servers -> BOOLEAN]
    BY <2>2, <2>3 DEF TypeOK
  <2> QED
    BY <1>1, <2>4 DEF WorkerRead, TypeOK
<1>2. CASE WorkerEcho(s)
  BY <1>2 DEF WorkerEcho, TypeOK
<1>3. CASE ServerEof(s) \/ Crash(s)
  <2>1. End(s)
    BY <1>3 DEF ServerEof, Crash
  <2>2. innerUp' \in [Servers -> BOOLEAN] /\ echoing' \in [Servers -> BOOLEAN]
    BY <2>1 DEF End, TypeOK
  <2>3. workb' \in [Servers -> Nat]
    BY <2>1 DEF End, TypeOK
  <2> QED
    BY <2>1, <2>2, <2>3 DEF End, TypeOK
<1> QED
  BY <1>1, <1>2, <1>3 DEF Worker

LEMMA TypeClient ==
  ASSUME TypeOK, NEW c \in Conns, Client(c)
  PROVE  TypeOK'
<1> USE DEF distributorVars, chunkVars, serverVars, ghostVars
<1>1. CASE Connect(c)
  BY <1>1 DEF Connect, TypeOK
<1>2. ASSUME NEW n \in 1 .. MaxSend, Send(c, n) PROVE TypeOK'
  BY <1>2 DEF Send, TypeOK
<1>3. CASE Shutdown(c)
  BY <1>3 DEF Shutdown, TypeOK
<1>4. CASE Reset(c)
  BY <1>4 DEF Reset, TypeOK
<1>5. CASE ReadAnswer(c)
  BY <1>5 DEF ReadAnswer, TypeOK
<1> QED
  BY <1>1, <1>2, <1>3, <1>4, <1>5 DEF Client

\* Every variable keeps its type: no read takes bytes that are not there, and
\* the index of the rotation is always that of a server.
THEOREM TypeCorrect == Spec => []TypeOK
<1>1. TypeOK /\ [Next]_vars => TypeOK'
  <2> SUFFICES ASSUME TypeOK, [Next]_vars PROVE TypeOK'
    OBVIOUS
  <2>1. CASE UNCHANGED vars
    BY <2>1 DEF vars, chunkVars, connVars, serverVars, ghostVars, TypeOK
  <2> QED
    BY <2>1, TypeDispatcher, TypeServer, TypeClient DEF Next
<1> QED
  BY <1>1, TypeInit, PTL DEF Spec
-----------------------------------------------------------------------------
(***************************************************************************)
(* The rotation.                                                           *)
(***************************************************************************)
\* Only a read from a client moves the rotation and counts a chunk.
LEMMA RotationFrame ==
  ASSUME [Next]_vars, \A c \in Conns : ~Read(c)
  PROVE  UNCHANGED <<CurSelectedServerIndex, drawn, chunks>>
<1> USE DEF distributorVars, ghostVars
<1>1. CASE Dispatcher \/ MainReturns
  BY <1>1 DEF Dispatcher, MainReturns, EpollWait, HandleListen, Accept, Close,
              AcceptDone, AcceptFails, Exit, WriteSome, WriteToDead, Answer
<1>2. ASSUME NEW s \in Servers, Worker(s) \/ Crash(s)
      PROVE  UNCHANGED <<CurSelectedServerIndex, drawn, chunks>>
  BY <1>2 DEF Worker, WorkerRead, WorkerEcho, ServerEof, Crash, End
<1>3. ASSUME NEW c \in Conns, Client(c)
      PROVE  UNCHANGED <<CurSelectedServerIndex, drawn, chunks>>
  BY <1>3 DEF Client, Connect, Send, Shutdown, Reset, ReadAnswer
<1>4. CASE UNCHANGED vars
  BY <1>4 DEF vars
<1> QED
  BY <1>1, <1>2, <1>3, <1>4 DEF Next

\* A draw keeps the deal even.
LEMMA RotationDraw ==
  ASSUME TypeOK, RotationBalanced, Draw
  PROVE  RotationBalanced'
<1> DEFINE cur == CurSelectedServerIndex
           last == SERVERS_NUM - 1
<1>1. /\ cur \in Servers /\ last \in Servers
      /\ \A s \in Servers : s \in Int /\ 0 <= s /\ s <= last
      /\ SERVERS_NUM \in Nat
  BY DEF TypeOK, Servers
<1>2. \A s \in Servers :
        /\ drawn[s] \in Nat
        /\ drawn[s] = drawn[last] + (IF s < cur THEN 1 ELSE 0)
        /\ drawn'[s] = IF s = cur THEN drawn[s] + 1 ELSE drawn[s]
  BY DEF TypeOK, RotationBalanced, Draw
<1>3. CurSelectedServerIndex' = IF cur + 1 >= SERVERS_NUM THEN 0 ELSE cur + 1
  BY DEF Draw
<1> HIDE DEF cur, last
<1> SUFFICES ASSUME NEW s \in Servers
             PROVE  drawn'[s] = drawn'[last]
                      + (IF s < CurSelectedServerIndex' THEN 1 ELSE 0)
  BY DEF RotationBalanced, last
<1>4. SERVERS_NUM = last + 1
  BY <1>1 DEF last
<1>5. CASE cur = last
  <2>1. CurSelectedServerIndex' = 0
    BY <1>1, <1>3, <1>4, <1>5
  <2>2. drawn'[last] = drawn[last] + 1
    BY <1>1, <1>2, <1>5
  <2>3. drawn'[s] = drawn[last] + 1
    <3>1. CASE s = last
      BY <2>2, <3>1
    <3>2. CASE s # last
      <4>1. s < cur /\ s # cur
        BY <1>1, <1>5, <3>2
      <4> QED
        BY <1>2, <4>1
    <3> QED
      BY <3>1, <3>2
  <2>4. drawn'[s] \in Nat /\ drawn'[last] = drawn'[s] /\ ~(s < 0)
    BY <1>1, <1>2, <2>2, <2>3
  <2> QED
    BY <2>1, <2>4
<1>6. CASE cur # last
  <2>1. CurSelectedServerIndex' = cur + 1
    BY <1>1, <1>3, <1>4, <1>6
  <2>2. drawn'[last] = drawn[last]
    BY <1>1, <1>2, <1>6
  <2>3. CASE s = cur
    <3>1. ~(s < cur) /\ s < cur + 1
      BY <1>1, <2>3
    <3>2. drawn'[s] = drawn[last] + 1
      BY <1>1, <1>2, <2>3, <3>1
    <3> QED
      BY <2>1, <2>2, <3>1, <3>2
  <2>4. CASE s # cur
    <3>1. s < cur + 1 <=> s < cur
      BY <1>1, <2>4
    <3> QED
      BY <1>2, <2>1, <2>2, <2>4, <3>1
  <2> QED
    BY <2>3, <2>4
<1> QED
  BY <1>5, <1>6

\* Chunks are dealt evenly to the servers, whatever their number, and whatever
\* became of the chunks and of the servers.
THEOREM RotationCorrect == Spec => []RotationBalanced
<1>1. Init => RotationBalanced
  BY DEF Init, RotationBalanced, Servers
<1>2. TypeOK /\ RotationBalanced /\ [Next]_vars => RotationBalanced'
  <2> SUFFICES ASSUME TypeOK, RotationBalanced, [Next]_vars
               PROVE  RotationBalanced'
    OBVIOUS
  <2>1. CASE \E c \in Conns : Read(c)
    BY <2>1, RotationDraw DEF Read
  <2>2. CASE \A c \in Conns : ~Read(c)
    BY <2>2, RotationFrame DEF RotationBalanced
  <2> QED
    BY <2>1, <2>2
<1> QED
  BY <1>1, <1>2, TypeCorrect, PTL DEF Spec

\* A draw of the server s: the deal has one chunk more, and so has s.
LEMMA DealtDraw ==
  ASSUME TypeOK, RotationBalanced, Draw
  PROVE  /\ CurSelectedServerIndex \in Servers
         /\ drawn' = [drawn EXCEPT ![CurSelectedServerIndex] =
                                  drawn[CurSelectedServerIndex] + 1]
         /\ SERVERS_NUM * drawn'[SERVERS_NUM - 1] + CurSelectedServerIndex'
              = SERVERS_NUM * drawn[SERVERS_NUM - 1] + CurSelectedServerIndex + 1
<1> DEFINE cur == CurSelectedServerIndex
           last == SERVERS_NUM - 1
           had == drawn[last]
<1>1. cur \in Servers /\ last \in Servers /\ drawn \in [Servers -> Nat]
  BY DEF TypeOK, Servers
<1>2. drawn' = [drawn EXCEPT ![cur] = drawn[cur] + 1]
  BY DEF Draw
<1>3. cur' = IF cur + 1 >= SERVERS_NUM THEN 0 ELSE cur + 1
  BY DEF Draw
<1>4. drawn'[last] = IF last = cur THEN had + 1 ELSE had
  BY <1>1, <1>2
<1>5. had \in Nat /\ cur \in 0 .. last /\ SERVERS_NUM = last + 1 /\ last \in Nat
  BY <1>1 DEF Servers
<1>6. SERVERS_NUM * drawn'[last] + cur' = SERVERS_NUM * had + cur + 1
  <2> HIDE DEF cur, last, had
  <2>1. CASE last = cur
    <3>1. drawn'[last] = had + 1 /\ cur' = 0
      BY <1>3, <1>4, <1>5, <2>1
    <3>2. SERVERS_NUM * (had + 1) = SERVERS_NUM * had + SERVERS_NUM
      BY <1>5
    <3> QED
      BY <1>5, <2>1, <3>1, <3>2
  <2>2. CASE last # cur
    <3>1. drawn'[last] = had /\ cur' = cur + 1
      BY <1>3, <1>4, <1>5, <2>2
    <3>2. SERVERS_NUM * had \in Nat
      BY <1>5
    <3> QED
      BY <1>5, <3>1, <3>2
  <2> QED
    BY <2>1, <2>2
<1> QED
  BY <1>1, <1>2, <1>6

\* Reading a chunk counts one more for its client and one more for its server.
LEMMA TurnRead ==
  ASSUME TypeOK, RotationBalanced, ChunksInTurn, IsFiniteSet(Conns),
         NEW c \in Conns, Read(c)
  PROVE  ChunksInTurn'
<1> DEFINE cur == CurSelectedServerIndex
           place == SERVERS_NUM * drawn[SERVERS_NUM - 1] + cur
<1>1. Draw /\ chunks' = [chunks EXCEPT ![c] = chunks[c] + 1]
  BY DEF Read
<1>2. /\ cur \in Servers
      /\ drawn' = [drawn EXCEPT ![cur] = drawn[cur] + 1]
      /\ place' = place + 1
  BY <1>1, DealtDraw
<1>3. IsFiniteSet(Servers)
  BY FS_Interval DEF Servers
<1>4. chunks \in [Conns -> Nat] /\ drawn \in [Servers -> Nat]
  BY DEF TypeOK
<1>5. SumOver(chunks', Conns) = SumOver(chunks, Conns) + 1
  <2>1. /\ chunks'[c] = chunks[c] + 1
        /\ \A x \in Conns \ {c} : chunks'[x] = chunks[x]
    BY <1>1, <1>4
  <2> QED
    BY <1>4, <2>1, SumCountsOne
<1>6. SumOver(drawn', Servers) = SumOver(drawn, Servers) + 1
  <2>1. /\ drawn'[cur] = drawn[cur] + 1
        /\ \A x \in Servers \ {cur} : drawn'[x] = drawn[x]
    BY <1>2, <1>4
  <2> HIDE DEF cur
  <2> QED
    BY <1>2, <1>3, <1>4, <2>1, SumCountsOne
<1>7. SumOver(drawn, Servers) = SumOver(chunks, Conns)
      /\ SumOver(chunks, Conns) = place
  BY DEF ChunksInTurn
<1>8. SumOver(drawn', Servers) = SumOver(chunks', Conns)
      /\ SumOver(chunks', Conns) = place'
  BY <1>2, <1>5, <1>6, <1>7
<1> QED
  BY <1>8 DEF ChunksInTurn

\* For any number of clients and servers, the chunks of all of them together go
\* round the servers: the k-th goes to server k - 1 modulo SERVERS_NUM (the
\* rotation of round_robin_distributor.cc:217-224).
THEOREM TurnsCorrect ==
  ASSUME IsFiniteSet(Conns)
  PROVE  Spec => []ChunksInTurn
<1>1. Init => ChunksInTurn
  <2> SUFFICES ASSUME Init PROVE ChunksInTurn
    OBVIOUS
  <2>1. IsFiniteSet(Servers) /\ SERVERS_NUM - 1 \in Servers
    BY FS_Interval DEF Servers
  <2>2. /\ \A s \in Servers : drawn[s] = 0
        /\ \A c \in Conns : chunks[c] = 0
        /\ CurSelectedServerIndex = 0
    BY DEF Init
  <2>3. SumOver(drawn, Servers) = 0 /\ SumOver(chunks, Conns) = 0
    BY <2>1, <2>2, SumOfZeros
  <2>4. SERVERS_NUM * drawn[SERVERS_NUM - 1] = 0
    BY <2>1, <2>2
  <2> QED
    BY <2>2, <2>3, <2>4 DEF ChunksInTurn
<1>2. TypeOK /\ RotationBalanced /\ ChunksInTurn /\ [Next]_vars => ChunksInTurn'
  <2> SUFFICES ASSUME TypeOK, RotationBalanced, ChunksInTurn, [Next]_vars
               PROVE  ChunksInTurn'
    OBVIOUS
  <2>1. CASE \E c \in Conns : Read(c)
    BY <2>1, TurnRead
  <2>2. CASE \A c \in Conns : ~Read(c)
    BY <2>2, RotationFrame DEF ChunksInTurn
  <2> QED
    BY <2>1, <2>2
<1> QED
  BY <1>1, <1>2, TypeCorrect, RotationCorrect, PTL DEF Spec
-----------------------------------------------------------------------------
(***************************************************************************)
(* One answer for each chunk.                                              *)
(***************************************************************************)
\* c is owed the answer to the chunk in the dispatcher's hands.
InHand(c) == opc \in {"write", "answer"} /\ fd = c

\* AnsweredBeforeClose is not inductive: it must be known that events of the
\* batch, and the chunk in the dispatcher's hands, are of open connections.
AnswerInv ==
  /\ \A c \in Conns :
       answers[c] = chunks[c] - (IF InHand(c) THEN 1 ELSE 0)
  /\ \A c \in Conns : InHand(c) => cst[c] = "open"
  /\ \A c \in batch \cap Conns : cst[c] = "open"

LEMMA AnswerInit == Init => AnswerInv
  BY DEF Init, AnswerInv, InHand

\* A step that keeps the counters and the chunk in hand, and opens no event of
\* a connection that is not open, keeps the invariant.
LEMMA AnswerFrame ==
  ASSUME TypeOK, AnswerInv,
         UNCHANGED <<answers, chunks, fd>>,
         opc' \in {"write", "answer"} <=> opc \in {"write", "answer"},
         \A c \in Conns : cst[c] = "open" => cst'[c] = "open",
         \A c \in batch' \cap Conns : c \in batch \/ cst'[c] = "open"
  PROVE  AnswerInv'
<1>1. \A c \in Conns : InHand(c)' <=> InHand(c)
  BY DEF InHand
<1> QED
  BY <1>1 DEF AnswerInv

\* Reading a chunk owes one answer more.
LEMMA AnswerRead ==
  ASSUME TypeOK, AnswerInv, NEW c \in Conns, Read(c)
  PROVE  AnswerInv'
<1>1. /\ opc = "batch" /\ opc' = "write" /\ fd' = c /\ c \in batch
      /\ chunks' = [chunks EXCEPT ![c] = chunks[c] + 1]
      /\ batch' = batch \ {c}
      /\ UNCHANGED <<answers, cst>>
  BY DEF Read
<1>2. \A e \in Conns : ~InHand(e) /\ (InHand(e)' <=> e = c)
  BY <1>1 DEF InHand
<1>3. ASSUME NEW e \in Conns
      PROVE  answers'[e] = chunks'[e] - (IF InHand(e)' THEN 1 ELSE 0)
  <2>1. answers[e] = chunks[e] - 0 /\ chunks[e] \in Nat /\ answers'[e] = answers[e]
    BY <1>1, <1>2 DEF AnswerInv, TypeOK
  <2>2. CASE e = c
    <3>1. chunks'[e] = chunks[e] + 1
      BY <1>1, <2>2 DEF TypeOK
    <3> QED
      BY <1>2, <2>1, <2>2, <3>1
  <2>3. CASE e # c
    <3>1. chunks'[e] = chunks[e]
      BY <1>1, <2>3 DEF TypeOK
    <3> QED
      BY <1>2, <2>1, <2>3, <3>1
  <2> QED
    BY <2>2, <2>3
<1> QED
  BY <1>1, <1>2, <1>3 DEF AnswerInv

\* Answering settles it.
LEMMA AnswerAnswer ==
  ASSUME TypeOK, AnswerInv, Answer
  PROVE  AnswerInv'
<1>1. /\ opc = "answer" /\ opc' \in {"wait", "batch"}
      /\ answers' = [answers EXCEPT ![fd] = answers[fd] + 1]
      /\ UNCHANGED <<chunks, cst, batch>>
  BY DEF Answer, NextEvent
<1>2. \A e \in Conns : (InHand(e) <=> e = fd) /\ ~InHand(e)'
  BY <1>1 DEF InHand
<1>3. ASSUME NEW e \in Conns
      PROVE  answers'[e] = chunks'[e] - (IF InHand(e)' THEN 1 ELSE 0)
  <2>1. chunks[e] \in Nat /\ chunks'[e] = chunks[e]
    BY <1>1 DEF TypeOK
  <2>2. CASE e = fd
    <3>1. answers[e] = chunks[e] - 1
      BY <1>2, <2>2 DEF AnswerInv
    <3>2. answers'[e] = answers[e] + 1
      BY <1>1, <2>2 DEF TypeOK
    <3> QED
      BY <1>2, <2>1, <3>1, <3>2
  <2>3. CASE e # fd
    <3>1. answers[e] = chunks[e] - 0
      BY <1>2, <2>3 DEF AnswerInv
    <3>2. answers'[e] = answers[e]
      BY <1>1, <2>3 DEF TypeOK
    <3> QED
      BY <1>2, <2>1, <3>1, <3>2
  <2> QED
    BY <2>2, <2>3
<1> QED
  BY <1>1, <1>2, <1>3 DEF AnswerInv

\* No other connection is in the batch twice, so closing one leaves the events
\* of the batch with open connections.
LEMMA AnswerClose ==
  ASSUME TypeOK, AnswerInv, NEW c \in Conns, Close(c)
  PROVE  AnswerInv'
<1>1. /\ opc = "batch" /\ opc' \in {"wait", "batch"}
      /\ cst' = [cst EXCEPT ![c] = "closed"] /\ batch' = batch \ {c}
      /\ UNCHANGED <<answers, chunks, fd>>
  BY DEF Close, NextEvent, chunkVars, ghostVars
<1>2. \A e \in Conns : ~InHand(e) /\ ~InHand(e)'
  BY <1>1 DEF InHand
<1>3. \A e \in Conns : e # c => cst'[e] = cst[e]
  BY <1>1 DEF TypeOK
<1> QED
  BY <1>1, <1>2, <1>3 DEF AnswerInv

LEMMA AnswerNext ==
  ASSUME TypeOK, AnswerInv, [Next]_vars
  PROVE  AnswerInv'
<1> USE DEF distributorVars, chunkVars, connVars, serverVars, ghostVars
<1>1. CASE EpollWait
  <2>1. \A c \in batch' \cap Conns : cst'[c] = "open"
    BY <1>1 DEF EpollWait, Ready, Queued
  <2> QED
    BY <1>1, <2>1, AnswerFrame DEF EpollWait
<1>2. CASE HandleListen
  BY <1>2, AnswerFrame DEF HandleListen
<1>3. ASSUME NEW c \in Conns, Accept(c) PROVE AnswerInv'
  <2>1. \A e \in Conns : cst[e] = "open" => cst'[e] = "open"
    BY <1>3 DEF Accept, TypeOK
  <2> QED
    BY <1>3, <2>1, AnswerFrame DEF Accept
<1>4. CASE AcceptDone
  BY <1>4, AnswerFrame DEF AcceptDone, NextEvent
<1>5. CASE AcceptFails \/ MainReturns
  BY <1>5, AnswerFrame DEF AcceptFails, MainReturns, Exit
<1>6. CASE WriteSome \/ WriteToDead
  BY <1>6, AnswerFrame DEF WriteSome, WriteToDead
<1>7. ASSUME NEW s \in Servers, Worker(s) \/ Crash(s) PROVE AnswerInv'
  BY <1>7, AnswerFrame
     DEF Worker, WorkerRead, WorkerEcho, ServerEof, Crash, End
<1>8. ASSUME NEW c \in Conns, Client(c) PROVE AnswerInv'
  <2>1. CASE Connect(c)
    <3>1. \A e \in Conns : cst[e] = "open" => cst'[e] = "open"
      BY <2>1 DEF Connect, TypeOK
    <3> QED
      BY <2>1, <3>1, AnswerFrame DEF Connect
  <2>2. ASSUME NEW n \in 1 .. MaxSend, Send(c, n) PROVE AnswerInv'
    BY <2>2, AnswerFrame DEF Send
  <2>3. CASE Shutdown(c) \/ Reset(c) \/ ReadAnswer(c)
    BY <2>3, AnswerFrame DEF Shutdown, Reset, ReadAnswer
  <2> QED
    BY <1>8, <2>1, <2>2, <2>3 DEF Client
<1>9. CASE UNCHANGED vars
  BY <1>9, AnswerFrame DEF vars
<1> QED
  BY <1>1, <1>2, <1>3, <1>4, <1>5, <1>6, <1>7, <1>8, <1>9,
     AnswerRead, AnswerAnswer, AnswerClose DEF Next, Dispatcher

\* Each chunk read from a client is answered once, before the next chunk of
\* any client and before the connection is closed.
THEOREM AnswersCorrect == Spec => []AnsweredBeforeClose
<1>1. TypeOK /\ AnswerInv => AnsweredBeforeClose
  <2> SUFFICES ASSUME TypeOK, AnswerInv, NEW c \in Conns
               PROVE  /\ answers[c] = chunks[c] - (IF InHand(c) THEN 1 ELSE 0)
                      /\ cst[c] = "closed" => chunks[c] = answers[c]
    BY DEF AnsweredBeforeClose, InHand
  <2>1. chunks[c] \in Nat
    BY DEF TypeOK
  <2> QED
    BY <2>1 DEF AnswerInv
<1>2. TypeOK /\ AnswerInv /\ [Next]_vars => AnswerInv'
  BY AnswerNext
<1> QED
  BY <1>1, <1>2, AnswerInit, TypeCorrect, PTL DEF Spec
-----------------------------------------------------------------------------
(***************************************************************************)
(* The wedge.                                                              *)
(***************************************************************************)
\* The servers' and the dispatcher's steps that a wedge leaves are those that do
\* not touch what it is made of, or end a process.
LEMMA WedgeServer ==
  ASSUME TypeOK, Wedged, NEW s \in Servers, Worker(s) \/ Crash(s),
         up', innerUp'[target]
  PROVE  UNCHANGED <<up, opc, target, innerUp[target], workb[target],
                     echoing[target], replyb[target]>>
<1> USE DEF Wedged, distributorVars, chunkVars
<1>1. /\ target \in Servers
      /\ innerUp \in [Servers -> BOOLEAN] /\ echoing \in [Servers -> BOOLEAN]
      /\ workb \in [Servers -> Nat] /\ replyb \in [Servers -> Nat]
  BY DEF TypeOK
<1>2. CASE WorkerRead(s)
  BY <1>1, <1>2 DEF WorkerRead
<1>3. CASE WorkerEcho(s)
  BY <1>1, <1>3 DEF WorkerEcho
<1>4. CASE ServerEof(s) \/ Crash(s)
  BY <1>1, <1>4 DEF ServerEof, Crash, End
<1> QED
  BY <1>2, <1>3, <1>4 DEF Worker

\* Once the dispatcher and a worker write to each other over full connections,
\* only the end of one of the two processes changes that
\* (round_robin_distributor.cc:226, inner_server.cc:165).
THEOREM WedgeFinal == Spec => WedgeIsFinal
<1>1. TypeOK /\ [Next]_vars
        => (Wedged => Wedged' \/ ~up' \/ ~innerUp'[target])
  <2> SUFFICES ASSUME TypeOK, [Next]_vars, Wedged, up', innerUp'[target]
               PROVE  Wedged'
    OBVIOUS
  <2> DEFINE Still ==
        UNCHANGED <<up, opc, target, innerUp[target], workb[target],
                    echoing[target], replyb[target]>>
  <2>1. ASSUME Still PROVE Wedged'
    BY <2>1 DEF Wedged
  <2>2. CASE Dispatcher \/ MainReturns
    BY <2>2 DEF Wedged, Dispatcher, EpollWait, HandleListen, Accept, Read,
                Close, AcceptDone, AcceptFails, WriteSome, WriteToDead, Answer,
                MainReturns, Exit
  <2>3. ASSUME NEW s \in Servers, Worker(s) \/ Crash(s) PROVE Wedged'
    BY <2>1, <2>3, WedgeServer
  <2>4. ASSUME NEW c \in Conns, Client(c) PROVE Wedged'
    <3>1. UNCHANGED <<distributorVars, serverVars>>
      BY <2>4 DEF Client, Connect, Send, Shutdown, Reset, ReadAnswer
    <3> QED
      BY <2>1, <3>1 DEF distributorVars, chunkVars, serverVars
  <2>5. CASE UNCHANGED vars
    BY <2>1, <2>5 DEF vars, chunkVars, serverVars
  <2> QED
    BY <2>2, <2>3, <2>4, <2>5 DEF Next
<1> QED
  BY <1>1, TypeCorrect, PTL DEF Spec, WedgeIsFinal
=============================================================================
