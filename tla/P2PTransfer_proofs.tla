-------------------------- MODULE P2PTransfer_proofs ------------------------
(***************************************************************************)
(* Theorems about P2PTransfer, for any sets of viewers and sources, any    *)
(* file and any timeouts.                                                  *)
(***************************************************************************)
EXTENDS P2PTransfer, TLAPS, FiniteSetTheorems, WellFoundedInduction

Table == [Block -> Status]

-----------------------------------------------------------------------------
(* The operators of CP2PPacketMgr keep a table a table. *)

LEMMA TableOps ==
    ASSUME NEW t \in Table
    PROVE  /\ \A f, l : RemoveBlock(t, f, l) \in Table
           /\ \A f, k : InsertShouldBlock(t, f, k) \in Table
           /\ \A a : UpdateTimeOutStatus(t, a) \in Table
           /\ \A S : UpdatePacketStatus(t, S) \in Table
  BY DEF Table, Status, RemoveBlock, InsertShouldBlock, UpdateTimeOutStatus,
         UpdatePacketStatus

\* What a reply to GETBLOCK_AREA reports has arrived.
LEMMA AreasHaveArrived ==
    ASSUME NEW t
    PROVE  Covered(FitInReply(GetExistBlockAreas(t))) \subseteq BlocksIn(t, "ARRIVED")
  BY DEF Covered, FitInReply, GetExistBlockAreas

\* Updating one entry of a table of tables.
LEMMA NestedUpdate ==
    ASSUME NEW A, NEW B, NEW S, NEW f \in [A -> [B -> S]],
           NEW a \in A, NEW b \in B, NEW v \in S
    PROVE  [f EXCEPT ![a][b] = v] \in [A -> [B -> S]]
  OBVIOUS

LEMMA NestedValue ==
    ASSUME NEW A, NEW B, NEW S, NEW f \in [A -> [B -> S]],
           NEW a \in A, NEW b \in B, NEW v, NEW c \in A, NEW d \in B
    PROVE  [f EXCEPT ![a][b] = v][c][d] = IF c = a /\ d = b THEN v ELSE f[c][d]
  OBVIOUS

-----------------------------------------------------------------------------
(* Datagrams *)

LEMMA MessageTypes ==
    ASSUME NEW n \in Node, NEW p \in Node
    PROVE  /\ GetBlockArea(n, p) \in Message
           /\ \A bs \in SUBSET Advertised : GetBlockAreaRet(n, p, bs) \in Message
           /\ \A bs \in SUBSET Block : GetSegment(n, p, bs) \in Message
           /\ \A b \in Block, d \in Content : GetSegmentRet(n, p, b, d) \in Message
  BY DEF Message, GetBlockAreaMsg, GetBlockAreaRetMsg, GetSegmentMsg,
         GetSegmentRetMsg, GetBlockArea, GetBlockAreaRet, GetSegment, GetSegmentRet

LEMMA MessageFields ==
    ASSUME NEW m \in Message
    PROVE  /\ m.from \in Node /\ m.to \in Node
           /\ m.type = "GETBLOCK_AREA_RET" => m.areas \in SUBSET Advertised
           /\ m.type = "GETSEGMENT" => m.want \in SUBSET Block
           /\ m.type = "GETSEGMENT_RET" =>
                 /\ m.block \in Block /\ m.data \in Content /\ m.sum \in Content
                 /\ [m EXCEPT !.data = Garbage] \in Message
  BY DEF Message, GetBlockAreaMsg, GetBlockAreaRetMsg, GetSegmentMsg,
         GetSegmentRetMsg, Content

LEMMA SendType ==
    ASSUME NEW S, NEW base \in SUBSET S, NEW msgs \in SUBSET S, Send(base, msgs)
    PROVE  net' \in SUBSET S
  BY DEF Send

LEMMA TakenType ==
    ASSUME NEW m, NEW base \in Taken(m)
    PROVE  base \subseteq net
  BY DEF Taken

LEMMA BlockAdvertised == Block \subseteq Advertised
  BY PacketAssumption DEF Block, Advertised

-----------------------------------------------------------------------------
(* Type correctness *)

LEMMA AnswersType ==
    ASSUME TypeOK, NEW n \in Node
    PROVE  Answers(n) \subseteq Message
  <1> SUFFICES ASSUME NEW x \in peers[n] \X Block, Holds(n, x[2])
               PROVE  GetSegmentRet(n, x[1], x[2], Stored(n, x[2])) \in Message
    BY DEF Answers
  <1>1. x[1] \in Node /\ x[2] \in Block
    BY DEF TypeOK
  <1>2. Stored(n, x[2]) \in Content
    BY <1>1 DEF Stored, TypeOK, Content, Node
  <1> QED
    BY <1>1, <1>2, MessageTypes

THEOREM TypeCorrect == Spec => []TypeOK
  <1>1. Init => TypeOK
    BY PacketAssumption, TransferAssumption
    DEF Init, TypeOK, Status, Age, Content
  <1>2. TypeOK /\ [Next]_vars => TypeOK'
    <2> SUFFICES ASSUME TypeOK, [Next]_vars
                 PROVE  TypeOK'
      OBVIOUS
    <2>1. ASSUME NEW n \in Viewer, NEW r \in Reads, RequestSegment(n, r[1], r[2])
          PROVE  TypeOK'
      <3> DEFINE moved == IF r[1] > Window
                          THEN RemoveBlock(tab[n], r[1] - Window, r[1] + r[2])
                          ELSE tab[n]
                 wanted == InsertShouldBlock(moved, r[1], r[2])
      <3>1. wanted \in [Block -> Status]
        <4>1. moved \in Table
          BY TableOps DEF TypeOK, Table
        <4> QED
          BY <4>1, TableOps DEF Table
      <3>2. /\ tab' = [tab EXCEPT ![n] = wanted]
            /\ age' = [age EXCEPT ![n] =
                         [x \in Block |-> IF wanted[x] = "REQUESTED"
                                          THEN age[n][x] ELSE 0]]
            /\ buf' = [buf EXCEPT ![n] =
                         [x \in Block |-> IF wanted[x] = "ARRIVED"
                                          THEN buf[n][x] ELSE Garbage]]
        BY <2>1 DEF RequestSegment
      <3> HIDE DEF wanted
      <3>3. tab' \in [Viewer -> [Block -> Status]]
        BY <3>1, <3>2 DEF TypeOK
      <3>4. age' \in [Viewer -> [Block -> Age]]
        BY <3>2, PacketAssumption DEF TypeOK, Age
      <3>5. buf' \in [Viewer -> [Block -> Content]]
        BY <3>2 DEF TypeOK, Content
      <3> QED
        BY <2>1, <3>3, <3>4, <3>5 DEF RequestSegment, TypeOK, known, timers
    <2>2. ASSUME NEW n \in Node, NEW p \in Node, AddPeer(n, p) \/ DeletePeer(n, p)
          PROVE  TypeOK'
      <3>1. /\ areas' = [areas EXCEPT ![n][p] = {}]
            /\ need' = [need EXCEPT ![n][p] = {}]
        BY <2>2 DEF AddPeer, DeletePeer
      <3>2. areas' \in [Node -> [Node -> SUBSET Advertised]]
        BY <3>1, {} \in SUBSET Advertised, NestedUpdate DEF TypeOK
      <3>3. need' \in [Node -> [Node -> SUBSET Block]]
        BY <3>1, {} \in SUBSET Block, NestedUpdate DEF TypeOK
      <3>4. peers' \in [Node -> SUBSET Node]
        <4>1. peers[n] \cup {p} \in SUBSET Node /\ peers[n] \ {p} \in SUBSET Node
          BY DEF TypeOK
        <4>2. \/ peers' = [peers EXCEPT ![n] = peers[n] \cup {p}]
              \/ peers' = [peers EXCEPT ![n] = peers[n] \ {p}]
          BY <2>2 DEF AddPeer, DeletePeer
        <4> QED
          BY <4>1, <4>2 DEF TypeOK
      <3> QED
        BY <2>2, <3>2, <3>3, <3>4 DEF AddPeer, DeletePeer, TypeOK, table, timers
    <2>3. ASSUME NEW n \in Viewer, Leave(n)
          PROVE  TypeOK'
      BY <2>3 DEF Leave, TypeOK, table, timers, known
    <2>4. ASSUME NEW n \in Source, SourceLoop(n)
          PROVE  TypeOK'
      <3>1. net' \in SUBSET Message
        BY <2>4, AnswersType, SendType DEF SourceLoop, TypeOK, Node
      <3>2. need' \in [Node -> [Node -> SUBSET Block]]
        BY <2>4 DEF SourceLoop, TypeOK, Node
      <3> QED
        BY <2>4, <3>1, <3>2 DEF SourceLoop, TypeOK, table, timers
    <2>5. ASSUME NEW n \in Viewer, ViewerLoop(n)
          PROVE  TypeOK'
      <3> DEFINE run == GetShouldBlock(tab[n])
      <3>1. PICK cursor \in Walk(n, run) :
                LET asked == [p \in Candidate(n) |-> Take(n, p, cursor[p], run)]
                    all == UNION {asked[p] : p \in Candidate(n)}
                IN  /\ tab' = [tab EXCEPT ![n] = TableAfter(n, all)]
                    /\ age' = [age EXCEPT ![n] =
                         [b \in Block |-> IF TableAfter(n, all)[b] = "REQUESTED"
                                          THEN AgeAfter(n, all)[b] ELSE 0]]
                    /\ Send(net, Queries(n) \cup Requests(n, asked) \cup Answers(n))
        BY <2>5 DEF ViewerLoop
      <3> DEFINE asked == [p \in Candidate(n) |-> Take(n, p, cursor[p], run)]
                 all == UNION {asked[p] : p \in Candidate(n)}
      <3>2. n \in Node /\ Candidate(n) \subseteq Node /\ tab[n] \in Table
        BY DEF Candidate, TypeOK, Node, Table
      <3>3. \A p \in Candidate(n) : asked[p] \in SUBSET Block
        BY DEF Take, GetShouldBlock, BlocksIn
      <3>4. TableAfter(n, all) \in [Block -> Status]
        <4> HIDE DEF all
        <4> QED
          BY <3>2, TableOps DEF TableAfter, Table
      <3>5. tab' \in [Viewer -> [Block -> Status]]
        BY <3>1, <3>4 DEF TypeOK
      <3>6. age' \in [Viewer -> [Block -> Age]]
        <4> HIDE DEF all
        <4>1. \A b \in Block : age[n][b] \in Age
          BY DEF TypeOK
        <4>2. AgeAfter(n, all) \in [Block -> Age]
          BY <4>1, PacketAssumption DEF AgeAfter, Age
        <4>3. [b \in Block |-> IF TableAfter(n, all)[b] = "REQUESTED"
                               THEN AgeAfter(n, all)[b] ELSE 0] \in [Block -> Age]
          BY <4>2, PacketAssumption DEF Age
        <4> QED
          BY <3>1, <4>3 DEF TypeOK, all
      <3>7. net' \in SUBSET Message
        <4>1. Queries(n) \in SUBSET Message
          BY <3>2, MessageTypes DEF Queries, TypeOK
        <4>2. Requests(n, asked) \in SUBSET Message
          <5>1. DOMAIN asked \subseteq Node
            BY <3>2
          <5> HIDE DEF asked
          <5> SUFFICES ASSUME NEW p \in DOMAIN asked
                       PROVE  GetSegment(n, p, asked[p]) \in Message
            BY DEF Requests
          <5> QED
            BY <3>2, <3>3, <5>1, MessageTypes DEF asked
        <4>3. Answers(n) \in SUBSET Message
          BY <3>2, AnswersType
        <4>4. Send(net, Queries(n) \cup Requests(n, asked) \cup Answers(n))
          BY <3>1
        <4> HIDE DEF asked
        <4>5. Queries(n) \cup Requests(n, asked) \cup Answers(n) \in SUBSET Message
          BY <4>1, <4>2, <4>3
        <4>6. net \in SUBSET Message
          BY DEF TypeOK
        <4> QED
          BY <4>4, <4>5, <4>6, SendType
      <3>8. need' \in [Node -> [Node -> SUBSET Block]]
        BY <2>5 DEF ViewerLoop, TypeOK, Node
      <3>9. /\ qage' \in [Viewer -> 0 .. (QueryInterval + 1)]
            /\ sage' \in [Viewer -> 0 .. (SweepInterval + 1)]
        BY <2>5, TransferAssumption DEF ViewerLoop, TypeOK
      <3> QED
        BY <2>5, <3>5, <3>6, <3>7, <3>8, <3>9 DEF ViewerLoop, TypeOK
    <2>6. ASSUME Tick
          PROVE  TypeOK'
      BY <2>6, TransferAssumption, PacketAssumption
      DEF Tick, TypeOK, Older, Age, known
    <2>7. ASSUME NEW m \in net, Lose(m) \/ Damage(m)
          PROVE  TypeOK'
      <3>1. net' \in SUBSET Message
        BY <2>7, MessageFields DEF Lose, Damage, TypeOK
      <3> QED
        BY <2>7, <3>1 DEF Lose, Damage, TypeOK, table, timers, known
    <2>8. ASSUME NEW m \in net, TransUdpCommand(m)
          PROVE  TypeOK'
      <3>1. CASE OnGetBlockArea(m)
        <4>1. m \in Message /\ m.from \in Node /\ m.to \in Node
          BY MessageFields DEF TypeOK
        <4> DEFINE bs == IF m.to \in Source THEN Advertised
                         ELSE Covered(FitInReply(GetExistBlockAreas(tab[m.to])))
        <4>2. bs \in SUBSET Advertised
          BY AreasHaveArrived, BlockAdvertised DEF BlocksIn
        <4>3. {GetBlockAreaRet(m.to, m.from, bs)} \in SUBSET Message
          BY <4>1, <4>2, MessageTypes
        <4>4. PICK base \in Taken(m) : Send(base, {GetBlockAreaRet(m.to, m.from, bs)})
          BY <3>1 DEF OnGetBlockArea
        <4>5. base \in SUBSET Message
          BY <4>4, TakenType DEF TypeOK
        <4>6. net' \in SUBSET Message
          BY <4>3, <4>4, <4>5, SendType
        <4> QED
          BY <3>1, <4>6 DEF OnGetBlockArea, TypeOK, table, timers, known
      <3>2. CASE OnGetBlockAreaRet(m)
        <4>1. net' \in SUBSET Message
          BY <3>2, TakenType DEF OnGetBlockAreaRet, TypeOK
        <4>2. areas' \in [Node -> [Node -> SUBSET Advertised]]
          BY <3>2, NestedUpdate, MessageFields DEF OnGetBlockAreaRet, TypeOK
        <4> QED
          BY <3>2, <4>1, <4>2 DEF OnGetBlockAreaRet, TypeOK, table, timers
      <3>3. CASE OnGetSegment(m)
        <4>1. net' \in SUBSET Message
          BY <3>3, TakenType DEF OnGetSegment, TypeOK
        <4>2. /\ m.from \in Node /\ m.to \in Node
              /\ m.want \in SUBSET Block
          BY <3>3, MessageFields DEF OnGetSegment, TypeOK
        <4> DEFINE list == IF m.to \in Source THEN m.want
                           ELSE GetExistBlockList(tab[m.to], m.want)
        <4>3. list \in SUBSET Block
          BY <4>2 DEF GetExistBlockList
        <4>4. need[m.to][m.from] \cup list \in SUBSET Block
          BY <4>2, <4>3 DEF TypeOK
        <4>5. \/ need' = need
              \/ need' = [need EXCEPT ![m.to][m.from] = need[m.to][m.from] \cup list]
          BY <3>3 DEF OnGetSegment
        <4> HIDE DEF list
        <4>6. need' \in [Node -> [Node -> SUBSET Block]]
          <5>1. need \in [Node -> [Node -> SUBSET Block]]
            BY DEF TypeOK
          <5>2. [need EXCEPT ![m.to][m.from] = need[m.to][m.from] \cup list]
                    \in [Node -> [Node -> SUBSET Block]]
            BY <5>1, <4>2, <4>4, NestedUpdate
          <5> QED
            BY <5>1, <5>2, <4>5
        <4> QED
          BY <3>3, <4>1, <4>6 DEF OnGetSegment, TypeOK, table, timers
      <3>4. CASE OnGetSegmentRet(m)
        <4>1. net' \in SUBSET Message
          BY <3>4, TakenType DEF OnGetSegmentRet, TypeOK
        <4>2. CASE UNCHANGED table
          BY <3>4, <4>1, <4>2 DEF OnGetSegmentRet, TypeOK, table, known, timers
        <4>3. CASE ~ UNCHANGED table
          <5>1. /\ m.to \in Viewer /\ m.block \in Block /\ m.data \in Content
                /\ tab' = [tab EXCEPT ![m.to][m.block] = "ARRIVED"]
                /\ age' = [age EXCEPT ![m.to][m.block] = 0]
                /\ buf' = [buf EXCEPT ![m.to][m.block] = m.data]
            BY <3>4, <4>3, MessageFields DEF OnGetSegmentRet, TypeOK
          <5>2. tab' \in [Viewer -> [Block -> Status]]
            BY <5>1, NestedUpdate DEF TypeOK, Status
          <5>3. age' \in [Viewer -> [Block -> Age]]
            BY <5>1, NestedUpdate, PacketAssumption DEF TypeOK, Age
          <5>4. buf' \in [Viewer -> [Block -> Content]]
            BY <5>1, NestedUpdate DEF TypeOK
          <5> QED
            BY <3>4, <4>1, <5>2, <5>3, <5>4 DEF OnGetSegmentRet, TypeOK, known, timers
        <4> QED
          BY <4>2, <4>3
      <3> QED
        BY <2>8, <3>1, <3>2, <3>3, <3>4 DEF TransUdpCommand
    <2>9. CASE UNCHANGED vars
      BY <2>9 DEF vars, TypeOK
    <2> QED
      BY <2>1, <2>2, <2>3, <2>4, <2>5, <2>6, <2>7, <2>8, <2>9 DEF Next
  <1> QED
    BY <1>1, <1>2, PTL DEF Spec

-----------------------------------------------------------------------------
(* What a step does to the tables: the reader's request, the arrival of an *)
(* answer, or no more than moves between NONE and REQUESTED.               *)

Open == {"NONE", "REQUESTED"}

Quiet ==
    /\ buf' = buf
    /\ \A n \in Viewer : \A b \in Block :
          tab'[n][b] = tab[n][b] \/ (tab[n][b] \in Open /\ tab'[n][b] \in Open)

LEMMA LoopIsQuiet ==
    ASSUME TypeOK, NEW n \in Viewer, ViewerLoop(n)
    PROVE  Quiet
  <1> DEFINE run == GetShouldBlock(tab[n])
  <1>1. PICK cursor \in Walk(n, run) :
            LET asked == [p \in Candidate(n) |-> Take(n, p, cursor[p], run)]
                all == UNION {asked[p] : p \in Candidate(n)}
            IN  tab' = [tab EXCEPT ![n] = TableAfter(n, all)]
    BY DEF ViewerLoop
  <1> DEFINE asked == [p \in Candidate(n) |-> Take(n, p, cursor[p], run)]
             all == UNION {asked[p] : p \in Candidate(n)}
  <1>2. all \subseteq BlocksIn(tab[n], "NONE")
    BY DEF Take, GetShouldBlock
  <1>3. tab' = [tab EXCEPT ![n] = TableAfter(n, all)]
    BY <1>1
  <1> HIDE DEF all
  <1>4. \A b \in Block : \/ TableAfter(n, all)[b] = tab[n][b]
                         \/ tab[n][b] \in Open /\ TableAfter(n, all)[b] \in Open
    BY <1>2 DEF TableAfter, UpdatePacketStatus, UpdateTimeOutStatus, BlocksIn, Open
  <1> QED
    BY <1>3, <1>4 DEF Quiet, TypeOK, ViewerLoop

LEMMA TableStep ==
    ASSUME TypeOK, [Next]_vars
    PROVE  \/ \E n \in Viewer : \E r \in Reads : RequestSegment(n, r[1], r[2])
           \/ \E m \in net : OnGetSegmentRet(m)
           \/ Quiet
  <1>1. ASSUME NEW n \in Node, NEW p \in Node, AddPeer(n, p) \/ DeletePeer(n, p)
        PROVE  Quiet
    BY <1>1 DEF AddPeer, DeletePeer, Quiet, table
  <1>2. ASSUME NEW n \in Viewer, Leave(n)
        PROVE  Quiet
    BY <1>2 DEF Leave, Quiet, table
  <1>3. ASSUME NEW n \in Source, SourceLoop(n)
        PROVE  Quiet
    BY <1>3 DEF SourceLoop, Quiet, table
  <1>4. ASSUME NEW m \in net, TransUdpCommand(m) \/ Lose(m) \/ Damage(m)
        PROVE  OnGetSegmentRet(m) \/ Quiet
    BY <1>4 DEF TransUdpCommand, OnGetBlockArea, OnGetBlockAreaRet, OnGetSegment,
                Lose, Damage, Quiet, table
  <1>5. CASE Tick \/ UNCHANGED vars
    BY <1>5 DEF Tick, Quiet, vars
  <1> QED
    BY <1>1, <1>2, <1>3, <1>4, <1>5, LoopIsQuiet DEF Next

\* What the reader's request does to a table.
LEMMA ReadStep ==
    ASSUME TypeOK, NEW n \in Viewer, NEW r \in Reads,
           RequestSegment(n, r[1], r[2])
    PROVE  /\ r[1] \in 0 .. NumBlocks /\ r[2] \in 0 .. NumBlocks
           /\ \A k \in Viewer : k # n => tab'[k] = tab[k] /\ buf'[k] = buf[k]
           /\ \A b \in Block :
                LET kept == r[1] <= Window
                            \/ (r[1] - Window <= b /\ b <= r[1] + r[2])
                    old == IF kept THEN tab[n][b] ELSE "ABSENT"
                IN  /\ tab'[n][b] = IF b \in r[1] .. (r[1] + r[2] - 1) /\ old = "ABSENT"
                                    THEN "NONE" ELSE old
                    /\ buf'[n][b] = IF tab'[n][b] = "ARRIVED" THEN buf[n][b] ELSE Garbage
  <1>1. r[1] \in 0 .. NumBlocks /\ r[2] \in 0 .. NumBlocks
    BY TransferAssumption
  <1> DEFINE moved == IF r[1] > Window
                      THEN RemoveBlock(tab[n], r[1] - Window, r[1] + r[2])
                      ELSE tab[n]
             wanted == InsertShouldBlock(moved, r[1], r[2])
  <1>2. /\ tab' = [tab EXCEPT ![n] = wanted]
        /\ buf' = [buf EXCEPT ![n] = [x \in Block |-> IF wanted[x] = "ARRIVED"
                                                      THEN buf[n][x] ELSE Garbage]]
    BY DEF RequestSegment
  <1>3. \A b \in Block :
            LET kept == r[1] <= Window
                        \/ (r[1] - Window <= b /\ b <= r[1] + r[2])
                old == IF kept THEN tab[n][b] ELSE "ABSENT"
            IN  wanted[b] = IF b \in r[1] .. (r[1] + r[2] - 1) /\ old = "ABSENT"
                            THEN "NONE" ELSE old
    BY <1>1, TransferAssumption, PacketAssumption
    DEF InsertShouldBlock, RemoveBlock, Block
  <1> HIDE DEF wanted
  <1>4. /\ tab'[n] = wanted
        /\ \A b \in Block : buf'[n][b] = IF wanted[b] = "ARRIVED" THEN buf[n][b] ELSE Garbage
        /\ \A k \in Viewer : k # n => tab'[k] = tab[k] /\ buf'[k] = buf[k]
    BY <1>2 DEF TypeOK
  <1> QED
    BY <1>1, <1>3, <1>4

\* What an answer does to a table.
LEMMA ArrivalStep ==
    ASSUME TypeOK, NEW m \in net, OnGetSegmentRet(m)
    PROVE  \/ UNCHANGED <<tab, buf>>
           \/ /\ m.to \in Viewer /\ m.block \in Block
              /\ m.sum = m.data
              /\ tab[m.to][m.block] = "REQUESTED"
              /\ tab' = [tab EXCEPT ![m.to][m.block] = "ARRIVED"]
              /\ buf' = [buf EXCEPT ![m.to][m.block] = m.data]
  BY DEF OnGetSegmentRet, PacketArrived, table

-----------------------------------------------------------------------------
(* Integrity *)

\* An answer on the network carries the checksum of the block it is about,
\* also when its contents were damaged on the way.
Genuine == {m \in Message : m.type = "GETSEGMENT_RET" => m.sum = m.block}

AnswersMatch == net \subseteq Genuine

LEMMA AnswersGenuine ==
    ASSUME TypeOK, Integrity, NEW n \in Node
    PROVE  Answers(n) \subseteq Genuine
  <1> SUFFICES ASSUME NEW x \in peers[n] \X Block, Holds(n, x[2])
               PROVE  GetSegmentRet(n, x[1], x[2], Stored(n, x[2])) \in Genuine
    BY DEF Answers
  <1>1. x[1] \in Node /\ x[2] \in Block
    BY DEF TypeOK
  <1>2. Stored(n, x[2]) = x[2]
    BY <1>1 DEF Stored, Holds, Integrity, Node
  <1>3. GetSegmentRet(n, x[1], x[2], x[2]) \in Message
    BY <1>1, MessageTypes DEF Content
  <1> QED
    BY <1>2, <1>3 DEF Genuine, GetSegmentRet

LEMMA OthersGenuine ==
    ASSUME NEW n \in Node, NEW p \in Node
    PROVE  /\ GetBlockArea(n, p) \in Genuine
           /\ \A bs \in SUBSET Advertised : GetBlockAreaRet(n, p, bs) \in Genuine
           /\ \A bs \in SUBSET Block : GetSegment(n, p, bs) \in Genuine
  BY MessageTypes DEF Genuine, GetBlockArea, GetBlockAreaRet, GetSegment

\* The network only ever holds genuine answers.
LEMMA NetStep ==
    ASSUME TypeOK, Integrity, AnswersMatch, [Next]_vars
    PROVE  AnswersMatch'
  <1>0. net \in SUBSET Genuine
    BY DEF AnswersMatch
  <1>1. ASSUME NEW n \in Viewer, NEW r \in Reads, RequestSegment(n, r[1], r[2])
        PROVE  net' \in SUBSET Genuine
    BY <1>0, <1>1 DEF RequestSegment
  <1>2. ASSUME NEW n \in Node, NEW p \in Node, AddPeer(n, p) \/ DeletePeer(n, p)
        PROVE  net' \in SUBSET Genuine
    BY <1>0, <1>2 DEF AddPeer, DeletePeer
  <1>3. ASSUME NEW n \in Viewer, Leave(n)
        PROVE  net' \in SUBSET Genuine
    BY <1>0, <1>3 DEF Leave
  <1>4. ASSUME NEW n \in Source, SourceLoop(n)
        PROVE  net' \in SUBSET Genuine
    BY <1>0, <1>4, AnswersGenuine, SendType DEF SourceLoop, Node
  <1>5. ASSUME NEW n \in Viewer, ViewerLoop(n)
        PROVE  net' \in SUBSET Genuine
    <2> DEFINE run == GetShouldBlock(tab[n])
    <2>1. PICK cursor \in Walk(n, run) :
              LET asked == [p \in Candidate(n) |-> Take(n, p, cursor[p], run)]
              IN  Send(net, Queries(n) \cup Requests(n, asked) \cup Answers(n))
      BY <1>5 DEF ViewerLoop
    <2> DEFINE asked == [p \in Candidate(n) |-> Take(n, p, cursor[p], run)]
    <2>2. n \in Node /\ Candidate(n) \subseteq Node /\ peers[n] \subseteq Node
      BY DEF Candidate, TypeOK, Node
    <2>3. \A p \in Candidate(n) : asked[p] \in SUBSET Block
      BY DEF Take, GetShouldBlock, BlocksIn
    <2>4. DOMAIN asked = Candidate(n)
      OBVIOUS
    <2>5. Send(net, Queries(n) \cup Requests(n, asked) \cup Answers(n))
      BY <2>1
    <2> HIDE DEF asked
    <2>6. Queries(n) \in SUBSET Genuine
      BY <2>2, OthersGenuine DEF Queries
    <2>7. Requests(n, asked) \in SUBSET Genuine
      <3> SUFFICES ASSUME NEW p \in Candidate(n)
                   PROVE  GetSegment(n, p, asked[p]) \in Genuine
        BY <2>4 DEF Requests
      <3> QED
        BY <2>2, <2>3, OthersGenuine
    <2>8. Queries(n) \cup Requests(n, asked) \cup Answers(n) \in SUBSET Genuine
      BY <2>2, <2>6, <2>7, AnswersGenuine
    <2> QED
      BY <1>0, <2>5, <2>8, SendType
  <1>6. ASSUME NEW m \in net, Lose(m) \/ Damage(m)
        PROVE  net' \in SUBSET Genuine
    <2>1. m \in Genuine /\ m \in Message
      BY <1>0 DEF TypeOK
    <2>2. m.type = "GETSEGMENT_RET" =>
              /\ [m EXCEPT !.data = Garbage] \in Message
              /\ [m EXCEPT !.data = Garbage].type = m.type
              /\ [m EXCEPT !.data = Garbage].sum = m.sum
              /\ [m EXCEPT !.data = Garbage].block = m.block
      BY <2>1, MessageFields
      DEF Message, GetBlockAreaMsg, GetBlockAreaRetMsg, GetSegmentMsg, GetSegmentRetMsg
    <2>3. m.type = "GETSEGMENT_RET" => [m EXCEPT !.data = Garbage] \in Genuine
      BY <2>1, <2>2 DEF Genuine
    <2> QED
      BY <1>0, <1>6, <2>3 DEF Lose, Damage
  <1>7. ASSUME NEW m \in net, TransUdpCommand(m)
        PROVE  net' \in SUBSET Genuine
    <2>1. CASE OnGetBlockArea(m)
      <3>1. m \in Message /\ m.from \in Node /\ m.to \in Node
        BY MessageFields DEF TypeOK
      <3> DEFINE bs == IF m.to \in Source THEN Advertised
                       ELSE Covered(FitInReply(GetExistBlockAreas(tab[m.to])))
      <3>2. bs \in SUBSET Advertised
        BY AreasHaveArrived, BlockAdvertised DEF BlocksIn
      <3>3. {GetBlockAreaRet(m.to, m.from, bs)} \in SUBSET Genuine
        BY <3>1, <3>2, OthersGenuine
      <3>4. PICK base \in Taken(m) : Send(base, {GetBlockAreaRet(m.to, m.from, bs)})
        BY <2>1 DEF OnGetBlockArea
      <3>5. base \in SUBSET Genuine
        BY <1>0, <3>4, TakenType
      <3> QED
        BY <3>3, <3>4, <3>5, SendType
    <2>2. CASE OnGetBlockAreaRet(m) \/ OnGetSegment(m) \/ OnGetSegmentRet(m)
      BY <1>0, <2>2, TakenType DEF OnGetBlockAreaRet, OnGetSegment, OnGetSegmentRet
    <2> QED
      BY <1>7, <2>1, <2>2 DEF TransUdpCommand
  <1>8. CASE Tick \/ UNCHANGED vars
    <2>1. net' = net
      BY <1>8 DEF Tick, vars
    <2> QED
      BY <1>0, <2>1 DEF AnswersMatch
  <1> QED
    BY <1>1, <1>2, <1>3, <1>4, <1>5, <1>6, <1>7, <1>8 DEF Next, AnswersMatch

LEMMA IntegrityStep ==
    ASSUME TypeOK, Integrity, AnswersMatch, [Next]_vars
    PROVE  Integrity'
  <1>1. CASE \E n \in Viewer : \E r \in Reads : RequestSegment(n, r[1], r[2])
    <2> PICK n \in Viewer, r \in Reads : RequestSegment(n, r[1], r[2])
      BY <1>1
    <2> SUFFICES ASSUME NEW k \in Viewer, NEW b \in Block, tab'[k][b] = "ARRIVED"
                 PROVE  buf'[k][b] = b
      BY DEF Integrity
    <2>1. CASE k # n
      BY <2>1, ReadStep DEF Integrity
    <2>2. CASE k = n
      <3>1. tab[n][b] = "ARRIVED" /\ buf'[n][b] = buf[n][b]
        BY <2>2, ReadStep
      <3> QED
        BY <2>2, <3>1 DEF Integrity
    <2> QED
      BY <2>1, <2>2
  <1>2. CASE \E m \in net : OnGetSegmentRet(m)
    <2> PICK m \in net : OnGetSegmentRet(m)
      BY <1>2
    <2>1. CASE UNCHANGED <<tab, buf>>
      BY <2>1 DEF Integrity
    <2>2. CASE ~ UNCHANGED <<tab, buf>>
      <3>1. /\ m.to \in Viewer /\ m.block \in Block
            /\ m.sum = m.data
            /\ tab[m.to][m.block] = "REQUESTED"
            /\ tab' = [tab EXCEPT ![m.to][m.block] = "ARRIVED"]
            /\ buf' = [buf EXCEPT ![m.to][m.block] = m.data]
        BY <2>2, ArrivalStep
      <3>2. m.data = m.block
        BY <3>1 DEF AnswersMatch, Genuine, OnGetSegmentRet
      <3> QED
        BY <3>1, <3>2 DEF Integrity, TypeOK
    <2> QED
      BY <2>1, <2>2
  <1>3. CASE Quiet
    BY <1>3 DEF Quiet, Integrity, Open
  <1> QED
    BY <1>1, <1>2, <1>3, TableStep

\* What a reader gets is the file, whatever the network does: the handler of
\* GETSEGMENT_RET stores only contents that fit a checksum, a checksum is
\* computed from a stored block, and what is stored is the file's.
THEOREM IntegrityHolds == Spec => []Integrity
  <1>1. Init => Integrity /\ AnswersMatch
    BY DEF Init, Integrity, AnswersMatch
  <1>2. TypeOK /\ Integrity /\ AnswersMatch /\ [Next]_vars
            => (Integrity /\ AnswersMatch)'
    BY IntegrityStep, NetStep
  <1> QED
    BY <1>1, <1>2, TypeCorrect, PTL DEF Spec

-----------------------------------------------------------------------------
(* What has arrived stays *)

\* No datagram, timeout or new request takes an arrived block away: only the
\* reader that moves by more than Window blocks does.
THEOREM ArrivedIsKeptHolds == Spec => ArrivedIsKept
  <1> DEFINE Kept == \A n \in Viewer : \A b \in Block :
          tab[n][b] = "ARRIVED" /\ tab'[n][b] # "ARRIVED" =>
              /\ tab'[n][b] = "ABSENT"
              /\ \E c \in Window + 1 .. NumBlocks :
                    /\ b < c - Window \/ b > c
                    /\ \A x \in Block : x < c - Window => tab'[n][x] = "ABSENT"
  <1>1. TypeOK /\ [Next]_vars => [Kept]_vars
    <2> SUFFICES ASSUME TypeOK, [Next]_vars, NEW k \in Viewer, NEW b \in Block,
                        tab[k][b] = "ARRIVED", tab'[k][b] # "ARRIVED"
                 PROVE  /\ tab'[k][b] = "ABSENT"
                        /\ \E c \in Window + 1 .. NumBlocks :
                             /\ b < c - Window \/ b > c
                             /\ \A x \in Block : x < c - Window => tab'[k][x] = "ABSENT"
      OBVIOUS
    <2>1. CASE \E n \in Viewer : \E r \in Reads : RequestSegment(n, r[1], r[2])
      <3> PICK n \in Viewer, r \in Reads : RequestSegment(n, r[1], r[2])
        BY <2>1
      <3>1. k = n
        BY ReadStep
      <3>2. /\ r[1] \in 0 .. NumBlocks /\ r[2] \in 0 .. NumBlocks
            /\ \A x \in Block :
                 LET kept == r[1] <= Window
                             \/ (r[1] - Window <= x /\ x <= r[1] + r[2])
                     old == IF kept THEN tab[n][x] ELSE "ABSENT"
                 IN  tab'[n][x] = IF x \in r[1] .. (r[1] + r[2] - 1) /\ old = "ABSENT"
                                  THEN "NONE" ELSE old
        BY ReadStep
      <3>3. /\ r[1] > Window
            /\ ~(r[1] - Window <= b /\ b <= r[1] + r[2])
        BY <3>1, <3>2, TransferAssumption, PacketAssumption DEF Block
      <3>4. tab'[n][b] = "ABSENT"
        BY <3>2, <3>3, TransferAssumption, PacketAssumption DEF Block
      <3>5. \A x \in Block : x < r[1] - Window => tab'[n][x] = "ABSENT"
        BY <3>2, <3>3, TransferAssumption, PacketAssumption DEF Block
      <3>6. /\ r[1] \in Window + 1 .. NumBlocks
            /\ b < r[1] - Window \/ b > r[1]
        BY <3>2, <3>3, TransferAssumption, PacketAssumption DEF Block
      <3> QED
        BY <3>1, <3>4, <3>5, <3>6
    <2>2. CASE \E m \in net : OnGetSegmentRet(m)
      <3> PICK m \in net : OnGetSegmentRet(m)
        BY <2>2
      <3>1. \/ tab' = tab
            \/ /\ m.to \in Viewer /\ m.block \in Block
               /\ tab' = [tab EXCEPT ![m.to][m.block] = "ARRIVED"]
        BY ArrivalStep
      <3>2. ASSUME NEW a \in Viewer, NEW x \in Block,
                   tab' = [tab EXCEPT ![a][x] = "ARRIVED"]
            PROVE  tab'[k][b] = "ARRIVED"
        BY <3>2 DEF TypeOK
      <3> QED
        BY <3>1, <3>2
    <2>3. CASE Quiet
      BY <2>3 DEF Quiet, Open
    <2> QED
      BY <2>1, <2>2, <2>3, TableStep
  <1> QED
    BY <1>1, TypeCorrect, PTL DEF Spec, ArrivedIsKept

-----------------------------------------------------------------------------
(* Promises *)

Have(p) == BlocksIn(tab[p], "ARRIVED")

\* A datagram that reports only what its sender holds.
Honest == {m \in Message : m.type = "GETBLOCK_AREA_RET" /\ m.from \in Viewer
                              => m.areas \subseteq Have(m.from)}

\* The three parts of PromisesAreKept.
Reported == \A p \in Viewer, n \in Node : areas[n][p] \subseteq Have(p)
Queued == \A p \in Viewer, n \in Node : need[p][n] \subseteq Have(p)
OnItsWay == net \subseteq Honest

Promises == Reported /\ Queued /\ OnItsWay

LEMMA HaveGrows ==
    ASSUME TypeOK, Window >= NumBlocks, [Next]_vars
    PROVE  \A p \in Viewer : Have(p) \subseteq Have(p)'
  <1> SUFFICES ASSUME NEW k \in Viewer, NEW b \in Block, tab[k][b] = "ARRIVED"
               PROVE  tab'[k][b] = "ARRIVED"
    BY DEF Have, BlocksIn
  <1>1. CASE \E n \in Viewer : \E r \in Reads : RequestSegment(n, r[1], r[2])
    <2> PICK n \in Viewer, r \in Reads : RequestSegment(n, r[1], r[2])
      BY <1>1
    <2>1. r[1] <= Window
      BY ReadStep, TransferAssumption, PacketAssumption
    <2> QED
      BY <2>1, ReadStep
  <1>2. CASE \E m \in net : OnGetSegmentRet(m)
    <2> PICK m \in net : OnGetSegmentRet(m)
      BY <1>2
    <2>1. \/ tab' = tab
          \/ /\ m.to \in Viewer /\ m.block \in Block
             /\ tab' = [tab EXCEPT ![m.to][m.block] = "ARRIVED"]
      BY ArrivalStep
    <2>2. ASSUME NEW a \in Viewer, NEW x \in Block,
                 tab' = [tab EXCEPT ![a][x] = "ARRIVED"]
          PROVE  tab'[k][b] = "ARRIVED"
      BY <2>2 DEF TypeOK
    <2> QED
      BY <2>1, <2>2
  <1>3. CASE Quiet
    BY <1>3 DEF Quiet, Open
  <1> QED
    BY <1>1, <1>2, <1>3, TableStep

LEMMA ReportedStep ==
    ASSUME TypeOK, Promises, [Next]_vars,
           \A p \in Viewer : Have(p) \subseteq Have(p)'
    PROVE  Reported'
  <1> SUFFICES ASSUME NEW p \in Viewer, NEW n \in Node
               PROVE  areas'[n][p] \subseteq Have(p)'
    BY DEF Reported
  <1>0. areas[n][p] \subseteq Have(p)'
    BY DEF Promises, Reported
  <1>p. p \in Node
    BY DEF Node
  <1>1. ASSUME NEW k \in Node, NEW q \in Node, AddPeer(k, q) \/ DeletePeer(k, q)
        PROVE  areas'[n][p] \subseteq Have(p)'
    <2>1. areas' = [areas EXCEPT ![k][q] = {}]
      BY <1>1 DEF AddPeer, DeletePeer
    <2>2. areas'[n][p] = {} \/ areas'[n][p] = areas[n][p]
      BY <1>p, <2>1, NestedValue DEF TypeOK
    <2> QED
      BY <1>0, <2>2
  <1>2. ASSUME NEW m \in net, OnGetBlockAreaRet(m)
        PROVE  areas'[n][p] \subseteq Have(p)'
    <2>1. m \in Honest /\ m.to \in Node /\ m.from \in Node
      BY MessageFields DEF Promises, OnItsWay, Honest
    <2>2. CASE m.from = p /\ m.to = n /\ areas' # areas
      <3>1. areas'[n][p] = m.areas
        BY <1>2, <1>p, <2>1, <2>2 DEF OnGetBlockAreaRet, TypeOK
      <3> QED
        BY <1>2, <2>1, <2>2, <3>1 DEF OnGetBlockAreaRet, Honest
    <2>3. CASE ~(m.from = p /\ m.to = n /\ areas' # areas)
      <3>1. areas'[n][p] = areas[n][p]
        BY <1>2, <1>p, <2>1, <2>3 DEF OnGetBlockAreaRet, TypeOK
      <3> QED
        BY <1>0, <3>1
    <2> QED
      BY <2>2, <2>3
  <1>3. CASE areas' = areas
    BY <1>0, <1>3
  <1> QED
    BY <1>1, <1>2, <1>3
    DEF Next, vars, RequestSegment, Leave, ViewerLoop, SourceLoop,
        TransUdpCommand, OnGetBlockArea, OnGetSegment, OnGetSegmentRet,
        Lose, Damage, Tick, known

LEMMA QueuedStep ==
    ASSUME TypeOK, Promises, [Next]_vars,
           \A p \in Viewer : Have(p) \subseteq Have(p)'
    PROVE  Queued'
  <1> SUFFICES ASSUME NEW p \in Viewer, NEW n \in Node
               PROVE  need'[p][n] \subseteq Have(p)'
    BY DEF Queued
  <1>0. need[p][n] \subseteq Have(p)'
    BY DEF Promises, Queued
  <1>p. p \in Node
    BY DEF Node
  <1>1. ASSUME NEW k \in Node, NEW q \in Node, AddPeer(k, q) \/ DeletePeer(k, q)
        PROVE  need'[p][n] \subseteq Have(p)'
    <2>1. need' = [need EXCEPT ![k][q] = {}]
      BY <1>1 DEF AddPeer, DeletePeer
    <2>2. need'[p][n] = {} \/ need'[p][n] = need[p][n]
      BY <1>p, <2>1, NestedValue DEF TypeOK
    <2> QED
      BY <1>0, <2>2
  <1>2. ASSUME NEW k \in Node,
               need' = [need EXCEPT ![k] = [q \in Node |-> @[q] \ Batch(k, q)]]
        PROVE  need'[p][n] \subseteq Have(p)'
    <2>1. need'[p][n] \subseteq need[p][n]
      BY <1>2, <1>p DEF TypeOK
    <2> QED
      BY <1>0, <2>1
  <1>3. ASSUME NEW m \in net, OnGetSegment(m)
        PROVE  need'[p][n] \subseteq Have(p)'
    <2>1. m.to \in Node /\ m.from \in Node
      BY MessageFields DEF TypeOK
    <2>2. CASE m.to = p
      <3>1. m.to \notin Source
        BY <2>2, TransferAssumption
      <3>2. GetExistBlockList(tab[p], m.want) \subseteq Have(p)
        BY <1>3, MessageFields DEF GetExistBlockList, Have, BlocksIn, OnGetSegment, TypeOK
      <3>3. need'[p][n] \subseteq need[p][n] \cup GetExistBlockList(tab[p], m.want)
        BY <1>3, <1>p, <2>1, <2>2, <3>1 DEF OnGetSegment, TypeOK
      <3> QED
        BY <1>0, <3>2, <3>3
    <2>3. CASE m.to # p
      <3>1. need'[p][n] = need[p][n]
        BY <1>3, <1>p, <2>1, <2>3 DEF OnGetSegment, TypeOK
      <3> QED
        BY <1>0, <3>1
    <2> QED
      BY <2>2, <2>3
  <1>4. CASE need' = need
    BY <1>0, <1>4
  <1> QED
    BY <1>1, <1>2, <1>3, <1>4
    DEF Next, vars, RequestSegment, Leave, ViewerLoop, SourceLoop, Node,
        TransUdpCommand, OnGetBlockArea, OnGetBlockAreaRet, OnGetSegmentRet,
        Lose, Damage, Tick, known

\* Every step leaves a network of honest datagrams, judged by the old tables.
LEMMA NetHonest ==
    ASSUME TypeOK, Promises, [Next]_vars
    PROVE  net' \subseteq Honest
  <1>0. net \in SUBSET Honest
    BY DEF Promises, OnItsWay
  <1>a. \A n \in Node : Answers(n) \in SUBSET Honest
    <2> SUFFICES ASSUME NEW n \in Node, NEW m \in Answers(n)
                 PROVE  m \in Message /\ m.type = "GETSEGMENT_RET"
      BY DEF Honest
    <2> QED
      BY AnswersType DEF Answers, GetSegmentRet
  <1>1. ASSUME NEW n \in Source, SourceLoop(n)
        PROVE  net' \in SUBSET Honest
    BY <1>0, <1>1, <1>a, SendType DEF SourceLoop, Node
  <1>2. ASSUME NEW n \in Viewer, ViewerLoop(n)
        PROVE  net' \in SUBSET Honest
    <2> DEFINE run == GetShouldBlock(tab[n])
    <2>1. PICK cursor \in Walk(n, run) :
              LET asked == [p \in Candidate(n) |-> Take(n, p, cursor[p], run)]
              IN  Send(net, Queries(n) \cup Requests(n, asked) \cup Answers(n))
      BY <1>2 DEF ViewerLoop
    <2> DEFINE asked == [p \in Candidate(n) |-> Take(n, p, cursor[p], run)]
    <2>2. n \in Node /\ Candidate(n) \subseteq Node /\ peers[n] \subseteq Node
      BY DEF Candidate, TypeOK, Node
    <2>3. \A p \in Candidate(n) : asked[p] \in SUBSET Block
      BY DEF Take, GetShouldBlock, BlocksIn
    <2>4. DOMAIN asked = Candidate(n)
      OBVIOUS
    <2>5. Send(net, Queries(n) \cup Requests(n, asked) \cup Answers(n))
      BY <2>1
    <2> HIDE DEF asked
    <2>6. Queries(n) \in SUBSET Honest
      BY <2>2, MessageTypes DEF Queries, GetBlockArea, Honest
    <2>7. Requests(n, asked) \in SUBSET Honest
      <3> SUFFICES ASSUME NEW p \in Candidate(n)
                   PROVE  GetSegment(n, p, asked[p]) \in Honest
        BY <2>4 DEF Requests
      <3> QED
        BY <2>2, <2>3, MessageTypes DEF GetSegment, Honest
    <2>8. Queries(n) \cup Requests(n, asked) \cup Answers(n) \in SUBSET Honest
      BY <1>a, <2>2, <2>6, <2>7
    <2> QED
      BY <1>0, <2>5, <2>8, SendType
  <1>3. ASSUME NEW m \in net, Lose(m) \/ Damage(m)
        PROVE  net' \in SUBSET Honest
    <2>1. m \in Message
      BY DEF TypeOK
    <2>2. m.type = "GETSEGMENT_RET" =>
              /\ [m EXCEPT !.data = Garbage] \in Message
              /\ [m EXCEPT !.data = Garbage].type = m.type
      BY <2>1, MessageFields
      DEF Message, GetBlockAreaMsg, GetBlockAreaRetMsg, GetSegmentMsg, GetSegmentRetMsg
    <2> QED
      BY <1>0, <1>3, <2>2 DEF Lose, Damage, Honest
  <1>4. ASSUME NEW m \in net, OnGetBlockArea(m)
        PROVE  net' \in SUBSET Honest
    <2>1. m.from \in Node /\ m.to \in Node
      BY MessageFields DEF TypeOK
    <2> DEFINE bs == IF m.to \in Source THEN Advertised
                     ELSE Covered(FitInReply(GetExistBlockAreas(tab[m.to])))
               reply == GetBlockAreaRet(m.to, m.from, bs)
    <2>2. bs \in SUBSET Advertised
      BY AreasHaveArrived, BlockAdvertised DEF BlocksIn
    <2>3. m.to \in Viewer => bs \subseteq Have(m.to)
      BY AreasHaveArrived, TransferAssumption DEF Have
    <2>4. reply \in Message /\ reply.from = m.to /\ reply.areas = bs
      BY <2>1, <2>2, MessageTypes DEF GetBlockAreaRet
    <2>5. {reply} \in SUBSET Honest
      BY <2>3, <2>4 DEF Honest
    <2>6. PICK base \in Taken(m) : Send(base, {reply})
      BY <1>4 DEF OnGetBlockArea
    <2>7. base \in SUBSET Honest
      BY <1>0, <2>6, TakenType
    <2> QED
      BY <2>5, <2>6, <2>7, SendType
  <1>5. ASSUME NEW m \in net, OnGetBlockAreaRet(m) \/ OnGetSegment(m) \/ OnGetSegmentRet(m)
        PROVE  net' \in SUBSET Honest
    BY <1>0, <1>5, TakenType DEF OnGetBlockAreaRet, OnGetSegment, OnGetSegmentRet
  <1>6. CASE net' = net
    BY <1>0, <1>6
  <1> QED
    BY <1>1, <1>2, <1>3, <1>4, <1>5, <1>6
    DEF Next, vars, TransUdpCommand, RequestSegment, AddPeer, DeletePeer, Leave, Tick

\* Nothing promised is missing: as long as no reader drops blocks, a block
\* reported by OnGetBlockArea or queued by OnGetSegment is there when it is
\* asked for or sent.
THEOREM PromisesAreKeptHolds == Spec => []PromisesAreKept
  <1> DEFINE Inv == Window >= NumBlocks => Promises
  <1>1. Init => Inv
    BY TransferAssumption DEF Init, Promises, Reported, Queued, OnItsWay, Node
  <1>2. TypeOK /\ Inv /\ [Next]_vars => Inv'
    <2> SUFFICES ASSUME TypeOK, Promises, [Next]_vars, Window >= NumBlocks
                 PROVE  Promises'
      OBVIOUS
    <2>1. \A p \in Viewer : Have(p) \subseteq Have(p)'
      BY HaveGrows
    <2>2. net' \subseteq Honest'
      BY <2>1, NetHonest DEF Honest
    <2> QED
      BY <2>1, <2>2, ReportedStep, QueuedStep DEF Promises, OnItsWay
  <1>3. Inv => PromisesAreKept
    BY DEF PromisesAreKept, Promises, Reported, Queued, OnItsWay, Honest, Have
  <1> QED
    BY <1>1, <1>2, <1>3, TypeCorrect, PTL DEF Spec

-----------------------------------------------------------------------------
(* Refinement *)

\* What BlockStore sees of block b of reader n, and of all readers.
Seen(n, b) == CASE tab[n][b] = "ABSENT" -> -1
                [] tab[n][b] = "ARRIVED" -> buf[n][b]
                [] OTHER -> -2

View == [n \in Viewer |-> [b \in Block |-> Seen(n, b)]]

LEMMA StoreBlock == Store!Block = Block
  BY DEF Store!Block, Block

LEMMA StoreRead ==
    ASSUME TypeOK, Integrity,
           NEW n \in Viewer, NEW r \in Reads, RequestSegment(n, r[1], r[2])
    PROVE  Store!Next
  <1> DEFINE Old(b) == IF b \in Store!Kept(r[1], r[2]) THEN View[n][b] ELSE -1
             After == [b \in Block |->
                         IF b \in r[1] .. (r[1] + r[2] - 1) /\ Old(b) = -1
                         THEN -2 ELSE Old(b)]
  <1>1. \A k \in Viewer : k # n => View'[k] = View[k]
    BY ReadStep DEF View, Seen
  <1>2. \A b \in Block : View'[n][b] = After[b]
    <2> SUFFICES ASSUME NEW b \in Block
                 PROVE  Seen(n, b)' = After[b]
      BY DEF View
    <2> DEFINE kept == r[1] <= Window \/ (r[1] - Window <= b /\ b <= r[1] + r[2])
    <2>1. b \in Store!Kept(r[1], r[2]) <=> kept
      BY ReadStep, StoreBlock, TransferAssumption DEF Store!Kept
    <2>2. LET old == IF kept THEN tab[n][b] ELSE "ABSENT"
          IN  /\ tab'[n][b] = IF b \in r[1] .. (r[1] + r[2] - 1) /\ old = "ABSENT"
                              THEN "NONE" ELSE old
              /\ buf'[n][b] = IF tab'[n][b] = "ARRIVED" THEN buf[n][b] ELSE Garbage
      BY ReadStep
    <2> HIDE DEF kept
    <2>3. View[n][b] = Seen(n, b)
      BY DEF View
    <2>4. Old(b) = -1 <=> (~kept \/ tab[n][b] = "ABSENT")
      BY <2>1, <2>3 DEF Seen, Integrity, Block
    <2>5. CASE b \in r[1] .. (r[1] + r[2] - 1) /\ Old(b) = -1
      <3>1. tab'[n][b] = "NONE"
        BY <2>2, <2>4, <2>5
      <3> QED
        BY <2>5, <3>1 DEF Seen
    <2>6. CASE ~ (b \in r[1] .. (r[1] + r[2] - 1) /\ Old(b) = -1)
      <3>1. tab'[n][b] = IF kept THEN tab[n][b] ELSE "ABSENT"
        BY <2>2, <2>4, <2>6
      <3>2. Seen(n, b)' = Old(b)
        BY <2>1, <2>2, <2>3, <3>1 DEF Seen
      <3> QED
        BY <2>6, <3>2
    <2> QED
      BY <2>5, <2>6
  <1>3. View' = [View EXCEPT ![n] = After]
    <2> HIDE DEF After
    <2>1. View'[n] = [b \in Block |-> After[b]]
      BY <1>2 DEF View
    <2>2. [b \in Block |-> After[b]] = After
      BY DEF After
    <2>3. /\ View = [k \in Viewer |-> View[k]]
          /\ View' = [k \in Viewer |-> View'[k]]
      BY DEF View
    <2> HIDE DEF View
    <2> QED
      BY <1>1, <2>1, <2>2, <2>3
  <1>4. Store!Read(n, r[1], r[2])
    BY <1>3, StoreBlock DEF Store!Read, View, Seen
  <1> QED
    BY <1>4 DEF Store!Next

LEMMA StoreArrive ==
    ASSUME TypeOK, AnswersMatch, NEW m \in net, OnGetSegmentRet(m)
    PROVE  View' = View \/ Store!Next
  <1>1. CASE UNCHANGED <<tab, buf>>
    BY <1>1 DEF View, Seen
  <1>2. CASE ~ UNCHANGED <<tab, buf>>
    <2> DEFINE n == m.to
               b == m.block
    <2>1. /\ n \in Viewer /\ b \in Block
          /\ m.data = b
          /\ tab[n][b] = "REQUESTED"
          /\ tab' = [tab EXCEPT ![n][b] = "ARRIVED"]
          /\ buf' = [buf EXCEPT ![n][b] = m.data]
      BY <1>2, ArrivalStep DEF AnswersMatch, Genuine, OnGetSegmentRet
    <2> HIDE DEF n, b
    <2>2. View[n][b] = -2
      BY <2>1 DEF View, Seen
    <2>3. View' = [View EXCEPT ![n][b] = b]
      <3>1. \A k \in Viewer, x \in Block :
                Seen(k, x)' = IF k = n /\ x = b THEN b ELSE Seen(k, x)
        <4> SUFFICES ASSUME NEW k \in Viewer, NEW x \in Block
                     PROVE  Seen(k, x)' = IF k = n /\ x = b THEN b ELSE Seen(k, x)
          OBVIOUS
        <4>1. /\ tab'[k][x] = IF k = n /\ x = b THEN "ARRIVED" ELSE tab[k][x]
              /\ buf'[k][x] = IF k = n /\ x = b THEN b ELSE buf[k][x]
          BY <2>1 DEF TypeOK
        <4> QED
          BY <4>1 DEF Seen
      <3>2. View'[n] = [View[n] EXCEPT ![b] = b]
        BY <2>1, <3>1 DEF View
      <3>3. \A k \in Viewer : k # n => View'[k] = View[k]
        BY <3>1 DEF View
      <3>4. /\ View = [k \in Viewer |-> View[k]]
            /\ View' = [k \in Viewer |-> View'[k]]
        BY DEF View
      <3> HIDE DEF View
      <3>5. View' = [View EXCEPT ![n] = [View[n] EXCEPT ![b] = b]]
        BY <2>1, <3>2, <3>3, <3>4
      <3> QED
        BY <3>5
    <2>4. Store!Arrive(n, b)
      BY <2>2, <2>3 DEF Store!Arrive, View, Seen
    <2> QED
      BY <2>1, <2>4, StoreBlock DEF Store!Next
  <1> QED
    BY <1>1, <1>2

\* The transfer implements BlockStore: whatever the peers, the network and
\* the timeouts do, a reader sees blocks become wanted, arrive once with the
\* contents of the file, and go when it moves away.
THEOREM TransferImplementsStore == Spec => ImplementsStore
  <1>1. Init => Store!Init
    BY StoreBlock DEF Init, Store!Init
  <1>2. TypeOK /\ Integrity /\ AnswersMatch /\ [Next]_vars
            => Store!Next \/ View' = View
    <2> SUFFICES ASSUME TypeOK, Integrity, AnswersMatch, [Next]_vars
                 PROVE  Store!Next \/ View' = View
      OBVIOUS
    <2>1. ASSUME Quiet
          PROVE  View' = View
      <3>1. \A n \in Viewer, b \in Block : Seen(n, b)' = Seen(n, b)
        BY <2>1 DEF Quiet, Open, Seen
      <3> QED
        BY <3>1 DEF View
    <2> QED
      BY <2>1, TableStep, StoreRead, StoreArrive
  <1>3. TypeOK /\ Integrity /\ AnswersMatch /\ [Next]_vars
            => [Store!Next]_([n \in Viewer |-> [b \in Block |->
                    CASE tab[n][b] = "ABSENT" -> -1
                      [] tab[n][b] = "ARRIVED" -> buf[n][b]
                      [] OTHER -> -2]])
    BY <1>2 DEF View, Seen
  <1>4. Init => Integrity /\ AnswersMatch
    BY DEF Init, Integrity, AnswersMatch
  <1>5. TypeOK /\ Integrity /\ AnswersMatch /\ [Next]_vars
            => (Integrity /\ AnswersMatch)'
    BY IntegrityStep, NetStep
  <1> QED
    BY <1>1, <1>3, <1>4, <1>5, TypeCorrect, PTL DEF Spec, ImplementsStore, Store!SafeSpec

-----------------------------------------------------------------------------
(* Who is asked for what: the walk over the candidates.  An induction along  *)
(* it is the search for a first candidate where the claim fails; that there  *)
(* is one rests on finite sets being well founded under inclusion.           *)

LEMMA LeastMember ==
    ASSUME NEW T, T \subseteq Nat, T # {}
    PROVE  \E x \in T : \A y \in T : x <= y
<1> DEFINE Up == {0 .. t : t \in T}
<1>1. \A t \in T : 0 .. t \in FiniteSubsetsOf(Nat)
  BY FS_Interval DEF FiniteSubsetsOf
<1>2. Up \subseteq FiniteSubsetsOf(Nat) /\ Up # {}
  BY <1>1
<1>3. IsWellFoundedOn(StrictSubsetOrdering(Nat), FiniteSubsetsOf(Nat))
  BY FS_StrictSubsetOrderingWellFounded
<1> HIDE DEF Up
<1>4. PICK S \in Up : \A R \in Up : <<R, S>> \notin StrictSubsetOrdering(Nat)
  <2>1. \E S \in Up : \A R \in Up : ~(<<R, S>> \in StrictSubsetOrdering(Nat))
    BY ONLY <1>2, <1>3, WFMin
  <2>2. QED
    BY <2>1
<1>5. PICK x \in T : S = 0 .. x
  BY <1>4 DEF Up
<1>6. ASSUME NEW y \in T PROVE x <= y
  <2>1. SUFFICES ASSUME y < x PROVE FALSE
    BY <1>5
  <2>2. 0 .. y \subseteq 0 .. x /\ 0 .. y # 0 .. x
    BY <2>1
  <2>3. 0 .. y \in Up
    BY DEF Up
  <2>4. <<0 .. y, 0 .. x>> \in (SUBSET Nat) \X (SUBSET Nat)
    BY <1>6
  <2>5. <<0 .. y, 0 .. x>> \in StrictSubsetOrdering(Nat)
    BY <2>2, <2>4 DEF StrictSubsetOrdering
  <2>6. QED
    BY <2>3, <2>5, <1>4, <1>5
<1>7. QED
  BY <1>5, <1>6

\* GetSortBySpeed orders the peers.
LEMMA EarlierOrders ==
    ASSUME NEW p \in Node, NEW q \in Node, NEW r \in Node
    PROVE  /\ ~Earlier(p, p)
           /\ Earlier(p, q) /\ Earlier(q, r) => Earlier(p, r)
           /\ p # q => Earlier(p, q) \/ Earlier(q, p)
  BY TransferAssumption DEF Earlier, Node

\* Of any candidates one comes first.
LEMMA FirstCandidate ==
    ASSUME TypeOK, NEW n \in Viewer, NEW T, T \subseteq Candidate(n), T # {}
    PROVE  \E p \in T : \A q \in T : ~Earlier(q, p)
<1> DEFINE Lower == {Before(n, p) : p \in T}
<1>1. Candidate(n) \subseteq Node /\ IsFiniteSet(Node)
  BY TransferAssumption, FS_Union DEF Candidate, TypeOK, Node
<1>2. \A p \in T : Before(n, p) \in FiniteSubsetsOf(Node)
  BY <1>1, FS_Subset DEF Before, FiniteSubsetsOf
<1>3. Lower \subseteq FiniteSubsetsOf(Node) /\ Lower # {}
  BY <1>2
<1>4. IsWellFoundedOn(StrictSubsetOrdering(Node), FiniteSubsetsOf(Node))
  BY FS_StrictSubsetOrderingWellFounded
<1> HIDE DEF Lower
<1>5. PICK S \in Lower : \A R \in Lower : <<R, S>> \notin StrictSubsetOrdering(Node)
  <2>1. \E S \in Lower : \A R \in Lower : ~(<<R, S>> \in StrictSubsetOrdering(Node))
    BY ONLY <1>3, <1>4, WFMin
  <2>2. QED
    BY <2>1
<1>6. PICK p \in T : S = Before(n, p)
  BY <1>5 DEF Lower
<1>7. ASSUME NEW q \in T, Earlier(q, p) PROVE FALSE
  <2>1. Before(n, q) \subseteq Before(n, p)
    BY <1>1, <1>7, EarlierOrders DEF Before
  <2>2. q \in Before(n, p) /\ q \notin Before(n, q)
    BY <1>1, <1>7, EarlierOrders DEF Before
  <2>3. Before(n, q) \in SUBSET Node /\ Before(n, p) \in SUBSET Node
    BY <1>1 DEF Before
  <2>4. <<Before(n, q), Before(n, p)>> \in StrictSubsetOrdering(Node)
    BY <2>1, <2>2, <2>3 DEF StrictSubsetOrdering
  <2>5. Before(n, q) \in Lower
    BY DEF Lower
  <2>6. QED
    BY <2>4, <2>5, <1>5, <1>6
<1>8. QED
  BY <1>7

\* A run of missing blocks has no gap.
LEMMA RunIsInterval ==
    ASSUME NEW t, NEW first \in GetShouldBlock(t), NEW last \in GetShouldBlock(t),
           NEW b \in first .. last
    PROVE  b \in GetShouldBlock(t)
<1>1. PICK s \in BlocksIn(t, "NONE") :
         /\ \A x \in BlocksIn(t, "NONE") : s <= x
         /\ last < s + RequestMax * 8
         /\ \A x \in s .. last : t[x] = "NONE"
  BY DEF GetShouldBlock
<1>2. first \in Block /\ last \in Block /\ b \in Block /\ s \in Block
  BY <1>1, PacketAssumption DEF GetShouldBlock, BlocksIn, Block
<1>3. s <= first /\ s <= b /\ b <= last
  BY <1>1, <1>2 DEF GetShouldBlock, Block
<1>4. b \in BlocksIn(t, "NONE") /\ b < s + RequestMax * 8
  BY <1>1, <1>2, <1>3, PacketAssumption DEF BlocksIn, Block
<1>5. \A x \in s .. b : t[x] = "NONE"
  BY <1>1, <1>2, <1>3 DEF Block
<1>6. QED
  BY <1>1, <1>4, <1>5 DEF GetShouldBlock

\* The cursor moves behind all the blocks that a peer was asked for, if these
\* are consecutive from the cursor on.
LEMMA PastIsBehind ==
    ASSUME NEW c \in Nat, NEW taken \in SUBSET Block, taken # {},
           \A b \in taken : c <= b /\ c .. b \subseteq taken
    PROVE  /\ Past(c, taken) \in 1 .. NumBlocks
           /\ Past(c, taken) - 1 \in taken
           /\ \A b \in taken : b < Past(c, taken)
<1>0. NumBlocks \in Nat /\ NumBlocks \notin taken
  BY PacketAssumption DEF Block
<1>1. PICK first \in taken : TRUE
  OBVIOUS
<1> DEFINE Free == {x \in 1 .. NumBlocks : first < x /\ x \notin taken}
<1>2. first \in Nat /\ first < NumBlocks
  BY <1>0 DEF Block
<1>3. Free \subseteq Nat /\ Free # {}
  BY <1>0, <1>2
<1>4. PICK x \in Free : \A y \in Free : x <= y
  <2> HIDE DEF Free
  <2>1. QED
    BY <1>3, LeastMember
<1>5. x \in 1 .. NumBlocks /\ x \notin taken /\ first < x
  BY <1>4
<1>6. x - 1 \in taken
  <2>1. CASE x - 1 = first
    BY <2>1
  <2>2. CASE x - 1 # first
    BY <2>2, <1>0, <1>2, <1>4, <1>5
  <2>3. QED
    BY <2>1, <2>2
<1>7. /\ Past(c, taken) \in 1 .. NumBlocks
      /\ Past(c, taken) - 1 \in taken /\ Past(c, taken) \notin taken
  BY <1>5, <1>6 DEF Past
<1>8. ASSUME NEW b \in taken, ~(b < Past(c, taken)) PROVE FALSE
  <2>1. b \in Nat
    BY DEF Block
  <2>2. Past(c, taken) \in c .. b
    BY <2>1, <1>0, <1>7, <1>8
  <2>3. QED
    BY <2>2, <1>7
<1>9. QED
  BY <1>7, <1>8

\* Where the walk reaches a peer q: at or behind the first block of the run,
\* behind all that those before q were asked for, and at no block of the run
\* that they were not asked for.
Reached(n, run, cursor, q) ==
    /\ \E s \in run : s <= cursor[q]
    /\ \A p \in Before(n, q) : \A b \in Take(n, p, cursor[p], run) : b < cursor[q]
    /\ \A b \in run : b < cursor[q] =>
          \E p \in Before(n, q) : b \in Take(n, p, cursor[p], run)

\* What a peer is asked for begins where the walk reaches him.
LEMMA TakeIsInterval ==
    ASSUME NEW n, NEW p, NEW t, NEW c \in Nat,
           NEW s \in GetShouldBlock(t), s <= c,
           NEW b \in Take(n, p, c, GetShouldBlock(t))
    PROVE  c <= b /\ c .. b \subseteq Take(n, p, c, GetShouldBlock(t))
<1>1. /\ b \in GetShouldBlock(t) /\ b \in Nat /\ s \in Nat
      /\ c <= b /\ b < c + RequestMax /\ RequestMax \in Nat
      /\ \A x \in c .. b : IsHaveBlock(n, p, x)
  BY PacketAssumption DEF Take, GetShouldBlock, BlocksIn, Block
<1>2. ASSUME NEW x \in c .. b PROVE x \in Take(n, p, c, GetShouldBlock(t))
  <2>1. x \in s .. b
    BY <1>1, <1>2
  <2>2. x \in GetShouldBlock(t)
    BY <2>1, <1>1, RunIsInterval
  <2>3. c <= x /\ x < c + RequestMax
    BY <1>1, <1>2
  <2>4. \A y \in c .. x : IsHaveBlock(n, p, y)
    BY <1>1, <1>2
  <2>5. QED
    BY <2>2, <2>3, <2>4 DEF Take
<1>3. QED
  BY <1>1, <1>2

\* One step of the walk, from the last peer before r.
LEMMA ReachedStep ==
    ASSUME TypeOK, NEW n \in Viewer, NEW t, NEW cursor,
           NEW r \in Candidate(n), NEW o \in Before(n, r),
           \A i \in Before(n, r) : i = o \/ Earlier(i, o),
           \A i \in Candidate(n) : cursor[i] \in Nat,
           cursor[r] = Past(cursor[o], Take(n, o, cursor[o], GetShouldBlock(t))),
           Reached(n, GetShouldBlock(t), cursor, o)
    PROVE  Reached(n, GetShouldBlock(t), cursor, r)
<1> DEFINE run == GetShouldBlock(t)
           took(i) == Take(n, i, cursor[i], run)
<1>1. /\ Candidate(n) \subseteq Node /\ o \in Candidate(n) /\ Earlier(o, r)
      /\ Before(n, r) \subseteq Candidate(n)
  BY DEF Candidate, TypeOK, Node, Before
<1>2. run \subseteq Block /\ Block \subseteq Nat /\ \A i : took(i) \subseteq run
  BY PacketAssumption DEF GetShouldBlock, BlocksIn, Block, Take
<1>3. cursor[o] \in Nat /\ cursor[r] \in Nat
  BY <1>1
<1>4. PICK s \in run : s <= cursor[o] /\ s \in Nat
  BY <1>2 DEF Reached
<1>5. \A i \in Before(n, r) : i = o \/ i \in Before(n, o)
  BY DEF Before
<1>6. \A i \in Before(n, o) : i \in Before(n, r)
  BY <1>1, EarlierOrders DEF Before
<1>7. CASE took(o) = {}
  <2>1. cursor[r] = cursor[o]
    BY <1>7 DEF Past
  <2>2. QED
    BY <2>1, <1>4, <1>5, <1>6, <1>7 DEF Reached
<1>8. CASE took(o) # {}
  <2>1. \A b \in took(o) : cursor[o] <= b /\ cursor[o] .. b \subseteq took(o)
    BY <1>3, <1>4, TakeIsInterval
  <2>2. took(o) \in SUBSET Block
    BY <1>2
  <2>3. /\ cursor[r] - 1 \in took(o)
        /\ \A b \in took(o) : b < cursor[r]
    <3> HIDE DEF took
    <3>1. QED
      BY <2>1, <2>2, <1>3, <1>8, PastIsBehind DEF took
  <2>4. cursor[o] < cursor[r]
    BY <2>1, <2>3, <1>3
  <2>5. s <= cursor[r]
    BY <2>4, <1>3, <1>4
  <2>6. ASSUME NEW i \in Before(n, r), NEW b \in took(i) PROVE b < cursor[r]
    <3>1. CASE i = o
      BY <3>1, <2>3, <2>6
    <3>2. CASE i \in Before(n, o)
      <4>1. b < cursor[o] /\ b \in Nat
        BY <3>2, <2>6, <1>2 DEF Reached
      <4>2. QED
        BY <4>1, <2>4, <1>3
    <3>3. QED
      BY <3>1, <3>2, <1>5
  <2>7. ASSUME NEW b \in run, b < cursor[r]
        PROVE  \E i \in Before(n, r) : b \in took(i)
    <3>1. CASE b < cursor[o]
      BY <3>1, <1>6 DEF Reached
    <3>2. CASE ~(b < cursor[o])
      <4>1. b \in Nat
        BY <1>2
      <4>2. b \in cursor[o] .. (cursor[r] - 1)
        BY <4>1, <3>2, <2>7, <1>3
      <4>3. b \in took(o)
        BY <4>2, <2>1, <2>3
      <4>4. QED
        BY <4>3
    <3>3. QED
      BY <3>1, <3>2
  <2>8. QED
    BY <2>5, <2>6, <2>7, <1>4 DEF Reached
<1>9. QED
  BY <1>7, <1>8

LEMMA WalkReaches ==
    ASSUME TypeOK, NEW n \in Viewer, GetShouldBlock(tab[n]) # {},
           NEW cursor \in Walk(n, GetShouldBlock(tab[n])),
           NEW q \in Candidate(n)
    PROVE  Reached(n, GetShouldBlock(tab[n]), cursor, q)
<1> DEFINE run == GetShouldBlock(tab[n])
           Bad == {r \in Candidate(n) : ~Reached(n, run, cursor, r)}
<1>1. run \subseteq Block /\ Block \subseteq Nat
  BY PacketAssumption DEF GetShouldBlock, BlocksIn, Block
<1>2. \A r \in Candidate(n) : cursor[r] \in Nat
  BY PacketAssumption DEF Walk
<1>3. ASSUME NEW r \in Bad, \A o \in Bad : ~Earlier(o, r)
      PROVE  FALSE
  <2>1. CASE Before(n, r) = {}
    <3>1. cursor[r] \in run /\ \A x \in run : cursor[r] <= x
      BY <2>1 DEF Walk
    <3>2. cursor[r] \in Nat /\ \A x \in run : x \in Nat
      BY <1>1, <1>2
    <3>3. cursor[r] <= cursor[r] /\ \A x \in run : ~(x < cursor[r])
      BY <3>1, <3>2
    <3>4. QED
      BY <2>1, <3>1, <3>3 DEF Reached
  <2>2. CASE Before(n, r) # {}
    <3>1. PICK o \in Before(n, r) :
             /\ \A i \in Before(n, r) : i = o \/ Earlier(i, o)
             /\ cursor[r] = Past(cursor[o], Take(n, o, cursor[o], run))
      BY <2>2 DEF Walk
    <3>2. o \in Candidate(n) /\ Earlier(o, r)
      BY <3>1 DEF Before
    <3>3. Reached(n, run, cursor, o)
      BY <3>2, <1>3
    <3>4. QED
      BY <3>1, <3>3, <1>2, ReachedStep
  <2>3. QED
    BY <2>1, <2>2
<1>4. Bad = {}
  <2>1. Bad \subseteq Candidate(n)
    OBVIOUS
  <2> HIDE DEF Bad
  <2>2. QED
    BY <2>1, <1>3, FirstCandidate
<1>5. QED
  BY <1>4

\* Nobody is asked for a block that an earlier peer is asked for.
LEMMA CursorsFollow ==
    ASSUME TypeOK, NEW n \in Viewer, GetShouldBlock(tab[n]) # {},
           NEW cursor \in Walk(n, GetShouldBlock(tab[n])),
           NEW p \in Candidate(n), NEW q \in Candidate(n), Earlier(p, q),
           NEW b \in Take(n, p, cursor[p], GetShouldBlock(tab[n]))
    PROVE  b < cursor[q]
  BY WalkReaches DEF Reached, Before

\* What all are asked for is the beginning of the run, and not empty when a
\* source is among them.
LEMMA AskedIsPrefix ==
    ASSUME TypeOK, NEW n \in Viewer, GetShouldBlock(tab[n]) # {},
           NEW cursor \in Walk(n, GetShouldBlock(tab[n]))
    PROVE  LET run == GetShouldBlock(tab[n])
               asked == [p \in Candidate(n) |-> Take(n, p, cursor[p], run)]
               all == UNION {asked[p] : p \in Candidate(n)}
           IN  /\ \A b \in all, x \in run : x < b => x \in all
               /\ Candidate(n) \cap Source # {} => all # {}
<1> DEFINE run == GetShouldBlock(tab[n])
           asked == [p \in Candidate(n) |-> Take(n, p, cursor[p], run)]
           all == UNION {asked[p] : p \in Candidate(n)}
<1>1. run \subseteq Nat
  BY PacketAssumption DEF GetShouldBlock, BlocksIn, Block
<1>2. ASSUME NEW p \in Candidate(n) PROVE cursor[p] \in Nat /\ Reached(n, run, cursor, p)
  BY <1>2, WalkReaches, PacketAssumption DEF Walk
<1>3. ASSUME NEW p \in Candidate(n), NEW x \in run, x < cursor[p] PROVE x \in all
  BY <1>2, <1>3 DEF Reached, Before
<1>4. ASSUME NEW b \in all, NEW x \in run, x < b PROVE x \in all
  <2>1. PICK p \in Candidate(n) : b \in Take(n, p, cursor[p], run)
    OBVIOUS
  <2>2. PICK s \in run : s <= cursor[p]
    BY <1>2 DEF Reached
  <2>3. cursor[p] <= b /\ cursor[p] .. b \subseteq Take(n, p, cursor[p], run)
    BY <2>1, <2>2, <1>2, TakeIsInterval
  <2>4. CASE x < cursor[p]
    BY <2>4, <1>3
  <2>5. CASE ~(x < cursor[p])
    <3>1. b \in run /\ x \in Nat /\ b \in Nat
      BY <2>1, <1>1 DEF Take
    <3>2. x \in cursor[p] .. b
      BY <3>1, <2>5, <1>2, <1>4
    <3>3. QED
      BY <3>2, <2>3
  <2>6. QED
    BY <2>4, <2>5
<1>5. ASSUME NEW p \in Candidate(n) \cap Source PROVE all # {}
  <2>1. PICK s \in run : s <= cursor[p] /\ s \in Nat /\ cursor[p] \in Nat
    BY <1>1, <1>2 DEF Reached
  <2>2. CASE s < cursor[p]
    BY <2>2, <1>3
  <2>3. CASE s = cursor[p]
    <3>1. s \in Take(n, p, cursor[p], run)
      BY <2>1, <2>3, PacketAssumption DEF Take, IsHaveBlock
    <3>2. QED
      BY <3>1
  <2>4. QED
    BY <2>1, <2>2, <2>3
<1>6. QED
  BY <1>4, <1>5

\* The requests of one Loop.
LEMMA LoopAsks ==
    ASSUME TypeOK, NEW n \in Viewer, ViewerLoop(n),
           NEW m \in net' \ net, m.type = "GETSEGMENT"
    PROVE  /\ m.from = n
           /\ \A b \in m.want : tab[n][b] = "NONE" /\ tab'[n][b] = "REQUESTED"
           /\ \A k \in net' \ net : k.type = "GETSEGMENT" /\ k # m
                 => k.want \cap m.want = {}
<1> DEFINE run == GetShouldBlock(tab[n])
<1>1. PICK cursor \in Walk(n, run) :
         LET asked == [p \in Candidate(n) |-> Take(n, p, cursor[p], run)]
             all == UNION {asked[p] : p \in Candidate(n)}
         IN  /\ tab' = [tab EXCEPT ![n] = TableAfter(n, all)]
             /\ Send(net, Queries(n) \cup Requests(n, asked) \cup Answers(n))
  BY DEF ViewerLoop
<1> DEFINE asked == [p \in Candidate(n) |-> Take(n, p, cursor[p], run)]
           all == UNION {asked[p] : p \in Candidate(n)}
<1>2. tab' = [tab EXCEPT ![n] = TableAfter(n, all)]
  BY <1>1
<1>3. ASSUME NEW k \in net' \ net, k.type = "GETSEGMENT"
      PROVE  \E p \in Candidate(n) : asked[p] # {} /\ k = GetSegment(n, p, asked[p])
  <2>1. k \in Queries(n) \cup Requests(n, asked) \cup Answers(n)
    BY <1>1, <1>3 DEF Send
  <2>2. k \notin Queries(n)
    BY <1>3 DEF Queries, GetBlockArea
  <2>3. k \notin Answers(n)
    BY <1>3 DEF Answers, GetSegmentRet
  <2>4. QED
    BY <2>1, <2>2, <2>3 DEF Requests
<1>4. all \subseteq run /\ run \subseteq BlocksIn(tab[n], "NONE")
  BY DEF Take, GetShouldBlock
<1>5. PICK p \in Candidate(n) : asked[p] # {} /\ m = GetSegment(n, p, asked[p])
  BY <1>3
<1>6. m.from = n /\ m.want = asked[p] /\ asked[p] \subseteq all
  BY <1>5 DEF GetSegment
<1>7. ASSUME NEW b \in m.want PROVE tab[n][b] = "NONE" /\ tab'[n][b] = "REQUESTED"
  <2>1. b \in all /\ b \in Block /\ tab[n][b] = "NONE"
    BY <1>4, <1>6 DEF BlocksIn
  <2> HIDE DEF all
  <2>2. TableAfter(n, all)[b] = "REQUESTED"
    BY <2>1, PacketAssumption
    DEF TableAfter, UpdatePacketStatus, UpdateTimeOutStatus, AgeAfter
  <2>3. QED
    BY <2>1, <2>2, <1>2 DEF TypeOK
<1>8. ASSUME NEW k \in net' \ net, k.type = "GETSEGMENT", k # m,
             NEW b \in k.want \cap m.want
      PROVE  FALSE
  <2>1. PICK q \in Candidate(n) : k = GetSegment(n, q, asked[q])
    BY <1>3, <1>8
  <2>2. b \in Take(n, q, cursor[q], run) /\ b \in Take(n, p, cursor[p], run) /\ p # q
    BY <2>1, <1>5, <1>6, <1>8 DEF GetSegment
  <2>3. cursor[p] <= b /\ cursor[q] <= b /\ b \in run
    BY <2>2 DEF Take
  <2>4. cursor[p] \in Nat /\ cursor[q] \in Nat /\ b \in Nat
    BY <2>3, <1>4, PacketAssumption DEF Walk, BlocksIn, Block
  <2>5. ~Earlier(p, q) /\ ~Earlier(q, p)
    BY <2>2, <2>3, <2>4, CursorsFollow
  <2>6. p \in Node /\ q \in Node
    BY DEF Candidate, TypeOK, Node
  <2>7. QED
    BY <2>2, <2>5, <2>6, EarlierOrders
<1>9. QED
  BY <1>6, <1>7, <1>8

\* Requests come from a viewer's Loop only.
LEMMA OthersAskNothing ==
    ASSUME TypeOK, [Next]_vars, \A n \in Viewer : ~ViewerLoop(n),
           NEW m \in net' \ net
    PROVE  m.type # "GETSEGMENT"
<1>1. CASE UNCHANGED vars
  BY <1>1 DEF vars
<1>2. ASSUME NEW n \in Source, SourceLoop(n) PROVE m.type # "GETSEGMENT"
  BY <1>2 DEF SourceLoop, Send, Answers, GetSegmentRet
<1>3. ASSUME NEW k \in net, TransUdpCommand(k) PROVE m.type # "GETSEGMENT"
  <2>1. CASE OnGetBlockArea(k)
    <3>1. PICK base \in Taken(k) :
             \E bs : Send(base, {GetBlockAreaRet(k.to, k.from, bs)})
      BY <2>1 DEF OnGetBlockArea
    <3>2. \E bs : m = GetBlockAreaRet(k.to, k.from, bs)
      BY <3>1 DEF Send, Taken
    <3>3. QED
      BY <3>2 DEF GetBlockAreaRet
  <2>2. CASE OnGetBlockAreaRet(k) \/ OnGetSegment(k) \/ OnGetSegmentRet(k)
    BY <2>2 DEF OnGetBlockAreaRet, OnGetSegment, OnGetSegmentRet, Taken
  <2>3. QED
    BY <1>3, <2>1, <2>2 DEF TransUdpCommand
<1>4. ASSUME NEW k \in net, Lose(k) \/ Damage(k), k \in Message
      PROVE  m.type # "GETSEGMENT"
  BY <1>4 DEF Lose, Damage, Message, GetSegmentRetMsg, GetSegmentMsg,
              GetBlockAreaMsg, GetBlockAreaRetMsg
<1>5. QED
  BY <1>1, <1>2, <1>3, <1>4
  DEF Next, TypeOK, RequestSegment, AddPeer, DeletePeer, Leave, Tick

\* No request asks for a block that is outstanding, and no block is asked of
\* two peers, however many peers there are and whatever areas they reported
\* (SendGetSegment, UpdatePacketStatus).
THEOREM OneRequestPerBlockHolds == Spec => OneRequestPerBlock
<1>1. ASSUME TypeOK, [Next]_vars
      PROVE  [\A m \in net' \ net : m.type = "GETSEGMENT" =>
                /\ \A b \in m.want : /\ tab[m.from][b] = "NONE"
                                     /\ tab'[m.from][b] = "REQUESTED"
                /\ \A k \in net' \ net :
                      k.type = "GETSEGMENT" /\ k.from = m.from /\ k # m
                          => k.want \cap m.want = {}]_vars
  <2>1. CASE \E n \in Viewer : ViewerLoop(n)
    BY <2>1, <1>1, LoopAsks
  <2>2. CASE \A n \in Viewer : ~ViewerLoop(n)
    BY <2>2, <1>1, OthersAskNothing
  <2>3. QED
    BY <2>1, <2>2
<1>2. QED
  BY <1>1, TypeCorrect, PTL DEF Spec, OneRequestPerBlock

\* One Loop asks for the missing run from its first block on and skips none,
\* and asks for something when it knows a source (SendGetSegment).
THEOREM NoBlockSkippedHolds == Spec => NoBlockSkipped
<1>1. ASSUME TypeOK, NEW n \in Viewer, ViewerLoop(n)
      PROVE  LET run == GetShouldBlock(tab[n])
                 asked == {b \in run : tab'[n][b] = "REQUESTED"}
             IN  /\ \A b \in asked, x \in run : x < b => x \in asked
                 /\ run # {} /\ Candidate(n) \cap Source # {} => asked # {}
  <2> DEFINE run == GetShouldBlock(tab[n])
  <2>1. PICK cursor \in Walk(n, run) :
           LET asked == [p \in Candidate(n) |-> Take(n, p, cursor[p], run)]
               all == UNION {asked[p] : p \in Candidate(n)}
           IN  tab' = [tab EXCEPT ![n] = TableAfter(n, all)]
    BY <1>1 DEF ViewerLoop
  <2> DEFINE asked == [p \in Candidate(n) |-> Take(n, p, cursor[p], run)]
             all == UNION {asked[p] : p \in Candidate(n)}
  <2>2. tab' = [tab EXCEPT ![n] = TableAfter(n, all)]
    BY <2>1
  <2>3. all \subseteq run /\ run \subseteq BlocksIn(tab[n], "NONE")
    BY DEF Take, GetShouldBlock
  <2>4. run # {} => /\ \A b \in all, x \in run : x < b => x \in all
                    /\ Candidate(n) \cap Source # {} => all # {}
    BY <1>1, AskedIsPrefix
  <2> HIDE DEF all
  <2>5. \A b \in run : tab'[n][b] = "REQUESTED" <=> b \in all
    <3>1. ASSUME NEW b \in run
          PROVE  TableAfter(n, all)[b] = IF b \in all THEN "REQUESTED" ELSE "NONE"
      BY <2>3, PacketAssumption
      DEF TableAfter, UpdatePacketStatus, UpdateTimeOutStatus, AgeAfter, BlocksIn
    <3>2. QED
      BY <3>1, <2>2, <1>1 DEF TypeOK
  <2>6. QED
    BY <2>3, <2>4, <2>5
<1>2. TypeOK /\ [Next]_vars =>
         [\A n \in Viewer : ViewerLoop(n) =>
            LET run == GetShouldBlock(tab[n])
                asked == {b \in run : tab'[n][b] = "REQUESTED"}
            IN  /\ \A b \in asked, x \in run : x < b => x \in asked
                /\ run # {} /\ Candidate(n) \cap Source # {} => asked # {}]_vars
  BY <1>1
<1>3. QED
  BY <1>2, TypeCorrect, PTL DEF Spec, NoBlockSkipped

-----------------------------------------------------------------------------
(* What a viewer reports: the list of areas and what fits into a datagram.   *)

\* The run of a set around one of its members: its first member is the least
\* one, its last the one least far from the end.
LEMMA RunAround ==
    ASSUME NEW N \in Nat, NEW H, H \subseteq 0 .. (N - 1), NEW b \in H
    PROVE  \E first, last \in H :
              /\ first <= b /\ b <= last
              /\ first .. last \subseteq H
              /\ first - 1 \notin H /\ last + 1 \notin H
<1> DEFINE below == {x \in H : x <= b /\ \A y \in x .. b : y \in H}
           above == {x \in H : b <= x /\ \A y \in b .. x : y \in H}
           rest == {N - x : x \in above}
<1>1. H \subseteq Nat /\ \A x \in H : x < N
  OBVIOUS
<1>2. below \subseteq Nat /\ b \in below
  <2>1. b \in Nat /\ \A y \in b .. b : y = b
    BY <1>1
  <2>2. below \subseteq Nat
    BY <1>1
  <2>3. b <= b /\ b \in H
    BY ONLY <2>1, b \in H
  <2>4. QED
    BY <2>1, <2>2, <2>3
<1>3. rest \subseteq Nat /\ b \in above /\ N - b \in rest
  BY <1>1
<1>4. PICK first \in below : \A x \in below : first <= x
  <2> HIDE DEF below
  <2>1. QED
    BY <1>2, LeastMember
<1>5. PICK left \in rest : \A x \in rest : left <= x
  <2> HIDE DEF rest
  <2>1. QED
    BY <1>3, LeastMember
<1>6. PICK last \in above : left = N - last
  BY <1>5
<1>7. \A x \in above : x <= last
  <2>1. ASSUME NEW x \in above PROVE x <= last
    <3>1. N - last <= N - x
      BY <1>5, <1>6
    <3>2. x \in Nat /\ last \in Nat
      BY <1>1
    <3>3. QED
      BY ONLY <3>1, <3>2, N \in Nat
  <2>2. QED
    BY <2>1
<1>8. /\ first \in H /\ first \in Nat /\ first <= b
      /\ \A y \in first .. b : y \in H
  BY <1>1
<1>9. /\ last \in H /\ last \in Nat /\ b <= last
      /\ \A y \in b .. last : y \in H
  BY <1>1
<1>10. first - 1 \notin H
  <2>1. SUFFICES ASSUME first - 1 \in H PROVE FALSE
    OBVIOUS
  <2>2. \A y \in (first - 1) .. b : y = first - 1 \/ y \in first .. b
    BY ONLY <1>1, <1>8, b \in H
  <2>3. first - 1 \in below
    BY <2>1, <2>2, <1>1, <1>8
  <2> HIDE DEF below
  <2>4. QED
    BY <2>3, <1>4, <1>8
<1>11. last + 1 \notin H
  <2>1. SUFFICES ASSUME last + 1 \in H PROVE FALSE
    OBVIOUS
  <2>2. \A y \in b .. (last + 1) : y = last + 1 \/ y \in b .. last
    BY ONLY <1>1, <1>9, b \in H
  <2>3. last + 1 \in above
    BY <2>1, <2>2, <1>1, <1>9
  <2> HIDE DEF above
  <2>4. QED
    BY <2>3, <1>7, <1>9
<1>12. \A y \in first .. last : y \in first .. b \/ y \in b .. last
  BY ONLY <1>1, <1>8, <1>9, b \in H
<1>13. QED
  BY ONLY <1>8, <1>9, <1>10, <1>11, <1>12

\* Every arrived block lies in an area.
LEMMA AreaAround ==
    ASSUME NEW t, NEW b \in BlocksIn(t, "ARRIVED")
    PROVE  \E r \in GetExistBlockAreas(t) : b \in r[1] .. r[2]
<1> DEFINE have == BlocksIn(t, "ARRIVED")
<1>1. have \subseteq 0 .. (NumBlocks - 1) /\ NumBlocks \in Nat /\ b \in have
  BY PacketAssumption DEF BlocksIn, Block
<1>2. PICK first, last \in have :
         /\ first <= b /\ b <= last
         /\ first .. last \subseteq have
         /\ first - 1 \notin have /\ last + 1 \notin have
  <2> HIDE DEF have
  <2>1. QED
    BY <1>1, RunAround
<1>3. first \in Int /\ last \in Int /\ b \in Int
  BY <1>1
<1>4. <<first, last>> \in GetExistBlockAreas(t)
  BY <1>2, <1>3 DEF GetExistBlockAreas
<1>5. QED
  BY <1>2, <1>3, <1>4

LEMMA AreasFinite ==
    ASSUME NEW t
    PROVE  /\ IsFiniteSet(GetExistBlockAreas(t))
           /\ GetExistBlockAreas(t) \subseteq Block \X Block
<1>1. GetExistBlockAreas(t) \subseteq Block \X Block
  BY DEF GetExistBlockAreas, BlocksIn
<1>2. IsFiniteSet(Block \X Block)
  <2>1. IsFiniteSet(Block)
    BY FS_Interval, PacketAssumption DEF Block
  <2>2. QED
    BY <2>1, FS_Product
<1>3. QED
  BY <1>1, <1>2, FS_Subset

\* What fits is told from the first area on, and all of it when the areas are
\* not too many.
LEMMA FitsFromFirst ==
    ASSUME NEW t
    PROVE  LET have == BlocksIn(t, "ARRIVED")
               told == Covered(FitInReply(GetExistBlockAreas(t)))
           IN  /\ \A b \in have, x \in told : b < x => b \in told
               /\ Cardinality(GetExistBlockAreas(t)) <= AreasMax => have \subseteq told
<1> DEFINE have == BlocksIn(t, "ARRIVED")
           all == GetExistBlockAreas(t)
           ahead(r) == {q \in all : q[1] < r[1]}
<1>1. IsFiniteSet(all) /\ all \subseteq Block \X Block /\ Block \subseteq Int
  BY AreasFinite, PacketAssumption DEF Block
<1>2. ASSUME NEW S \in SUBSET all, NEW R \in SUBSET S
      PROVE  /\ Cardinality(S) \in Nat /\ Cardinality(R) \in Nat
             /\ Cardinality(R) <= Cardinality(S)
  BY <1>1, FS_Subset, FS_CardinalityType
<1>3. ASSUME NEW r \in FitInReply(all)
      PROVE  r \in all /\ r[1] .. r[2] \subseteq Covered(FitInReply(all))
  BY DEF FitInReply, Covered
<1>4. ASSUME NEW b \in have, NEW x \in Covered(FitInReply(all)), b < x
      PROVE  b \in Covered(FitInReply(all))
  <2>1. PICK r \in FitInReply(all) : x \in r[1] .. r[2]
    BY DEF Covered
  <2>2. PICK q \in all : b \in q[1] .. q[2]
    BY AreaAround
  <2>3. r[1] \in Int /\ r[2] \in Int /\ q[1] \in Int /\ q[2] \in Int
    BY <1>1, <1>3
  <2>4. CASE r[1] < q[1]
    <3>1. b \in r[1] .. r[2]
      BY <1>4, <2>1, <2>2, <2>3, <2>4
    <3>2. QED
      BY <3>1, <1>3
  <2>5. CASE q[1] <= r[1]
    <3>1. ahead(q) \subseteq ahead(r) /\ ahead(r) \subseteq all
      <4>1. ASSUME NEW y \in all, y[1] < q[1] PROVE y[1] < r[1]
        <5>1. y[1] \in Int
          BY <1>1
        <5>2. QED
          BY ONLY <4>1, <5>1, <2>3, <2>5
      <4>2. QED
        BY <4>1
    <3>2. Cardinality(ahead(r)) < AreasMax
      BY DEF FitInReply
    <3>3. Cardinality(ahead(q)) < AreasMax
      BY <1>2, <3>1, <3>2, PacketAssumption
    <3>4. q \in FitInReply(all)
      BY <3>3 DEF FitInReply
    <3>5. QED
      BY <2>2, <3>4, <1>3
  <2>6. QED
    BY <2>3, <2>4, <2>5
<1>5. ASSUME NEW b \in have, Cardinality(all) <= AreasMax
      PROVE  b \in Covered(FitInReply(all))
  <2>1. PICK q \in all : b \in q[1] .. q[2]
    BY AreaAround
  <2>2. ahead(q) \subseteq all /\ ahead(q) # all
    <3>1. q[1] \in Int
      BY <1>1
    <3>2. q \notin ahead(q)
      BY <3>1
    <3>3. QED
      BY <3>2
  <2>3. Cardinality(ahead(q)) < Cardinality(all)
    BY <1>1, <1>2, <2>2, FS_Subset
  <2>4. Cardinality(ahead(q)) < AreasMax
    BY <1>2, <1>5, <2>2, <2>3, PacketAssumption
  <2>5. q \in FitInReply(all)
    BY <2>4 DEF FitInReply
  <2>6. QED
    BY <2>1, <2>5, <1>3
<1>6. QED
  BY <1>4, <1>5

\* Reports come from OnGetBlockArea only.
LEMMA ReportIsAreas ==
    ASSUME TypeOK, [Next]_vars, NEW m \in net' \ net,
           m.type = "GETBLOCK_AREA_RET", m.from \in Viewer
    PROVE  m.areas = Covered(FitInReply(GetExistBlockAreas(tab[m.from])))
<1>1. CASE UNCHANGED vars
  BY <1>1 DEF vars
<1>2. ASSUME NEW n, ViewerLoop(n) \/ SourceLoop(n) PROVE FALSE
  <2>1. \E asked : m \in Queries(n) \cup Requests(n, asked) \cup Answers(n)
    <3>1. CASE SourceLoop(n)
      BY <3>1 DEF SourceLoop, Send
    <3>2. CASE ViewerLoop(n)
      <4>1. PICK asked : Send(net, Queries(n) \cup Requests(n, asked) \cup Answers(n))
        BY <3>2 DEF ViewerLoop
      <4>2. QED
        BY <4>1 DEF Send
    <3>3. QED
      BY <1>2, <3>1, <3>2
  <2>2. QED
    BY <2>1 DEF Queries, Requests, Answers, GetBlockArea, GetSegment, GetSegmentRet
<1>3. ASSUME NEW k \in net, TransUdpCommand(k)
      PROVE  m.areas = Covered(FitInReply(GetExistBlockAreas(tab[m.from])))
  <2>1. CASE OnGetBlockArea(k)
    <3>1. PICK base \in Taken(k) :
             Send(base, {GetBlockAreaRet(k.to, k.from,
                            IF k.to \in Source THEN Advertised
                            ELSE Covered(FitInReply(GetExistBlockAreas(tab[k.to]))))})
      BY <2>1 DEF OnGetBlockArea
    <3>2. m = GetBlockAreaRet(k.to, k.from,
                 IF k.to \in Source THEN Advertised
                 ELSE Covered(FitInReply(GetExistBlockAreas(tab[k.to]))))
      BY <3>1 DEF Send, Taken
    <3>3. m.from = k.to /\ k.to \notin Source
      BY <3>2, TransferAssumption DEF GetBlockAreaRet
    <3>4. QED
      BY <3>2, <3>3 DEF GetBlockAreaRet
  <2>2. CASE OnGetBlockAreaRet(k) \/ OnGetSegment(k) \/ OnGetSegmentRet(k)
    BY <2>2 DEF OnGetBlockAreaRet, OnGetSegment, OnGetSegmentRet, Taken
  <2>3. QED
    BY <1>3, <2>1, <2>2 DEF TransUdpCommand
<1>4. ASSUME NEW k \in net, Lose(k) \/ Damage(k), k \in Message PROVE FALSE
  BY <1>4 DEF Lose, Damage, Message, GetSegmentRetMsg, GetSegmentMsg,
              GetBlockAreaMsg, GetBlockAreaRetMsg
<1>5. QED
  BY <1>1, <1>2, <1>3, <1>4
  DEF Next, TypeOK, Node, RequestSegment, AddPeer, DeletePeer, Leave, Tick

\* A report names arrived blocks only, from the first one on, and all of them
\* unless their areas are too many for its datagram (GetExistBlockAreas,
\* CCmdGetBlockAreaRet::Create).
THEOREM ReportsFromFirstHolds == Spec => ReportsFromFirst
<1>1. TypeOK /\ [Next]_vars =>
         [\A m \in net' \ net :
            m.type = "GETBLOCK_AREA_RET" /\ m.from \in Viewer =>
            LET have == BlocksIn(tab[m.from], "ARRIVED")
            IN  /\ m.areas \subseteq have
                /\ \A b \in have, x \in m.areas : b < x => b \in m.areas
                /\ Cardinality(GetExistBlockAreas(tab[m.from])) <= AreasMax
                      => have \subseteq m.areas]_vars
  BY ReportIsAreas, AreasHaveArrived, FitsFromFirst
<1>2. QED
  BY <1>1, TypeCorrect, PTL DEF Spec, ReportsFromFirst

=============================================================================
