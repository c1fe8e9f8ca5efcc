----------------------------- MODULE P2PTransfer ----------------------------
(***************************************************************************)
(* Block transfer of one channel between the clients that opened it: the   *)
(* CChannel of each node with its CP2PPacketMgr (block table) and its      *)
(* CP2PPeerMgr (what it knows of the other nodes), the handlers of         *)
(* CChannelMgr, and the UDP network between them, which loses, duplicates, *)
(* reorders and damages datagrams.  The UDP thread of a node runs Loop and *)
(* the handlers, the user's thread RequestSegment; all of them hold the    *)
(* lock of the channel manager, so each is one action.                     *)
(*                                                                         *)
(* The tracker's part is external here: it announces nodes to one another  *)
(* (AddPeer) and reports the ones that left (DeletePeer).                  *)
(***************************************************************************)
EXTENDS P2PPacketMgr

CONSTANTS
    Viewer,         \* user IDs of the nodes that download
    Source,         \* user IDs of the nodes that opened the file itself
    QueryInterval,  \* P2P_QUERYBLOCK_INTERVAL, in ticks
    SweepInterval,  \* the 1000 ms between two sweeps, in ticks
    SendBatch,      \* the 16 answers that one Loop shares out over the peers
    Window,         \* the 10 * 1000 blocks kept before the reading position
    Reads,          \* the <<first block, number of blocks>> a reader may ask for
    Leaving,        \* the viewers that may stop
    NetCap,         \* bound: datagrams in flight
    Garbage         \* the contents of a damaged datagram

ASSUME TransferAssumption ==
    /\ Viewer \subseteq Nat
    /\ Source \subseteq Nat
    /\ IsFiniteSet(Viewer)
    /\ IsFiniteSet(Source)
    /\ Viewer \cap Source = {}
    /\ QueryInterval \in Nat
    /\ SweepInterval \in Nat
    /\ SendBatch \in Nat
    /\ Window \in Nat
    /\ Reads \subseteq {r \in (0 .. NumBlocks) \X (0 .. NumBlocks) :
                          r[1] + r[2] <= NumBlocks}
    /\ Leaving \subseteq Viewer
    /\ NetCap \in Nat
    /\ Garbage \notin Int

Node == Viewer \cup Source

\* The block contents: block b of the file holds b, a damaged one Garbage.
Content == Block \cup {Garbage}

VARIABLES
    tab,    \* tab[n][b]: status of block b in the table of viewer n
    age,    \* age[n][b]: ticks since n last requested b (0 unless REQUESTED)
    buf,    \* buf[n][b]: the contents n stored for block b
    peers,  \* peers[n]: user IDs in the peer table of n
    areas,  \* areas[n][p]: the blocks p told n it holds (m_mapBlockAreas)
    need,   \* need[n][p]: the blocks p asked n for (m_mapNeedBlocks)
    qage,   \* qage[n]: ticks since the last QueryExistBlocks of n
    sage,   \* sage[n]: ticks since the last sweep of n
    up,     \* the nodes that still run
    net     \* the datagrams in flight

vars == <<tab, age, buf, peers, areas, need, qage, sage, up, net>>

table == <<tab, age, buf>>
known == <<peers, areas, need>>
timers == <<qage, sage>>

-----------------------------------------------------------------------------
(* Datagrams *)

\* A source advertises one block more than the file has, see OnGetBlockArea.
Advertised == 0 .. NumBlocks

GetBlockAreaMsg == [type : {"GETBLOCK_AREA"}, from : Node, to : Node]
GetBlockAreaRetMsg ==
    [type : {"GETBLOCK_AREA_RET"}, from : Node, to : Node,
     areas : SUBSET Advertised]
GetSegmentMsg ==
    [type : {"GETSEGMENT"}, from : Node, to : Node, want : SUBSET Block]
GetSegmentRetMsg ==
    [type : {"GETSEGMENT_RET"}, from : Node, to : Node, block : Block,
     data : Content, sum : Content]

\* The commands OnRecvUdpData parses that move blocks.  Of the others it knows,
\* handshakes only learn addresses, CANCELSEGMENT and EXIT are sent by nobody,
\* and the rest have empty handlers.
Message == GetBlockAreaMsg \cup GetBlockAreaRetMsg
             \cup GetSegmentMsg \cup GetSegmentRetMsg

GetBlockArea(n, p) == [type |-> "GETBLOCK_AREA", from |-> n, to |-> p]
GetBlockAreaRet(n, p, bs) ==
    [type |-> "GETBLOCK_AREA_RET", from |-> n, to |-> p, areas |-> bs]
GetSegment(n, p, bs) ==
    [type |-> "GETSEGMENT", from |-> n, to |-> p, want |-> bs]
GetSegmentRet(n, p, b, d) ==
    [type |-> "GETSEGMENT_RET", from |-> n, to |-> p, block |-> b,
     data |-> d, sum |-> d]

\* Datagrams that find the network full are lost.
Send(base, msgs) ==
    \E kept \in SUBSET msgs :
        /\ \/ kept = msgs /\ Cardinality(base \cup msgs) <= NetCap
           \/ Cardinality(base \cup msgs) > NetCap
              /\ Cardinality(base \cup kept) = NetCap
        /\ net' = base \cup kept

\* A datagram is taken from the network, or a copy of it stays behind.
Taken(m) == {net, net \ {m}}

-----------------------------------------------------------------------------
(* CP2PPeerMgr: what Loop requests, and from whom *)

\* GetSortBySpeed: peers with known areas in the order of their IDs, the
\* sources after all others.
Candidate(n) == {p \in peers[n] : areas[n][p] # {}}
Earlier(p, q) == \/ p \in Viewer /\ q \in Source
                 \/ (p \in Source <=> q \in Source) /\ p < q
Before(n, p) == {q \in Candidate(n) : Earlier(q, p)}

IsHaveBlock(n, p, b) == p \in Source \/ b \in areas[n][p]

\* Mutant of Take: also the blocks behind a gap in what p has.
TakeWithGaps(n, p, c, run) ==
    {b \in run : c <= b /\ b < c + RequestMax /\ IsHaveBlock(n, p, b)}

\* What p is asked for when the run that is to be requested is left from
\* block c on: consecutive blocks p has, at most RequestMax.
Take(n, p, c, run) ==
    {b \in run : /\ c <= b
                 /\ b < c + RequestMax
                 /\ \A x \in c .. b : IsHaveBlock(n, p, x)}

\* Mutant of Past: the next peer starts where this one did.
PastNothing(c, taken) == c

\* c is where the next peer goes on: behind the blocks that p was asked for.
Past(c, taken) == IF taken = {} THEN c
                  ELSE CHOOSE x \in 1 .. NumBlocks :
                          x - 1 \in taken /\ x \notin taken

\* SendGetSegment walks over the candidates; cursor[p] is where it reaches p.
Walk(n, run) ==
    {cursor \in [Candidate(n) -> 0 .. NumBlocks] :
        \A p \in Candidate(n) :
            IF run = {} THEN cursor[p] = 0
            ELSE IF Before(n, p) = {}
                 THEN cursor[p] \in run /\ \A x \in run : cursor[p] <= x
                 ELSE \E q \in Before(n, p) :
                        /\ \A r \in Before(n, p) : r = q \/ Earlier(r, q)
                        /\ cursor[p] = Past(cursor[q], Take(n, q, cursor[q], run))}

\* The answers one Loop sends to p: the lowest blocks p asked for.
Batch(n, p) ==
    LET quota == (SendBatch \div Cardinality(peers[n])) + 1
    IN  {b \in need[n][p] : Cardinality({x \in need[n][p] : x < b}) < quota}

\* A source answers from its file, a viewer only from an arrived block.
Holds(n, b) == n \in Source \/ tab[n][b] = "ARRIVED"
Stored(n, b) == IF n \in Source THEN b ELSE buf[n][b]

Answers(n) ==
    LET due == {x \in peers[n] \X Block : x[2] \in Batch(n, x[1]) /\ Holds(n, x[2])}
    IN  {GetSegmentRet(n, x[1], x[2], Stored(n, x[2])) : x \in due}

-----------------------------------------------------------------------------
(* Actions of the user and of the tracker *)

\* The reader asks for num blocks from block b on; one that has moved far
\* into the file drops the blocks too far behind it, and all those ahead.
RequestSegment(n, b, num) ==
    /\ n \in up \cap Viewer
    /\ LET moved == IF b > Window THEN RemoveBlock(tab[n], b - Window, b + num)
                                  ELSE tab[n]
           wanted == InsertShouldBlock(moved, b, num)
       IN  /\ tab' = [tab EXCEPT ![n] = wanted]
           /\ age' = [age EXCEPT ![n] =
                        [x \in Block |-> IF wanted[x] = "REQUESTED"
                                         THEN age[n][x] ELSE 0]]
           /\ buf' = [buf EXCEPT ![n] =
                        [x \in Block |-> IF wanted[x] = "ARRIVED"
                                         THEN buf[n][x] ELSE Garbage]]
    /\ UNCHANGED <<known, timers, up, net>>

\* GETPEERS_RET, PEERLOGIN: a node already known keeps its entry.  The list may
\* be old, and name a node that has left (the run tracker_ghost).
AddPeer(n, p) ==
    /\ n \in up
    /\ p \in Node \ ({n} \cup peers[n])
    /\ peers' = [peers EXCEPT ![n] = @ \cup {p}]
    /\ areas' = [areas EXCEPT ![n][p] = {}]
    /\ need' = [need EXCEPT ![n][p] = {}]
    /\ UNCHANGED <<table, timers, up, net>>

\* Mutant of DeletePeer: the peer stays in the table.
DeletePeerNot(n, p) ==
    /\ n \in up
    /\ p \in peers[n]
    /\ UNCHANGED vars

\* PEERLOGOUT: the tracker saw p log out or its link close; p may be back by
\* the time the notice is read.
DeletePeer(n, p) ==
    /\ n \in up
    /\ p \in peers[n]
    /\ peers' = [peers EXCEPT ![n] = @ \ {p}]
    /\ areas' = [areas EXCEPT ![n][p] = {}]
    /\ need' = [need EXCEPT ![n][p] = {}]
    /\ UNCHANGED <<table, timers, up, net>>

\* A viewer stops, or loses its way to the network, without a word.
Leave(n) ==
    /\ n \in up \cap Leaving
    /\ up' = up \ {n}
    /\ UNCHANGED <<table, known, timers, net>>

-----------------------------------------------------------------------------
(* CChannel::Loop, called between two datagrams *)

\* QueryExistBlocks, when its interval has elapsed.
Queries(n) == IF qage[n] > QueryInterval THEN {GetBlockArea(n, p) : p \in peers[n]}
                                         ELSE {}

\* The requests when peer p is asked for the blocks asked[p].
Requests(n, asked) ==
    {GetSegment(n, p, asked[p]) : p \in {q \in DOMAIN asked : asked[q] # {}}}

\* The ages and the table of n after it asked for the blocks all and swept.
AgeAfter(n, all) == [b \in Block |-> IF b \in all THEN 0 ELSE age[n][b]]
TableAfter(n, all) ==
    LET made == UpdatePacketStatus(tab[n], all)
    IN  IF sage[n] > SweepInterval THEN UpdateTimeOutStatus(made, AgeAfter(n, all))
                                   ELSE made

ViewerLoop(n) ==
    /\ n \in up \cap Viewer
    /\ \E cursor \in Walk(n, GetShouldBlock(tab[n])) :
          LET asked == [p \in Candidate(n) |->
                          Take(n, p, cursor[p], GetShouldBlock(tab[n]))]
              all == UNION {asked[p] : p \in Candidate(n)}
          IN  /\ tab' = [tab EXCEPT ![n] = TableAfter(n, all)]
              /\ age' = [age EXCEPT ![n] =
                           [b \in Block |-> IF TableAfter(n, all)[b] = "REQUESTED"
                                            THEN AgeAfter(n, all)[b] ELSE 0]]
              /\ Send(net, Queries(n) \cup Requests(n, asked) \cup Answers(n))
    /\ qage' = [qage EXCEPT ![n] = IF @ > QueryInterval THEN 0 ELSE @]
    /\ sage' = [sage EXCEPT ![n] = IF @ > SweepInterval THEN 0 ELSE @]
    /\ need' = [need EXCEPT ![n] = [p \in Node |-> @[p] \ Batch(n, p)]]
    /\ UNCHANGED <<buf, peers, areas, up>>

SourceLoop(n) ==
    /\ n \in up \cap Source
    /\ Send(net, Answers(n))
    /\ need' = [need EXCEPT ![n] = [p \in Node |-> @[p] \ Batch(n, p)]]
    /\ UNCHANGED <<table, peers, areas, timers, up>>

-----------------------------------------------------------------------------
(* Handlers of CChannelMgr *)

OnGetBlockArea(m) ==
    /\ m.type = "GETBLOCK_AREA"
    /\ \E base \in Taken(m) :
          Send(base, {GetBlockAreaRet(m.to, m.from,
                         IF m.to \in Source THEN Advertised
                         ELSE Covered(FitInReply(GetExistBlockAreas(tab[m.to]))))})
    /\ UNCHANGED <<table, known, timers, up>>

OnGetBlockAreaRet(m) ==
    /\ m.type = "GETBLOCK_AREA_RET"
    /\ areas' = IF m.from \in peers[m.to]
                THEN [areas EXCEPT ![m.to][m.from] = m.areas] ELSE areas
    /\ net' \in Taken(m)
    /\ UNCHANGED <<table, peers, need, timers, up>>

OnGetSegment(m) ==
    /\ m.type = "GETSEGMENT"
    /\ LET list == IF m.to \in Source THEN m.want
                   ELSE GetExistBlockList(tab[m.to], m.want)
       IN  need' = IF m.from \in peers[m.to]
                   THEN [need EXCEPT ![m.to][m.from] = @ \cup list] ELSE need
    /\ net' \in Taken(m)
    /\ UNCHANGED <<table, peers, areas, timers, up>>

\* Mutant of OnGetSegmentRet: the checksum is not compared.
OnGetSegmentRetUnchecked(m) ==
    /\ m.type = "GETSEGMENT_RET"
    /\ IF m.to \in Viewer /\ PacketArrived(tab[m.to], m.block)
       THEN /\ tab' = [tab EXCEPT ![m.to][m.block] = "ARRIVED"]
            /\ age' = [age EXCEPT ![m.to][m.block] = 0]
            /\ buf' = [buf EXCEPT ![m.to][m.block] = m.data]
       ELSE UNCHANGED table
    /\ net' \in Taken(m)
    /\ UNCHANGED <<known, timers, up>>

\* The answer is stored when its checksum fits and somebody waits for it.
OnGetSegmentRet(m) ==
    /\ m.type = "GETSEGMENT_RET"
    /\ IF /\ m.to \in Viewer
          /\ m.sum = m.data
          /\ PacketArrived(tab[m.to], m.block)
       THEN /\ tab' = [tab EXCEPT ![m.to][m.block] = "ARRIVED"]
            /\ age' = [age EXCEPT ![m.to][m.block] = 0]
            /\ buf' = [buf EXCEPT ![m.to][m.block] = m.data]
       ELSE UNCHANGED table
    /\ net' \in Taken(m)
    /\ UNCHANGED <<known, timers, up>>

TransUdpCommand(m) ==
    /\ m.to \in up
    /\ \/ OnGetBlockArea(m)
       \/ OnGetBlockAreaRet(m)
       \/ OnGetSegment(m)
       \/ OnGetSegmentRet(m)

-----------------------------------------------------------------------------
(* The network and the clock *)

Lose(m) ==
    /\ net' = net \ {m}
    /\ UNCHANGED <<table, known, timers, up>>

\* Damage the checksum of the datagram shows.
Damage(m) ==
    /\ m.type = "GETSEGMENT_RET"
    /\ net' = (net \ {m}) \cup {[m EXCEPT !.data = Garbage]}
    /\ UNCHANGED <<table, known, timers, up>>

Older(a, limit) == IF a > limit THEN a ELSE a + 1

Tick ==
    /\ age' = [n \in Viewer |-> [b \in Block |->
                 IF tab[n][b] = "REQUESTED" THEN Older(age[n][b], RequestTimeout)
                                            ELSE age[n][b]]]
    /\ qage' = [n \in Viewer |-> Older(qage[n], QueryInterval)]
    /\ sage' = [n \in Viewer |-> Older(sage[n], SweepInterval)]
    /\ UNCHANGED <<tab, buf, known, up, net>>

-----------------------------------------------------------------------------

Init ==
    /\ tab = [n \in Viewer |-> [b \in Block |-> "ABSENT"]]
    /\ age = [n \in Viewer |-> [b \in Block |-> 0]]
    /\ buf = [n \in Viewer |-> [b \in Block |-> Garbage]]
    /\ peers = [n \in Node |-> {}]
    /\ areas = [n \in Node |-> [p \in Node |-> {}]]
    /\ need = [n \in Node |-> [p \in Node |-> {}]]
    /\ qage = [n \in Viewer |-> 0]
    /\ sage = [n \in Viewer |-> 0]
    /\ up = Node
    /\ net = {}

Next ==
    \/ \E n \in Viewer : \E r \in Reads : RequestSegment(n, r[1], r[2])
    \/ \E n, p \in Node : AddPeer(n, p) \/ DeletePeer(n, p)
    \/ \E n \in Viewer : Leave(n) \/ ViewerLoop(n)
    \/ \E n \in Source : SourceLoop(n)
    \/ \E m \in net : TransUdpCommand(m) \/ Lose(m) \/ Damage(m)
    \/ Tick

Spec == Init /\ [][Next]_vars

-----------------------------------------------------------------------------
(* Fairness *)

\* A datagram from p to n that some step of n's handlers makes use of.
Deliver(n, p, Useful(_)) ==
    \E m \in net : /\ m.from = p /\ m.to = n
                   /\ Useful(m)
                   /\ TransUdpCommand(m)

\* The UDP thread of each node comes to Loop whenever no datagram has been
\* waiting for a millisecond: again and again, as long as the others do not
\* keep its socket busy all the time.  Time passes, and the tracker reports
\* what it sees.
ThreadsRun(running) ==
    /\ WF_vars(Tick)
    /\ \A n \in running \cap Viewer : WF_vars(ViewerLoop(n))
    /\ \A n \in running \cap Source : WF_vars(SourceLoop(n))
    /\ \A n, p \in running : WF_vars(AddPeer(n, p))
    /\ \A n \in running, p \in Node \ running : WF_vars(DeletePeer(n, p))

\* A link that does not lose everything: of the datagrams of a kind that are
\* sent on it again and again one gets through.  And one that is not always
\* too slow: again and again a request reaches p, is answered by p, and the
\* answer reaches n undamaged, before the request times out.
InTime(n, b) == tab[n][b] = "REQUESTED"

LinkWorks(n, p) ==
    /\ SF_vars(Deliver(p, n, LAMBDA m : m.type = "GETBLOCK_AREA"))
    /\ SF_vars(Deliver(n, p, LAMBDA m : m.type = "GETBLOCK_AREA_RET"))
    /\ \A b \in Block :
        /\ SF_vars(Deliver(p, n, LAMBDA m : /\ m.type = "GETSEGMENT"
                                            /\ b \in m.want
                                            /\ InTime(n, b)))
        /\ SF_vars(SourceLoop(p) /\ b \in Batch(p, n) /\ InTime(n, b))
        /\ SF_vars(Deliver(n, p, LAMBDA m : /\ m.type = "GETSEGMENT_RET"
                                            /\ m.block = b
                                            /\ m.sum = m.data
                                            /\ InTime(n, b)))

\* The assumption of the liveness runs: of the nodes that run, the viewers
\* reach the sources.
Fairness(running) ==
    /\ ThreadsRun(running)
    /\ \A n \in running \cap Viewer, p \in running \cap Source : LinkWorks(n, p)

-----------------------------------------------------------------------------
(* Properties *)

\* Every variable has its type.
TypeOK ==
    /\ tab \in [Viewer -> [Block -> Status]]
    /\ age \in [Viewer -> [Block -> Age]]
    /\ buf \in [Viewer -> [Block -> Content]]
    /\ peers \in [Node -> SUBSET Node]
    /\ areas \in [Node -> [Node -> SUBSET Advertised]]
    /\ need \in [Node -> [Node -> SUBSET Block]]
    /\ qage \in [Viewer -> 0 .. (QueryInterval + 1)]
    /\ sage \in [Viewer -> 0 .. (SweepInterval + 1)]
    /\ up \in SUBSET Node
    /\ net \in SUBSET Message

\* What a reader gets is the file: a block that counts as arrived holds the
\* contents of that block, whichever node it came from and however many of
\* the answers were late, repeated or damaged on the way.
Integrity ==
    \A n \in Viewer : \A b \in Block : tab[n][b] = "ARRIVED" => buf[n][b] = b

\* As long as no reader drops blocks behind it, nothing promised is missing:
\* what one viewer believes another one to hold, what is on its way to tell
\* it so, and what is queued to be sent, the other really holds.
PromisesAreKept ==
    Window >= NumBlocks =>
        \A p \in Viewer :
            LET have == BlocksIn(tab[p], "ARRIVED")
            IN  /\ \A n \in Node : areas[n][p] \subseteq have
                /\ \A n \in Node : need[p][n] \subseteq have
                /\ \A m \in net : m.type = "GETBLOCK_AREA_RET" /\ m.from = p
                                    => m.areas \subseteq have

\* An arrived block is never lost to a late or repeated datagram, a timeout
\* or a new request: only the reader's own move, by more than Window blocks,
\* drops it.
ArrivedIsKept ==
    [][\A n \in Viewer : \A b \in Block :
          tab[n][b] = "ARRIVED" /\ tab'[n][b] # "ARRIVED" =>
              /\ tab'[n][b] = "ABSENT"
              /\ \E c \in Window + 1 .. NumBlocks :
                    /\ b < c - Window \/ b > c
                    /\ \A x \in Block : x < c - Window => tab'[n][x] = "ABSENT"
      ]_vars

\* The requests a viewer sends ask for blocks of which none is outstanding,
\* and no block is asked of two peers at once.
OneRequestPerBlock ==
    [][\A m \in net' \ net : m.type = "GETSEGMENT" =>
          /\ \A b \in m.want : /\ tab[m.from][b] = "NONE"
                               /\ tab'[m.from][b] = "REQUESTED"
          /\ \A k \in net' \ net :
                k.type = "GETSEGMENT" /\ k.from = m.from /\ k # m
                    => k.want \cap m.want = {}
      ]_vars

\* One Loop asks for the run of missing blocks from its first block on and
\* leaves out none, whatever areas the peers have told and however the run is
\* shared out; and it does ask for something when it knows a source, which has
\* what no peer has (the comment at Channel.cpp:334).
NoBlockSkipped ==
    [][\A n \in Viewer : ViewerLoop(n) =>
          LET run == GetShouldBlock(tab[n])
              asked == {b \in run : tab'[n][b] = "REQUESTED"}
          IN  /\ \A b \in asked, x \in run : x < b => x \in asked
              /\ run # {} /\ Candidate(n) \cap Source # {} => asked # {}
      ]_vars

\* A viewer's report names only blocks that have arrived, and names them from
\* the first one on: what its datagram has no room for lies behind all it
\* names, and only a list of more than AreasMax areas is cut off
\* (GetExistBlockAreas, CCmdGetBlockAreaRet::Create).
ReportsFromFirst ==
    [][\A m \in net' \ net :
          m.type = "GETBLOCK_AREA_RET" /\ m.from \in Viewer =>
          LET have == BlocksIn(tab[m.from], "ARRIVED")
          IN  /\ m.areas \subseteq have
              /\ \A b \in have, x \in m.areas : b < x => b \in m.areas
              /\ Cardinality(GetExistBlockAreas(tab[m.from])) <= AreasMax
                    => have \subseteq m.areas
      ]_vars

\* The transfer implements BlockStore: a block without an entry is missing,
\* one that has an entry and has not arrived is wanted.
Store ==
    INSTANCE BlockStore WITH
        Reader <- Viewer, Missing <- -1, Wanted <- -2,
        store <- [n \in Viewer |-> [b \in Block |->
                    CASE tab[n][b] = "ABSENT" -> -1
                      [] tab[n][b] = "ARRIVED" -> buf[n][b]
                      [] OTHER -> -2]]

\* Whatever the network does, a reader sees only what BlockStore allows.
ImplementsStore == Store!SafeSpec

\* A block a running reader wants arrives, or the reader moves away from it,
\* though datagrams are lost, damaged and late, and requests time out.
WantedArrives ==
    \A n \in Viewer : \A b \in Block :
        tab[n][b] \in {"NONE", "REQUESTED"} /\ n \in up
            ~> tab[n][b] \in {"ARRIVED", "ABSENT"} \/ n \notin up

=============================================================================
