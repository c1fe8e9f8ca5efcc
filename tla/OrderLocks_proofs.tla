-------------------------- MODULE OrderLocks_proofs --------------------------
(***************************************************************************)
(* Proofs about OrderLocks, for any number of worker threads: a handler    *)
(* takes its locks in ascending order, so no threads wait in a circle, and *)
(* it touches a table under its lock only, so no two threads collide.      *)
(***************************************************************************)
EXTENDS OrderLocks, TLAPS

(* What is true of every point of every handler.                           *)
GoodPoint(p) ==
    /\ p.held \subseteq Lock
    /\ \A x \in {"channels", "database"} :
          x \in p.looks \cup p.changes => Channels \in p.held
    /\ "sendlist" \in p.looks \cup p.changes => SendList \in p.held
    /\ "clients" \in p.changes => Clients \in p.held
    /\ "clients" \in p.looks => Clients \in p.held \/ p = TellsUnlocked

(* A thread that holds A and needs B lacks at most one lock, the highest.  *)
Takes(A, B) == \A l \in B \ A : \A k \in B : k = l \/ (k \in A /\ k < l)

GoodHandler(h) ==
    /\ Len(h) \in Nat \ {0}
    /\ \A i \in 1 .. Len(h) : GoodPoint(h[i])
    /\ \A i \in 1 .. Len(h) - 1 : Takes(h[i].held, h[i + 1].held)
    /\ Takes({}, h[1].held)

-----------------------------------------------------------------------------
LEMMA OneGood ==
    ASSUME NEW p1,
           GoodPoint(p1),
           Takes({}, p1.held)
    PROVE  GoodHandler(<<p1>>)
  BY DEF GoodHandler

LEMMA TwoGood ==
    ASSUME NEW p1, NEW p2,
           GoodPoint(p1), GoodPoint(p2),
           Takes({}, p1.held),
           Takes(p1.held, p2.held)
    PROVE  GoodHandler(<<p1, p2>>)
  BY DEF GoodHandler

LEMMA ThreeGood ==
    ASSUME NEW p1, NEW p2, NEW p3,
           GoodPoint(p1), GoodPoint(p2), GoodPoint(p3),
           Takes({}, p1.held),
           Takes(p1.held, p2.held),
           Takes(p2.held, p3.held)
    PROVE  GoodHandler(<<p1, p2, p3>>)
  BY DEF GoodHandler

LEMMA FourGood ==
    ASSUME NEW p1, NEW p2, NEW p3, NEW p4,
           GoodPoint(p1), GoodPoint(p2), GoodPoint(p3), GoodPoint(p4),
           Takes({}, p1.held),
           Takes(p1.held, p2.held),
           Takes(p2.held, p3.held),
           Takes(p3.held, p4.held)
    PROVE  GoodHandler(<<p1, p2, p3, p4>>)
  BY DEF GoodHandler

LEMMA FiveGood ==
    ASSUME NEW p1, NEW p2, NEW p3, NEW p4, NEW p5,
           GoodPoint(p1), GoodPoint(p2), GoodPoint(p3), GoodPoint(p4),
           GoodPoint(p5),
           Takes({}, p1.held),
           Takes(p1.held, p2.held),
           Takes(p2.held, p3.held),
           Takes(p3.held, p4.held),
           Takes(p4.held, p5.held)
    PROVE  GoodHandler(<<p1, p2, p3, p4, p5>>)
  BY DEF GoodHandler

LEMMA SevenGood ==
    ASSUME NEW p1, NEW p2, NEW p3, NEW p4, NEW p5, NEW p6, NEW p7,
           GoodPoint(p1), GoodPoint(p2), GoodPoint(p3), GoodPoint(p4),
           GoodPoint(p5), GoodPoint(p6), GoodPoint(p7),
           Takes({}, p1.held),
           Takes(p1.held, p2.held),
           Takes(p2.held, p3.held),
           Takes(p3.held, p4.held),
           Takes(p4.held, p5.held),
           Takes(p5.held, p6.held),
           Takes(p6.held, p7.held)
    PROVE  GoodHandler(<<p1, p2, p3, p4, p5, p6, p7>>)
  BY DEF GoodHandler

(* The points the handlers are made of.                                    *)
LEMMA PointGood ==
    ASSUME NEW locks \in SUBSET Lock, NEW looks \in SUBSET Table,
           NEW changes \in SUBSET Table,
           \A x \in looks \cup changes : 
              /\ x \in {"channels", "database"} => Channels \in locks
              /\ x = "sendlist" => SendList \in locks
              /\ x = "clients" => Clients \in locks
    PROVE  /\ GoodPoint(Point(locks, looks, changes))
           /\ GoodPoint(OrReturn(Point(locks, looks, changes)))
           /\ Point(locks, looks, changes).held = locks
           /\ OrReturn(Point(locks, looks, changes)).held = locks
  BY DEF GoodPoint, Point, OrReturn, Table

LEMMA ApartGood == GoodPoint(Apart) /\ Apart.held = {}
  BY DEF GoodPoint, Point, Apart

LEMMA PushGood ==
    ASSUME NEW A \in SUBSET Lock
    PROVE  /\ GoodPoint(Push(A)) /\ GoodPoint(OrReturn(Push(A)))
           /\ Push(A).held = A \cup {SendList}
           /\ OrReturn(Push(A)).held = A \cup {SendList}
<1>1. A \cup {SendList} \in SUBSET Lock
  BY DEF Lock, SendList
<1>2. QED
  BY <1>1, PointGood DEF Push, Table

LEMMA TellsGood == GoodPoint(TellsUnlocked) /\ TellsUnlocked.held = {Channels}
  BY DEF GoodPoint, TellsUnlocked, Point, Lock, Channels

(* Locks that are taken in ascending order, and dropped in any.            *)
LEMMA TakesUp ==
    /\ \A A \in SUBSET Lock : Takes(A, {}) /\ Takes(A, A)
    /\ \A l \in Lock : Takes({}, {l})
    /\ Takes({Channels, Clients}, {Channels})
    /\ Takes({Channels}, {Channels, Clients})
    /\ Takes({Channels}, {Channels, SendList})
    /\ Takes({Channels, SendList}, {Channels})
    /\ Takes({Channels, SendList}, {Channels, Clients})
    /\ Takes({Clients}, {Clients, SendList})
    /\ Takes({Channels, Clients}, {Channels, Clients, SendList})
    /\ Takes({Channels, Clients, SendList}, {Channels})
    /\ Takes({Clients}, {SendList})
<1>1. \A A \in SUBSET Lock : Takes(A, {}) /\ Takes(A, A)
  BY DEF Takes
<1>2. \A l \in Lock : Takes({}, {l})
  BY DEF Takes
<1>3. Takes({Channels, Clients}, {Channels})
  BY DEF Takes, Channels, Clients, SendList
<1>4. Takes({Channels}, {Channels, Clients})
  BY DEF Takes, Channels, Clients, SendList
<1>5. Takes({Channels}, {Channels, SendList})
  BY DEF Takes, Channels, Clients, SendList
<1>6. Takes({Channels, SendList}, {Channels})
  BY DEF Takes, Channels, Clients, SendList
<1>7. Takes({Channels, SendList}, {Channels, Clients})
  BY DEF Takes, Channels, Clients, SendList
<1>8. Takes({Clients}, {Clients, SendList})
  BY DEF Takes, Channels, Clients, SendList
<1>9. Takes({Channels, Clients}, {Channels, Clients, SendList})
  BY DEF Takes, Channels, Clients, SendList
<1>10. Takes({Channels, Clients, SendList}, {Channels})
  BY DEF Takes, Channels, Clients, SendList
<1>11. Takes({Clients}, {SendList})
  BY DEF Takes, Channels, Clients, SendList
<1>12. QED
  BY <1>1, <1>2, <1>3, <1>4, <1>5, <1>6, <1>7, <1>8, <1>9, <1>10, <1>11

(* The handlers, one by one.                                               *)
LEMMA OnAcceptGood == GoodHandler(onAccept)
<1> DEFINE p == Point({Clients}, {}, {"clients"})
           q == Point({Clients}, {"clients"}, {})
<1>1. GoodPoint(p) /\ p.held = {Clients}
  BY PointGood DEF Lock, Table, Channels, Clients
<1>2. GoodPoint(q) /\ q.held = {Clients}
  BY PointGood DEF Lock, Table, Channels, Clients
<1> HIDE DEF p, q
<1>3. Channels \in Lock /\ Clients \in Lock /\ SendList \in Lock
  BY DEF Lock, Channels, Clients, SendList
<1>4. {Channels} \in SUBSET Lock /\ {Clients} \in SUBSET Lock
      /\ {SendList} \in SUBSET Lock /\ {Clients, SendList} \in SUBSET Lock
  BY <1>3
<1>5. GoodHandler(<<p, Apart, q>>)
  BY <1>1, <1>2, ApartGood, <1>3, <1>4, TakesUp, ThreeGood
<1>6. QED
  BY <1>5 DEF onAccept, p, q

LEMMA OnConnectGood == GoodHandler(OnConnect)
<1> DEFINE p == OrReturn(Point({Clients}, {}, {"clients"}))
           push == Push({})
<1>1. GoodPoint(p) /\ p.held = {Clients}
  BY PointGood DEF Lock, Table, Channels, Clients
<1>2. GoodPoint(push) /\ push.held = {SendList}
  <2>1. {} \in SUBSET Lock
    BY DEF Lock, Channels, Clients
  <2>2. {} \cup {SendList} = {SendList}
    OBVIOUS
  <2>3. QED
    BY <2>1, <2>2, PushGood
<1> HIDE DEF p, push
<1>3. Channels \in Lock /\ Clients \in Lock /\ SendList \in Lock
  BY DEF Lock, Channels, Clients, SendList
<1>4. {Channels} \in SUBSET Lock /\ {Clients} \in SUBSET Lock
      /\ {SendList} \in SUBSET Lock /\ {Clients, SendList} \in SUBSET Lock
  BY <1>3
<1>5. GoodHandler(<<p, push>>)
  BY <1>1, <1>2, <1>3, <1>4, TakesUp, TwoGood
<1>6. QED
  BY <1>5 DEF OnConnect, p, push

LEMMA OnLoginChannelGood == GoodHandler(OnLoginChannel)
<1> DEFINE p == Point({Channels}, {}, {"channels", "database"})
           push == Push({Channels})
           q == OrReturn(Point({Channels, Clients}, {"channels", "clients"}, {}))
           push2 == Push({Channels, Clients})
<1>1. GoodPoint(p) /\ p.held = {Channels}
  BY PointGood DEF Lock, Table, Channels, Clients
<1>2. GoodPoint(q) /\ q.held = {Channels, Clients}
  BY PointGood DEF Lock, Table, Channels, Clients
<1>3. GoodPoint(push) /\ push.held = {Channels, SendList}
  <2>1. {Channels} \in SUBSET Lock
    BY DEF Lock, Channels, Clients
  <2>2. {Channels} \cup {SendList} = {Channels, SendList}
    OBVIOUS
  <2>3. QED
    BY <2>1, <2>2, PushGood
<1>4. GoodPoint(push2) /\ push2.held = {Channels, Clients, SendList}
  <2>1. {Channels, Clients} \in SUBSET Lock
    BY DEF Lock, Channels, Clients
  <2>2. {Channels, Clients} \cup {SendList} = {Channels, Clients, SendList}
    OBVIOUS
  <2>3. QED
    BY <2>1, <2>2, PushGood
<1> HIDE DEF p, push, q, push2
<1>5. Channels \in Lock /\ Clients \in Lock /\ SendList \in Lock
  BY DEF Lock, Channels, Clients, SendList
<1>6. {Channels} \in SUBSET Lock /\ {Clients} \in SUBSET Lock
      /\ {SendList} \in SUBSET Lock /\ {Clients, SendList} \in SUBSET Lock
  BY <1>5
<1>7. GoodHandler(<<p, push, q, push2>>)
  BY <1>1, <1>2, <1>3, <1>4, <1>5, <1>6, TakesUp, FourGood
<1>8. QED
  BY <1>7 DEF OnLoginChannel, p, push, q, push2

LEMMA OnLogoutChannelGood == GoodHandler(OnLogoutChannel)
<1> DEFINE p == OrReturn(Point({Channels}, {}, {"channels"}))
           push == Push({Channels})
           q == OrReturn(Point({Channels, Clients}, {"channels", "clients"}, {}))
           push2 == OrReturn(Push({Channels, Clients}))
           r == Point({Channels}, {}, {"channels", "database"})
<1>1. GoodPoint(p) /\ p.held = {Channels}
  BY PointGood DEF Lock, Table, Channels, Clients
<1>2. GoodPoint(q) /\ q.held = {Channels, Clients}
  BY PointGood DEF Lock, Table, Channels, Clients
<1>3. GoodPoint(r) /\ r.held = {Channels}
  BY PointGood DEF Lock, Table, Channels, Clients
<1>4. GoodPoint(push) /\ push.held = {Channels, SendList}
  <2>1. {Channels} \in SUBSET Lock
    BY DEF Lock, Channels, Clients
  <2>2. {Channels} \cup {SendList} = {Channels, SendList}
    OBVIOUS
  <2>3. QED
    BY <2>1, <2>2, PushGood
<1>5. GoodPoint(push2) /\ push2.held = {Channels, Clients, SendList}
  <2>1. {Channels, Clients} \in SUBSET Lock
    BY DEF Lock, Channels, Clients
  <2>2. {Channels, Clients} \cup {SendList} = {Channels, Clients, SendList}
    OBVIOUS
  <2>3. QED
    BY <2>1, <2>2, PushGood
<1> HIDE DEF p, push, q, push2, r
<1>6. Channels \in Lock /\ Clients \in Lock /\ SendList \in Lock
  BY DEF Lock, Channels, Clients, SendList
<1>7. {Channels} \in SUBSET Lock /\ {Clients} \in SUBSET Lock
      /\ {SendList} \in SUBSET Lock /\ {Clients, SendList} \in SUBSET Lock
  BY <1>6
<1>8. GoodHandler(<<p, push, q, push2, r>>)
  BY <1>1, <1>2, <1>3, <1>4, <1>5, <1>6, <1>7, TakesUp, FiveGood
<1>9. QED
  BY <1>8 DEF OnLogoutChannel, p, push, q, push2, r

LEMMA OnGetPeersGood == GoodHandler(OnGetPeers)
<1> DEFINE p == OrReturn(Point({Channels}, {"channels"}, {}))
           q == OrReturn(Point({Clients}, {"clients"}, {}))
           push == Push({})
<1>1. GoodPoint(p) /\ p.held = {Channels}
  BY PointGood DEF Lock, Table, Channels, Clients
<1>2. GoodPoint(q) /\ q.held = {Clients}
  BY PointGood DEF Lock, Table, Channels, Clients
<1>3. GoodPoint(push) /\ push.held = {SendList}
  <2>1. {} \in SUBSET Lock
    BY DEF Lock, Channels, Clients
  <2>2. {} \cup {SendList} = {SendList}
    OBVIOUS
  <2>3. QED
    BY <2>1, <2>2, PushGood
<1> HIDE DEF p, q, push
<1>4. Channels \in Lock /\ Clients \in Lock /\ SendList \in Lock
  BY DEF Lock, Channels, Clients, SendList
<1>5. {Channels} \in SUBSET Lock /\ {Clients} \in SUBSET Lock
      /\ {SendList} \in SUBSET Lock /\ {Clients, SendList} \in SUBSET Lock
  BY <1>4
<1>6. GoodHandler(<<p, Apart, q, push>>)
  BY <1>1, <1>2, <1>3, ApartGood, <1>4, <1>5, TakesUp, FourGood
<1>7. QED
  BY <1>6 DEF OnGetPeers, p, q, push

LEMMA OnReqShootToGood == GoodHandler(OnReqShootTo)
<1> DEFINE p == OrReturn(Point({Clients}, {"clients"}, {}))
           push == Push({Clients})
<1>1. GoodPoint(p) /\ p.held = {Clients}
  BY PointGood DEF Lock, Table, Channels, Clients
<1>2. GoodPoint(push) /\ push.held = {Clients, SendList}
  <2>1. {Clients} \in SUBSET Lock
    BY DEF Lock, Channels, Clients
  <2>2. {Clients} \cup {SendList} = {Clients, SendList}
    OBVIOUS
  <2>3. QED
    BY <2>1, <2>2, PushGood
<1> HIDE DEF p, push
<1>3. Channels \in Lock /\ Clients \in Lock /\ SendList \in Lock
  BY DEF Lock, Channels, Clients, SendList
<1>4. {Channels} \in SUBSET Lock /\ {Clients} \in SUBSET Lock
      /\ {SendList} \in SUBSET Lock /\ {Clients, SendList} \in SUBSET Lock
  BY <1>3
<1>5. GoodHandler(<<p, push, Apart, p, push>>)
  BY <1>1, <1>2, ApartGood, <1>3, <1>4, TakesUp, FiveGood
<1>6. QED
  BY <1>5 DEF OnReqShootTo, p, push

LEMMA OnCloseGood == GoodHandler(OnClose)
<1> DEFINE p == OrReturn(Point({Clients}, {}, {"clients"}))
           push == Push({})
<1>1. GoodPoint(p) /\ p.held = {Clients}
  BY PointGood DEF Lock, Table, Channels, Clients
<1>2. GoodPoint(push) /\ push.held = {SendList}
  <2>1. {} \in SUBSET Lock
    BY DEF Lock, Channels, Clients
  <2>2. {} \cup {SendList} = {SendList}
    OBVIOUS
  <2>3. QED
    BY <2>1, <2>2, PushGood
<1> HIDE DEF p, push
<1>3. Channels \in Lock /\ Clients \in Lock /\ SendList \in Lock
  BY DEF Lock, Channels, Clients, SendList
<1>4. {Channels} \in SUBSET Lock /\ {Clients} \in SUBSET Lock
      /\ {SendList} \in SUBSET Lock /\ {Clients, SendList} \in SUBSET Lock
  BY <1>3
<1>5. GoodHandler(<<p, push>>)
  BY <1>1, <1>2, <1>3, <1>4, TakesUp, TwoGood
<1>6. QED
  BY <1>5 DEF OnClose, p, push

LEMMA LinkCloseGood == GoodHandler(LinkClose)
<1> DEFINE p == OrReturn(Point({Clients}, {"clients"}, {}))
           q == Point({Channels}, {}, {"channels"})
           push == Push({Channels})
           r == Point({Channels}, {}, {"channels", "database"})
           t == Point({Channels, Clients}, {}, {"clients"})
<1>1. GoodPoint(p) /\ p.held = {Clients}
  BY PointGood DEF Lock, Table, Channels, Clients
<1>2. GoodPoint(q) /\ q.held = {Channels}
  BY PointGood DEF Lock, Table, Channels, Clients
<1>3. GoodPoint(r) /\ r.held = {Channels}
  BY PointGood DEF Lock, Table, Channels, Clients
<1>4. GoodPoint(t) /\ t.held = {Channels, Clients}
  BY PointGood DEF Lock, Table, Channels, Clients
<1>5. GoodPoint(push) /\ push.held = {Channels, SendList}
  <2>1. {Channels} \in SUBSET Lock
    BY DEF Lock, Channels, Clients
  <2>2. {Channels} \cup {SendList} = {Channels, SendList}
    OBVIOUS
  <2>3. QED
    BY <2>1, <2>2, PushGood
<1> HIDE DEF p, q, push, r, t
<1>6. Channels \in Lock /\ Clients \in Lock /\ SendList \in Lock
  BY DEF Lock, Channels, Clients, SendList
<1>7. {Channels} \in SUBSET Lock /\ {Clients} \in SUBSET Lock
      /\ {SendList} \in SUBSET Lock /\ {Clients, SendList} \in SUBSET Lock
  BY <1>6
<1>8. GoodHandler(<<p, Apart, q, TellsUnlocked, push, r, t>>)
  BY <1>1, <1>2, <1>3, <1>4, <1>5, ApartGood, TellsGood, <1>6, <1>7, TakesUp, SevenGood
<1>9. QED
  BY <1>8 DEF LinkClose, p, q, push, r, t

LEMMA GetCountGood == GoodHandler(GetCount)
<1> DEFINE p == Point({Clients}, {"clients"}, {})
<1>1. GoodPoint(p) /\ p.held = {Clients}
  BY PointGood DEF Lock, Table, Channels, Clients
<1> HIDE DEF p
<1>2. Channels \in Lock /\ Clients \in Lock /\ SendList \in Lock
  BY DEF Lock, Channels, Clients, SendList
<1>3. GoodHandler(<<p>>)
  BY <1>1, <1>2, TakesUp, OneGood
<1>4. QED
  BY <1>3 DEF GetCount, p

LEMMA OnUdpShootHoleGood == GoodHandler(OnUdpShootHole)
<1> DEFINE p == Point({Clients}, {"clients"}, {})
<1>1. GoodPoint(p) /\ p.held = {Clients}
  BY PointGood DEF Lock, Table, Channels, Clients
<1> HIDE DEF p
<1>2. Channels \in Lock /\ Clients \in Lock /\ SendList \in Lock
  BY DEF Lock, Channels, Clients, SendList
<1>3. GoodHandler(<<p>>)
  BY <1>1, <1>2, TakesUp, OneGood
<1>4. QED
  BY <1>3 DEF OnUdpShootHole, p

LEMMA OnUdpHeartbeatGood == GoodHandler(OnUdpHeartbeat)
<1> DEFINE p == Point({Clients}, {}, {"clients"})
<1>1. GoodPoint(p) /\ p.held = {Clients}
  BY PointGood DEF Lock, Table, Channels, Clients
<1> HIDE DEF p
<1>2. Channels \in Lock /\ Clients \in Lock /\ SendList \in Lock
  BY DEF Lock, Channels, Clients, SendList
<1>3. GoodHandler(<<p>>)
  BY <1>1, <1>2, TakesUp, OneGood
<1>4. QED
  BY <1>3 DEF OnUdpHeartbeat, p

LEMMA PopCommandGood == GoodHandler(PopCommand)
<1> DEFINE push == Push({})
<1>1. GoodPoint(push) /\ push.held = {SendList}
  <2>1. {} \in SUBSET Lock
    BY DEF Lock, Channels, Clients
  <2>2. {} \cup {SendList} = {SendList}
    OBVIOUS
  <2>3. QED
    BY <2>1, <2>2, PushGood
<1> HIDE DEF push
<1>2. Channels \in Lock /\ Clients \in Lock /\ SendList \in Lock
  BY DEF Lock, Channels, Clients, SendList
<1>3. GoodHandler(<<push>>)
  BY <1>1, <1>2, TakesUp, OneGood
<1>4. QED
  BY <1>3 DEF PopCommand, push

LEMMA UpdateChannelTickGood == GoodHandler(UpdateChannelTick)
<1> DEFINE p == Point({Channels}, {"channels"}, {"database"})
<1>1. GoodPoint(p) /\ p.held = {Channels}
  BY PointGood DEF Lock, Table, Channels, Clients
<1> HIDE DEF p
<1>2. Channels \in Lock /\ Clients \in Lock /\ SendList \in Lock
  BY DEF Lock, Channels, Clients, SendList
<1>3. GoodHandler(<<p>>)
  BY <1>1, <1>2, TakesUp, OneGood
<1>4. QED
  BY <1>3 DEF UpdateChannelTick, p

LEMMA IdleGood == GoodHandler(Idle)
<1>1. Channels \in Lock /\ Clients \in Lock /\ SendList \in Lock
  BY DEF Lock, Channels, Clients, SendList
<1>2. GoodHandler(<<Apart>>)
  BY ApartGood, <1>1, TakesUp, OneGood
<1>3. QED
  BY <1>2 DEF Idle

LEMMA HandlersGood ==
    ASSUME NEW h \in Handler \cup {Idle}
    PROVE  GoodHandler(h)
  BY OnAcceptGood, OnConnectGood, OnLoginChannelGood, OnLogoutChannelGood, OnGetPeersGood,
     OnReqShootToGood, OnCloseGood, LinkCloseGood, GetCountGood, OnUdpShootHoleGood,
     OnUdpHeartbeatGood, PopCommandGood, UpdateChannelTickGood, IdleGood
  DEF Handler, TcpHandler, UdpHandler, SendHandler

-----------------------------------------------------------------------------
(* A thread lacks at most one lock of those it needs, the highest.         *)
InOrder(t) == Takes(held[t], At(t).held)

Inv == TypeOK /\ \A t \in Thread : InOrder(t)

LEMMA AtGood ==
    ASSUME TypeOK, NEW t \in Thread
    PROVE  GoodHandler(runs[t]) /\ GoodPoint(At(t))
<1>1. runs[t] \in Handler \cup {Idle} /\ pos[t] \in 1 .. Len(runs[t])
  BY DEF TypeOK
<1>2. GoodHandler(runs[t])
  BY <1>1, HandlersGood
<1>3. QED
  BY <1>1, <1>2 DEF GoodHandler, At

LEMMA InitInv == Init => Inv
<1> SUFFICES ASSUME Init
             PROVE  Inv
  OBVIOUS
<1>1. GoodHandler(Idle)
  BY IdleGood
<1>2. TypeOK
  BY <1>1 DEF Init, TypeOK, GoodHandler
<1>3. \A t \in Thread : InOrder(t)
  BY <1>1 DEF Init, InOrder, At, GoodHandler
<1>4. QED
  BY <1>2, <1>3 DEF Inv

LEMMA UnlockInv ==
    ASSUME Inv, NEW t \in Thread, Unlock(t)
    PROVE  Inv'
<1>1. TypeOK'
  BY DEF Inv, TypeOK, Unlock
<1>2. ASSUME NEW u \in Thread
      PROVE  InOrder(u)'
  BY DEF Inv, TypeOK, Unlock, InOrder, At, Takes
<1>3. QED
  BY <1>1, <1>2 DEF Inv

LEMMA EnterInv ==
    ASSUME Inv, NEW t \in Thread, NEW l \in Lock, Enter(t, l)
    PROVE  Inv'
<1>1. TypeOK'
  BY DEF Inv, TypeOK, Enter
<1>2. ASSUME NEW u \in Thread
      PROVE  InOrder(u)'
  BY DEF Inv, TypeOK, Enter, InOrder, At, Takes
<1>3. QED
  BY <1>1, <1>2 DEF Inv

LEMMA ContinueInv ==
    ASSUME Inv, NEW t \in Thread, Continue(t)
    PROVE  Inv'
<1>1. GoodHandler(runs[t])
  BY AtGood DEF Inv
<1>2. pos[t] \in 1 .. Len(runs[t]) - 1 /\ pos[t] + 1 \in 1 .. Len(runs[t])
  BY <1>1 DEF Inv, TypeOK, Continue, GoodHandler
<1>3. TypeOK'
  BY <1>2 DEF Inv, TypeOK, Continue
<1>4. InOrder(t)'
  BY <1>1, <1>2 DEF Inv, TypeOK, Continue, InOrder, At, IsThere, GoodHandler
<1>5. ASSUME NEW u \in Thread \ {t}
      PROVE  InOrder(u)'
  BY DEF Inv, TypeOK, Continue, InOrder, At
<1>6. QED
  BY <1>3, <1>4, <1>5 DEF Inv

(* From one handler to the next.                                           *)
LEMMA SwitchInv ==
    ASSUME Inv, NEW t \in Thread, NEW h \in HandlersOf(t) \cup {Idle},
           h \in Handler \cup {Idle}, Switch(t, h), IsThere(t),
           held[t] = {} \/ h = Idle
    PROVE  Inv'
<1>1. GoodHandler(h)
  BY HandlersGood
<1>2. TypeOK'
  BY <1>1 DEF Inv, TypeOK, Switch, GoodHandler
<1>3. InOrder(t)'
  <2>1. CASE held[t] = {}
    BY <1>1, <2>1 DEF Inv, TypeOK, Switch, InOrder, At, GoodHandler
  <2>2. CASE h = Idle
    <3>1. Idle[1].held = {}
      BY ApartGood DEF Idle
    <3>2. QED
      BY <2>2, <3>1 DEF Inv, TypeOK, Switch, InOrder, At, Takes
  <2>3. QED
    BY <2>1, <2>2
<1>4. ASSUME NEW u \in Thread \ {t}
      PROVE  InOrder(u)'
  BY DEF Inv, TypeOK, Switch, InOrder, At
<1>5. QED
  BY <1>2, <1>3, <1>4 DEF Inv

LEMMA InvHolds == Spec => []Inv
<1>1. ASSUME Inv, Next
      PROVE  Inv'
  <2>1. ASSUME NEW t \in Thread, Begin(t)
        PROVE  Inv'
    <3>1. PICK h \in HandlersOf(t) : Switch(t, h)
      BY <2>1 DEF Begin
    <3>2. h \in Handler
      BY <3>1 DEF HandlersOf, Handler, Thread
    <3>3. held[t] = {}
      <4>1. /\ runs[t] = Idle
            /\ pos[t] \in 1 .. Len(runs[t])
        BY <1>1, <2>1 DEF Begin, Inv, TypeOK
      <4>2. pos[t] = 1
        BY <4>1 DEF Idle
      <4>3. At(t) = Apart
        BY <4>1, <4>2 DEF At, Idle
      <4>4. QED
        BY <2>1, <4>3, ApartGood DEF Begin, IsThere
    <3>4. QED
      BY <1>1, <2>1, <3>1, <3>2, <3>3, SwitchInv DEF Begin
  <2>2. ASSUME NEW t \in Thread, Return(t)
        PROVE  Inv'
    BY <1>1, <2>2, SwitchInv DEF Return
  <2>3. QED
    BY <1>1, <2>1, <2>2, ContinueInv, UnlockInv, EnterInv DEF Next
<1>2. ASSUME Inv, UNCHANGED vars
      PROVE  Inv'
  BY <1>2 DEF vars, Inv, TypeOK, InOrder, At
<1>3. QED
  BY <1>1, <1>2, InitInv, PTL DEF Spec

-----------------------------------------------------------------------------
(* Every thread is at a point of a handler of its own, and a lock keeps    *)
(* the others out (CKCritSec::Lock).                                       *)
THEOREM TypeCorrect == Spec => []TypeOK
<1>1. Inv => TypeOK
  BY DEF Inv
<1>2. QED
  BY <1>1, InvHolds, PTL

(* Who waits for a lock holds only lower ones.                             *)
LEMMA WaitsUp ==
    ASSUME Inv, NEW t \in Thread, NEW l \in Wanted(t)
    PROVE  l \in Lock /\ \A k \in held[t] : k < l
<1>1. GoodPoint(At(t))
  BY AtGood DEF Inv
<1>2. QED
  BY <1>1 DEF Inv, InOrder, Takes, Wanted, GoodPoint

(* However many threads the server has, none of them wait for one another  *)
(* in a circle: every handler takes the channels' lock before the clients' *)
(* and the clients' before the list's (CClientMgr, ClientMgr.h:9).         *)
THEOREM NoCircleHolds == Spec => []NoCircle
<1>1. Inv => NoCircle
  <2> SUFFICES ASSUME Inv, NEW S \in SUBSET Thread, S # {},
                      \A t \in S : \E u \in S : Wanted(t) \cap held[u] # {}
               PROVE  FALSE
    BY DEF NoCircle
  <2>1. PICK t1 \in S : TRUE
    OBVIOUS
  <2>2. PICK t2 \in S : Wanted(t1) \cap held[t2] # {}
    OBVIOUS
  <2>3. PICK t3 \in S : Wanted(t2) \cap held[t3] # {}
    OBVIOUS
  <2>4. PICK t4 \in S : Wanted(t3) \cap held[t4] # {}
    OBVIOUS
  <2>5. PICK t5 \in S : Wanted(t4) \cap held[t5] # {}
    OBVIOUS
  <2>6. PICK l1 \in Wanted(t1) : l1 \in held[t2]
    BY <2>2
  <2>7. PICK l2 \in Wanted(t2) : l2 \in held[t3]
    BY <2>3
  <2>8. PICK l3 \in Wanted(t3) : l3 \in held[t4]
    BY <2>4
  <2>9. PICK l4 \in Wanted(t4) : l4 \in held[t5]
    BY <2>5
  <2>10. l1 < l2 /\ l2 < l3 /\ l3 < l4
    BY <2>6, <2>7, <2>8, <2>9, WaitsUp
  <2>11. l1 \in Lock /\ l2 \in Lock /\ l3 \in Lock /\ l4 \in Lock
    BY <2>6, <2>7, <2>8, <2>9, WaitsUp
  <2>12. QED
    BY <2>10, <2>11 DEF Lock
<1>2. QED
  BY <1>1, InvHolds, PTL

(* A table is touched by who holds its lock, but for the clients, which    *)
(* LinkClose reads without it.                                             *)
LEMMA UnderLock ==
    ASSUME Inv, NEW t \in Thread
    PROVE  /\ \A x \in {"channels", "database"} :
                 x \in Looks(t) \cup Changes(t) => Channels \in held[t]
           /\ "sendlist" \in Looks(t) \cup Changes(t) => SendList \in held[t]
           /\ "clients" \in Changes(t) => Clients \in held[t]
           /\ "clients" \in Looks(t) => Clients \in held[t]
                                        \/ At(t) = TellsUnlocked
<1>1. GoodPoint(At(t))
  BY AtGood DEF Inv
<1>2. QED
  BY <1>1 DEF Looks, Changes, IsThere, GoodPoint

(* The channels, the database connection and the list of commands are      *)
(* never changed by one thread while another one uses them                 *)
(* (CClientMgr::UpdateChannelTick on the sending thread).                  *)
THEOREM ChannelsExclusiveHolds == Spec => []ChannelsExclusive
<1>1. Inv => ChannelsExclusive
  BY UnderLock DEF ChannelsExclusive, Conflict, Table, Inv, TypeOK
<1>2. QED
  BY <1>1, InvHolds, PTL

(* The clients neither, but for LinkClose's notices: every other handler   *)
(* reads and writes them under their lock (CClientMgr::LinkClose).         *)
THEOREM ClientsExclusiveHolds == Spec => []ClientsExclusiveButLinkClose
<1>1. Inv => ClientsExclusiveButLinkClose
  BY UnderLock DEF ClientsExclusiveButLinkClose, Conflict, Inv, TypeOK
<1>2. QED
  BY <1>1, InvHolds, PTL
=============================================================================
