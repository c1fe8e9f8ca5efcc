----------------------------- MODULE OrderLocks -----------------------------
(***************************************************************************)
(* The order server's locks: what its threads hold when they touch its     *)
(* tables.  The callbacks of the TCP server run on its worker threads, the *)
(* datagrams on the UDP thread, and the application's own thread sends.    *)
(*                                                                         *)
(* A handler is a sequence of points: what a thread holds and touches      *)
(* there.  On its way to the next point it drops the locks this does not   *)
(* need, then takes the one it lacks; no handler takes a lock it holds.    *)
(* The data is left out: a handler may return early where the code does so *)
(* for some data, a point the code skips for some data is passed, and a    *)
(* loop is passed through once, as every round holds and touches the same. *)
(***************************************************************************)
EXTENDS Naturals, Sequences

CONSTANTS Workers,    \* the threads of the TCP server
          UdpThread,  \* the thread that receives datagrams
          Sender      \* COrderApp's own thread

ASSUME ThreadsAssumption == /\ UdpThread \notin Workers
                            /\ Sender \notin Workers \cup {UdpThread}

Thread == Workers \cup {UdpThread, Sender}

(* The channel table's lock, the client table's, and the one of the list   *)
(* of commands to send, in the order in which they are to be taken.        *)
Lock == 1 .. 3
Channels == 1
Clients == 2
SendList == 3

(* What they are there for; the database is used by the handlers that      *)
(* change the channels.                                                    *)
Table == {"channels", "database", "clients", "sendlist"}

(* A point: the locks held, the tables looked at and changed, and whether  *)
(* the handler may return from here.                                       *)
Point(held, looks, changes) ==
    [held |-> held, looks |-> looks, changes |-> changes, returns |-> FALSE]
OrReturn(p) == [p EXCEPT !.returns = TRUE]

Push(held) == Point(held \cup {SendList}, {}, {"sendlist"})

(* Nothing is held or touched: a thread between two handlers, or a handler *)
(* between two of its locks.                                               *)
Apart == Point({}, {}, {})
Idle == <<Apart>>

-----------------------------------------------------------------------------
onAccept == <<Point({Clients}, {}, {"clients"}), Apart,
              Point({Clients}, {"clients"}, {})>>

OnConnect == <<OrReturn(Point({Clients}, {}, {"clients"})), Push({})>>

(* Mutant of OnLoginChannel: the others are told without the lock of the   *)
(* table of clients.                                                       *)
OnLoginChannelUnlocked ==
    <<Point({Channels}, {}, {"channels", "database"}), Push({Channels}),
      OrReturn(Point({Channels}, {"channels", "clients"}, {})),
      Push({Channels})>>

OnLoginChannel ==
    <<Point({Channels}, {}, {"channels", "database"}), Push({Channels}),
      OrReturn(Point({Channels, Clients}, {"channels", "clients"}, {})),
      Push({Channels, Clients})>>

(* Mutant of OnLogoutChannel: its locks in the other order.                *)
OnLogoutChannelClientsFirst ==
    <<Point({Clients}, {"clients"}, {}),
      OrReturn(Point({Channels, Clients}, {}, {"channels"})),
      Push({Channels, Clients}),
      Point({Channels}, {}, {"channels", "database"})>>

OnLogoutChannel ==
    <<OrReturn(Point({Channels}, {}, {"channels"})), Push({Channels}),
      OrReturn(Point({Channels, Clients}, {"channels", "clients"}, {})),
      OrReturn(Push({Channels, Clients})),
      Point({Channels}, {}, {"channels", "database"})>>

OnGetPeers == <<OrReturn(Point({Channels}, {"channels"}, {})), Apart,
                OrReturn(Point({Clients}, {"clients"}, {})), Push({})>>

OnReqShootTo ==
    <<OrReturn(Point({Clients}, {"clients"}, {})), Push({Clients}), Apart,
      OrReturn(Point({Clients}, {"clients"}, {})), Push({Clients})>>

OnClose == <<OrReturn(Point({Clients}, {}, {"clients"})), Push({})>>

(* LinkClose tells the others while it holds the lock of the channels only *)
(* (NotifyLogoutChannel, ClientMgr.cpp:432).                               *)
TellsUnlocked == Point({Channels}, {"channels", "clients"}, {})

LinkClose ==
    <<OrReturn(Point({Clients}, {"clients"}, {})), Apart,
      Point({Channels}, {}, {"channels"}), TellsUnlocked, Push({Channels}),
      Point({Channels}, {}, {"channels", "database"}),
      Point({Channels, Clients}, {}, {"clients"})>>

(* CClientMgr::GetCount, logged with every message before it is handled.   *)
GetCount == <<Point({Clients}, {"clients"}, {})>>

OnUdpShootHole == <<Point({Clients}, {"clients"}, {})>>
OnUdpHeartbeat == <<Point({Clients}, {}, {"clients"})>>

(* Mutant of UpdateChannelTick: without the lock.                          *)
UpdateChannelTickUnlocked == <<Point({}, {"channels"}, {"database"})>>

(* One round of ThreadProcMain: a command is taken from the list, or, when *)
(* it is empty, the database refreshed every ten minutes.                  *)
PopCommand == <<Push({})>>
UpdateChannelTick == <<Point({Channels}, {"channels"}, {"database"})>>

TcpHandler == {onAccept, OnConnect, OnLoginChannel, OnLogoutChannel, OnGetPeers,
               OnReqShootTo, OnClose, LinkClose, GetCount}
UdpHandler == {OnUdpShootHole, OnUdpHeartbeat, GetCount}
SendHandler == {PopCommand, UpdateChannelTick}
Handler == TcpHandler \cup UdpHandler \cup SendHandler

HandlersOf(t) == CASE t \in Workers -> TcpHandler
                   [] t = UdpThread -> UdpHandler
                   [] t = Sender -> SendHandler

-----------------------------------------------------------------------------
VARIABLES runs,  \* per thread: the handler it runs
          pos,   \* per thread: the point it is at, or on its way to
          held   \* per thread: the locks it holds

vars == <<runs, pos, held>>

At(t) == runs[t][pos[t]]

Init == /\ runs = [t \in Thread |-> Idle]
        /\ pos = [t \in Thread |-> 1]
        /\ held = [t \in Thread |-> {}]

(* A thread on its way: it drops what it does not need, then takes a lock  *)
(* nobody has.                                                             *)
Unlock(t) == /\ ~ held[t] \subseteq At(t).held
             /\ held' = [held EXCEPT ![t] = @ \cap At(t).held]
             /\ UNCHANGED <<runs, pos>>

(* Mutant of Enter: a lock that keeps nobody out.                          *)
EnterAnyway(t, l) == /\ held[t] \subseteq At(t).held
                     /\ l \in At(t).held \ held[t]
                     /\ held' = [held EXCEPT ![t] = @ \cup {l}]
                     /\ UNCHANGED <<runs, pos>>

Enter(t, l) == /\ held[t] \subseteq At(t).held
               /\ l \in At(t).held \ held[t]
               /\ \A u \in Thread : l \notin held[u]
               /\ held' = [held EXCEPT ![t] = @ \cup {l}]
               /\ UNCHANGED <<runs, pos>>

(* It has got to its point, and goes on, or to the next handler.           *)
IsThere(t) == held[t] = At(t).held

Continue(t) == /\ IsThere(t)
               /\ pos[t] < Len(runs[t])
               /\ pos' = [pos EXCEPT ![t] = @ + 1]
               /\ UNCHANGED <<runs, held>>

Switch(t, h) == /\ runs' = [runs EXCEPT ![t] = h]
                /\ pos' = [pos EXCEPT ![t] = 1]
                /\ UNCHANGED held

Return(t) == /\ IsThere(t)
             /\ runs[t] # Idle
             /\ pos[t] = Len(runs[t]) \/ At(t).returns
             /\ Switch(t, Idle)

Begin(t) == /\ IsThere(t)
            /\ runs[t] = Idle
            /\ \E h \in HandlersOf(t) : Switch(t, h)

Next == \E t \in Thread : \/ Begin(t) \/ Continue(t) \/ Return(t) \/ Unlock(t)
                          \/ \E l \in Lock : Enter(t, l)

Spec == Init /\ [][Next]_vars

-----------------------------------------------------------------------------
(* The type invariant: a thread is in a handler of its own, and no two     *)
(* threads hold one lock.                                                  *)
TypeOK ==
    /\ runs \in [Thread -> Handler \cup {Idle}]
    /\ \A t \in Thread : runs[t] \in HandlersOf(t) \cup {Idle}
    /\ pos \in [Thread -> Nat]
    /\ \A t \in Thread : pos[t] \in 1 .. Len(runs[t])
    /\ held \in [Thread -> SUBSET Lock]
    /\ \A t, u \in Thread : t # u => held[t] \cap held[u] = {}

(* The locks a thread waits for.                                           *)
Wanted(t) == IF held[t] \subseteq At(t).held THEN At(t).held \ held[t] ELSE {}

(* No threads wait for one another in a circle: in every set of threads    *)
(* there is one that does not wait for a lock another of them holds,       *)
(* whatever handlers they run (CClientMgr, "this class lock after          *)
(* m_channelMgr'lock", ClientMgr.h:9).                                     *)
NoCircle == \A S \in (SUBSET Thread) \ {{}} :
               \E t \in S : \A u \in S : Wanted(t) \cap held[u] = {}

Looks(t) == IF IsThere(t) THEN At(t).looks ELSE {}
Changes(t) == IF IsThere(t) THEN At(t).changes ELSE {}

Conflict(t, u, x) == x \in Changes(t) /\ x \in Looks(u) \cup Changes(u)

(* The channels, the database connection and the list of commands are      *)
(* never changed by one thread while another one uses them, the refresh by *)
(* the sending thread included (CClientMgr::UpdateChannelTick).            *)
ChannelsExclusive ==
    \A t, u \in Thread : t # u =>
        \A x \in Table \ {"clients"} : ~Conflict(t, u, x)

(* The clients are, but by LinkClose only, whose NotifyLogoutChannel reads *)
(* them without their lock while the comment at ClientMgr.h:43 asks for    *)
(* it: every other handler is safe against every other.                    *)
ClientsExclusiveButLinkClose ==
    \A t, u \in Thread : t # u /\ Conflict(t, u, "clients") =>
        At(u) = TellsUnlocked
=============================================================================
