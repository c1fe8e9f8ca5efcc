--------------------------- MODULE Tracker_proofs ---------------------------
(***************************************************************************)
(* Proofs about Tracker, for any set of clients, any number of threads and *)
(* any number of reopenings: the type invariant, and that nobody stays a   *)
(* user of a channel he has closed.                                        *)
(***************************************************************************)
EXTENDS Tracker, TLAPS

(* What is under way for a client without a link, and where the server     *)
(* still has him.                                                          *)
Linked(c) ==
    /\ link[c] = "none" => c \notin clients
    /\ link[c] = "up" => c \in clients
    /\ link[c] # "up" => /\ requests[c] = <<>>
                         /\ chan[c] = "closed"
    /\ c \in closing => link[c] = "lost" /\ c \notin users

(* A client whose channel is closed has logged out or is about to: no      *)
(* LOGIN_CHANNEL follows the last LOGOUT_CHANNEL still to be handled.      *)
NoLoginFrom(q, i) == \A j \in i .. Len(q) : q[j] # "LOGIN_CHANNEL"

LoggedOut(c) ==
    link[c] = "up" /\ chan[c] = "closed" =>
        \/ c \notin users /\ NoLoginFrom(requests[c], 1)
        \/ \E i \in 1 .. Len(requests[c]) :
              requests[c][i] = "LOGOUT_CHANNEL" /\ NoLoginFrom(requests[c], i)

Inv == TypeOK /\ \A c \in Clients : Linked(c) /\ LoggedOut(c)

-----------------------------------------------------------------------------
(* What Push leaves in the queues, and what it leaves alone.               *)
LEMMA PushTypes ==
    ASSUME TypeOK, NEW to, NEW n \in Notice, Push(to, n)
    PROVE  notices' \in [Clients -> Seq(Notice)]
<1>1. \A q \in Seq(Notice) : Append(q, n) \in Seq(Notice)
  OBVIOUS
<1>2. QED
  BY <1>1 DEF TypeOK, Push

(* Leaving takes the user, and lets nobody else in.                        *)
LEMMA LeaveTypes ==
    ASSUME TypeOK, NEW c \in Clients, Leave(c)
    PROVE  /\ sources' \subseteq users' \cap Sources
           /\ users' \subseteq users \ {c}
           /\ notices' \in [Clients -> Seq(Notice)]
<1>1. [kind |-> "PEERLOGOUT", list |-> {c}] \in Notice
  BY DEF Notice
<1>2. notices' \in [Clients -> Seq(Notice)]
  BY <1>1, PushTypes DEF Leave, Notify
<1>3. QED
  BY <1>2 DEF TypeOK, Leave

(* A request taken from the head of a queue leaves the others in place.    *)
LEMMA TakeTypes ==
    ASSUME TypeOK, NEW c \in Clients, NEW r, TakeRequest(c, r)
    PROVE  /\ requests' \in [Clients -> Seq(Request)]
           /\ requests[c] # <<>> /\ requests[c][1] = r
           /\ requests'[c] = Tail(requests[c])
           /\ \A d \in Clients \ {c} : requests'[d] = requests[d]
           /\ c \notin closing /\ asked[c] = <<>>
  BY DEF TypeOK, TakeRequest, FreeWorker, Busy

(* Who may come next of a user whose requests move up by one.              *)
LEMMA TailLoggedOut ==
    ASSUME NEW q \in Seq(Request), q # <<>>, NEW U, NEW V, NEW c,
           \/ c \notin U /\ NoLoginFrom(q, 1)
           \/ \E i \in 1 .. Len(q) :
                 q[i] = "LOGOUT_CHANNEL" /\ NoLoginFrom(q, i),
           q[1] = "LOGOUT_CHANNEL" => c \notin V,
           q[1] # "LOGIN_CHANNEL" /\ c \notin U => c \notin V
    PROVE  \/ c \notin V /\ NoLoginFrom(Tail(q), 1)
           \/ \E i \in 1 .. Len(Tail(q)) :
                 Tail(q)[i] = "LOGOUT_CHANNEL" /\ NoLoginFrom(Tail(q), i)
<1>1. /\ Tail(q) \in Seq(Request)
      /\ Len(q) \in Nat \ {0}
      /\ Len(Tail(q)) = Len(q) - 1
      /\ \A j \in 1 .. Len(Tail(q)) : Tail(q)[j] = q[j + 1]
  OBVIOUS
<1>2. CASE c \notin U /\ NoLoginFrom(q, 1)
  <2>1. NoLoginFrom(Tail(q), 1)
    BY <1>1, <1>2 DEF NoLoginFrom
  <2>2. q[1] # "LOGIN_CHANNEL"
    BY <1>1, <1>2 DEF NoLoginFrom
  <2>3. QED
    BY <1>2, <2>1, <2>2
<1>3. ASSUME NEW i \in 1 .. Len(q),
             q[i] = "LOGOUT_CHANNEL", NoLoginFrom(q, i)
      PROVE  \/ c \notin V /\ NoLoginFrom(Tail(q), 1)
             \/ \E k \in 1 .. Len(Tail(q)) :
                   /\ Tail(q)[k] = "LOGOUT_CHANNEL"
                   /\ NoLoginFrom(Tail(q), k)
  <2>1. CASE i = 1
    <3>1. NoLoginFrom(Tail(q), 1)
      BY <1>1, <1>3, <2>1 DEF NoLoginFrom
    <3>2. QED
      BY <1>3, <2>1, <3>1
  <2>2. CASE i # 1
    <3>1. i - 1 \in 1 .. Len(Tail(q)) /\ Tail(q)[i - 1] = q[i]
      BY <1>1, <2>2
    <3>2. NoLoginFrom(Tail(q), i - 1)
      BY <1>1, <1>3, <2>2 DEF NoLoginFrom
    <3>3. QED
      BY <1>3, <3>1, <3>2
  <2>3. QED
    BY <2>1, <2>2
<1>4. QED
  BY <1>2, <1>3

(* A client whose own state stands still, and who did not become a user.   *)
LEMMA SameClient ==
    ASSUME NEW d \in Clients, Linked(d), LoggedOut(d),
           requests'[d] = requests[d], link'[d] = link[d], chan'[d] = chan[d],
           d \in clients' <=> d \in clients,
           d \in users' => d \in users,
           d \in closing' => d \in closing
    PROVE  Linked(d)' /\ LoggedOut(d)'
<1>1. Linked(d)'
  BY DEF Linked
<1>2. ASSUME link[d] = "up", chan[d] = "closed"
      PROVE  \/ d \notin users' /\ NoLoginFrom(requests'[d], 1)
             \/ \E i \in 1 .. Len(requests'[d]) :
                   /\ requests'[d][i] = "LOGOUT_CHANNEL"
                   /\ NoLoginFrom(requests'[d], i)
  BY <1>2 DEF LoggedOut
<1>3. LoggedOut(d)'
  BY <1>2 DEF LoggedOut, NoLoginFrom
<1>4. QED
  BY <1>1, <1>3

(* A client without a link, or with his channel open, is not in question.  *)
LEMMA NotInQuestion ==
    ASSUME NEW d \in Clients, link'[d] # "up" \/ chan'[d] # "closed"
    PROVE  LoggedOut(d)'
  BY DEF LoggedOut

-----------------------------------------------------------------------------
LEMMA InitInv == Init => Inv
<1> SUFFICES ASSUME Init
             PROVE  Inv
  OBVIOUS
<1>1. TypeOK
  BY TrackerAssumption DEF Init, TypeOK
<1>2. ASSUME NEW c \in Clients
      PROVE  Linked(c) /\ LoggedOut(c)
  BY DEF Init, Linked, LoggedOut
<1>3. QED
  BY <1>1, <1>2 DEF Inv

(* Every step keeps the invariant: the client's steps.                     *)
LEMMA ConnectInv ==
    ASSUME Inv, UNCHANGED env, NEW c \in Clients, Connect(c)
    PROVE  Inv'
<1>1. TypeOK'
  BY DEF Inv, TypeOK, Connect, handlerVars
<1>2. Linked(c)'
  BY DEF Inv, TypeOK, Connect, Linked, handlerVars
<1>3. requests'[c] = <<>> /\ c \notin users'
  BY DEF Inv, TypeOK, Connect, Linked, handlerVars
<1>4. NoLoginFrom(requests'[c], 1)
  BY <1>3 DEF NoLoginFrom
<1>5. LoggedOut(c)'
  BY <1>3, <1>4 DEF LoggedOut, NoLoginFrom
<1>6. ASSUME NEW d \in Clients \ {c}
      PROVE  Linked(d)' /\ LoggedOut(d)'
  BY SameClient DEF Inv, TypeOK, Connect, handlerVars
<1>7. QED
  BY <1>1, <1>2, <1>5, <1>6 DEF Inv

LEMMA OpenSourceInv ==
    ASSUME Inv, UNCHANGED env, NEW c \in Clients, OpenSource(c)
    PROVE  Inv'
<1>1. OpenRequests(c) \in Seq(Request)
  <2>1. {"LOGIN_CHANNEL", "LOGOUT_CHANNEL", "GETPEERS"} \subseteq Request
    BY DEF Request
  <2>2. QED
    BY <2>1 DEF OpenRequests
<1>2. requests[c] \o OpenRequests(c) \in Seq(Request)
  BY <1>1 DEF Inv, TypeOK
<1>3. requests' \in [Clients -> Seq(Request)]
  BY <1>2 DEF Inv, TypeOK, OpenSource
<1>4. TypeOK'
  <2>1. opens' \in [Clients -> Nat]
    BY TrackerAssumption DEF Inv, TypeOK, OpenSource
  <2>2. QED
    BY <1>3, <2>1 DEF Inv, TypeOK, OpenSource, serverVars, handlerVars
<1>5. Linked(c)' /\ chan'[c] # "closed"
  BY DEF Inv, TypeOK, OpenSource, Linked, serverVars, handlerVars
<1>6. ASSUME NEW d \in Clients \ {c}
      PROVE  Linked(d)' /\ LoggedOut(d)'
  BY SameClient DEF Inv, TypeOK, OpenSource, serverVars, handlerVars
<1>7. QED
  BY <1>4, <1>5, <1>6, NotInQuestion DEF Inv

LEMMA OpenInsertInv ==
    ASSUME Inv, UNCHANGED env, NEW c \in Clients, OpenInsert(c)
    PROVE  Inv'
<1>1. TypeOK'
  BY DEF Inv, TypeOK, OpenInsert, serverVars, handlerVars
<1>2. Linked(c)' /\ chan'[c] # "closed"
  BY DEF Inv, TypeOK, OpenInsert, Linked, serverVars, handlerVars
<1>3. ASSUME NEW d \in Clients \ {c}
      PROVE  Linked(d)' /\ LoggedOut(d)'
  BY SameClient DEF Inv, TypeOK, OpenInsert, serverVars, handlerVars
<1>4. QED
  BY <1>1, <1>2, <1>3, NotInQuestion DEF Inv

LEMMA CloseSourceInv ==
    ASSUME Inv, UNCHANGED env, NEW c \in Clients, CloseSource(c)
    PROVE  Inv'
<1>1. TypeOK'
  BY DEF Inv, TypeOK, CloseSource, serverVars, handlerVars, Request
<1>2. Linked(c)'
  BY DEF Inv, TypeOK, CloseSource, Linked, serverVars, handlerVars
<1>3. requests[c] \in Seq(Request)
  BY DEF Inv, TypeOK
<1>4. requests'[c] = Append(requests[c], "LOGOUT_CHANNEL")
  BY DEF Inv, TypeOK, CloseSource
<1>5. /\ Len(requests'[c]) = Len(requests[c]) + 1
      /\ Len(requests'[c]) \in 1 .. Len(requests'[c])
      /\ requests'[c][Len(requests'[c])] = "LOGOUT_CHANNEL"
  BY <1>3, <1>4
<1>6. NoLoginFrom(requests'[c], Len(requests'[c]))
  BY <1>3, <1>5 DEF NoLoginFrom
<1>7. LoggedOut(c)'
  BY <1>5, <1>6 DEF LoggedOut, NoLoginFrom
<1>8. ASSUME NEW d \in Clients \ {c}
      PROVE  Linked(d)' /\ LoggedOut(d)'
  BY SameClient DEF Inv, TypeOK, CloseSource, serverVars, handlerVars
<1>9. QED
  BY <1>1, <1>2, <1>7, <1>8 DEF Inv

LEMMA ExitInv ==
    ASSUME Inv, UNCHANGED env, NEW c \in Clients, Exit(c)
    PROVE  Inv'
<1>1. TypeOK'
  BY DEF Inv, TypeOK, Exit, serverVars, handlerVars
<1>2. Linked(c)' /\ link'[c] # "up"
  BY DEF Inv, TypeOK, Exit, Linked, serverVars, handlerVars
<1>3. ASSUME NEW d \in Clients \ {c}
      PROVE  Linked(d)' /\ LoggedOut(d)'
  BY SameClient DEF Inv, TypeOK, Exit, serverVars, handlerVars
<1>4. QED
  BY <1>1, <1>2, <1>3, NotInQuestion DEF Inv

LEMMA ReceiveInv ==
    ASSUME Inv, UNCHANGED env, NEW c \in Clients, OnPeersAdded(c) \/ OnPeerLogout(c)
    PROVE  Inv'
<1>1. notices[c] # <<>> /\ notices[c] \in Seq(Notice)
  BY DEF Inv, TypeOK, OnPeersAdded, OnPeerLogout, Receive
<1>2. Head(notices[c]) \in Notice
  BY <1>1
<1>3. Head(notices[c]).list \subseteq Clients
  BY <1>2 DEF Notice
<1>4. peers' \in [Clients -> SUBSET Clients]
  <2> DEFINE L == Head(notices[c]).list
  <2>1. L \subseteq Clients
    BY <1>3
  <2>2. \/ peers' = [peers EXCEPT ![c] = @ \cup L]
        \/ peers' = peers
        \/ peers' = [peers EXCEPT ![c] = @ \ L]
    BY DEF OnPeersAdded, OnPeerLogout
  <2>3. peers \in [Clients -> SUBSET Clients]
    BY DEF Inv, TypeOK
  <2> HIDE DEF L
  <2>4. QED
    BY <2>1, <2>2, <2>3
<1>5. notices' \in [Clients -> Seq(Notice)]
  <2>1. Tail(notices[c]) \in Seq(Notice)
    BY <1>1
  <2>2. notices' = [notices EXCEPT ![c] = Tail(@)]
    BY DEF OnPeersAdded, OnPeerLogout, Receive
  <2>3. QED
    BY <2>1, <2>2 DEF Inv, TypeOK
<1>6. UNCHANGED <<link, chan, opens, requests, clients, udp, users, sources,
                  asked, closing>>
  BY DEF OnPeersAdded, OnPeerLogout, Receive, serverVars, handlerVars
<1>7. TypeOK'
  BY <1>4, <1>5, <1>6 DEF Inv, TypeOK
<1>8. ASSUME NEW d \in Clients
      PROVE  Linked(d)' /\ LoggedOut(d)'
  BY <1>6, SameClient DEF Inv
<1>9. QED
  BY <1>7, <1>8 DEF Inv

(* The server's steps.                                                     *)
LEMMA HeartbeatInv ==
    ASSUME Inv, UNCHANGED env, NEW c \in Clients, OnUdpHeartbeat(c)
    PROVE  Inv'
<1>1. TypeOK'
  BY DEF Inv, TypeOK, OnUdpHeartbeat, clientVars, handlerVars
<1>2. ASSUME NEW d \in Clients
      PROVE  Linked(d)' /\ LoggedOut(d)'
  BY SameClient DEF Inv, OnUdpHeartbeat, clientVars, handlerVars
<1>3. QED
  BY <1>1, <1>2 DEF Inv

(* A request handled: what it does to the client it came from.             *)
LEMMA Handled ==
    ASSUME Inv, NEW c \in Clients, NEW r, TakeRequest(c, r),
           UNCHANGED <<link, chan, clients, closing>>,
           r = "LOGOUT_CHANNEL" => c \notin users',
           r # "LOGIN_CHANNEL" /\ c \notin users => c \notin users'
    PROVE  Linked(c)' /\ LoggedOut(c)'
<1>1. requests[c] \in Seq(Request) /\ requests[c] # <<>>
      /\ requests[c][1] = r /\ requests'[c] = Tail(requests[c])
  BY TakeTypes DEF Inv, TypeOK
<1>2. link[c] = "up" /\ c \in clients /\ c \notin closing
  BY <1>1, TakeTypes DEF Inv, TypeOK, Linked
<1>3. Linked(c)'
  BY <1>2 DEF Linked
<1>4. ASSUME chan[c] = "closed"
      PROVE  \/ c \notin users' /\ NoLoginFrom(requests'[c], 1)
             \/ \E i \in 1 .. Len(requests'[c]) :
                   /\ requests'[c][i] = "LOGOUT_CHANNEL"
                   /\ NoLoginFrom(requests'[c], i)
  <2>1. \/ c \notin users /\ NoLoginFrom(requests[c], 1)
        \/ \E i \in 1 .. Len(requests[c]) :
              /\ requests[c][i] = "LOGOUT_CHANNEL"
              /\ NoLoginFrom(requests[c], i)
    BY <1>2, <1>4 DEF Inv, LoggedOut
  <2>2. QED
    BY <1>1, <2>1, TailLoggedOut
<1>5. LoggedOut(c)'
  BY <1>4 DEF LoggedOut, NoLoginFrom
<1>6. QED
  BY <1>3, <1>5

LEMMA LoginInv ==
    ASSUME Inv, UNCHANGED env, NEW c \in Clients, OnLoginChannel(c)
    PROVE  Inv'
<1>1. TakeRequest(c, "LOGIN_CHANNEL") /\ users' = users \cup {c}
  BY DEF OnLoginChannel
<1>2. UNCHANGED <<link, chan, peers, opens, clients, udp, asked, closing>>
  BY DEF OnLoginChannel, clientVars, handlerVars
<1>3. c \in clients
  BY <1>1, TakeTypes DEF Inv, TypeOK, Linked
<1>4. notices' \in [Clients -> Seq(Notice)]
  <2>1. [kind |-> "PEERLOGIN", list |-> {c}] \in Notice
    BY DEF Notice
  <2>2. QED
    BY <2>1, PushTypes DEF Inv, OnLoginChannel, Notify
<1>5. TypeOK'
  BY <1>1, <1>2, <1>3, <1>4, TakeTypes DEF Inv, TypeOK, OnLoginChannel
<1>6. Linked(c)' /\ LoggedOut(c)'
  BY <1>1, <1>2, Handled
<1>7. ASSUME NEW d \in Clients \ {c}
      PROVE  Linked(d)' /\ LoggedOut(d)'
  BY <1>1, <1>2, TakeTypes, SameClient DEF Inv
<1>8. QED
  BY <1>5, <1>6, <1>7 DEF Inv

LEMMA LogoutInv ==
    ASSUME Inv, UNCHANGED env, NEW c \in Clients, OnLogoutChannel(c)
    PROVE  Inv'
<1>1. TakeRequest(c, "LOGOUT_CHANNEL")
  BY DEF OnLogoutChannel
<1>2. UNCHANGED <<link, chan, peers, opens, clients, udp, asked, closing>>
  BY DEF OnLogoutChannel, clientVars, handlerVars
<1>3. /\ sources' \subseteq users' \cap Sources
      /\ users' \subseteq users \ {c}
      /\ notices' \in [Clients -> Seq(Notice)]
  <2>1. CASE users # {}
    BY <2>1, LeaveTypes DEF Inv, OnLogoutChannel
  <2>2. CASE users = {}
    BY <2>2 DEF Inv, TypeOK, OnLogoutChannel
  <2>3. QED
    BY <2>1, <2>2
<1>4. TypeOK'
  BY <1>1, <1>2, <1>3, TakeTypes DEF Inv, TypeOK
<1>5. Linked(c)' /\ LoggedOut(c)'
  BY <1>1, <1>2, <1>3, Handled
<1>6. ASSUME NEW d \in Clients \ {c}
      PROVE  Linked(d)' /\ LoggedOut(d)'
  BY <1>1, <1>2, <1>3, TakeTypes, SameClient DEF Inv
<1>7. QED
  BY <1>4, <1>5, <1>6 DEF Inv

LEMMA GetPeersInv ==
    ASSUME Inv, UNCHANGED env, NEW c \in Clients, OnGetPeers(c)
    PROVE  Inv'
<1>1. TakeRequest(c, "GETPEERS")
  BY DEF OnGetPeers
<1>2. UNCHANGED <<link, chan, peers, opens, notices, clients, udp, users,
                  sources, closing>>
  BY DEF OnGetPeers, clientVars, serverVars
<1>3. asked' \in [Clients -> {<<>>} \cup {<<S>> : S \in SUBSET Clients}]
  <2>1. users \ {c} \in SUBSET Clients
    BY DEF Inv, TypeOK
  <2>2. <<users \ {c}>> \in {<<S>> : S \in SUBSET Clients}
    BY <2>1
  <2>3. QED
    BY <2>2 DEF Inv, TypeOK, OnGetPeers
<1>4. TypeOK'
  BY <1>1, <1>2, <1>3, TakeTypes DEF Inv, TypeOK
<1>5. Linked(c)' /\ LoggedOut(c)'
  BY <1>1, <1>2, Handled
<1>6. ASSUME NEW d \in Clients \ {c}
      PROVE  Linked(d)' /\ LoggedOut(d)'
  BY <1>1, <1>2, TakeTypes, SameClient DEF Inv
<1>7. QED
  BY <1>4, <1>5, <1>6 DEF Inv

LEMMA AnswerInv ==
    ASSUME Inv, UNCHANGED env, NEW c \in Clients, AnswerGetPeers(c)
    PROVE  Inv'
<1>1. UNCHANGED <<link, chan, peers, opens, requests, clients, udp, users,
                  sources, closing>>
  BY DEF AnswerGetPeers, clientVars, serverVars
<1>2. PeerList(c) \subseteq Clients
  BY DEF Inv, TypeOK, PeerList, IsCanWork
<1>3. [kind |-> "GETPEERS_RET", list |-> PeerList(c)] \in Notice
  BY <1>2 DEF Notice
<1>4. notices' \in [Clients -> Seq(Notice)]
  BY <1>3, PushTypes DEF Inv, AnswerGetPeers
<1>5. asked' \in [Clients -> {<<>>} \cup {<<S>> : S \in SUBSET Clients}]
  BY DEF Inv, TypeOK, AnswerGetPeers
<1>6. TypeOK'
  BY <1>1, <1>4, <1>5 DEF Inv, TypeOK
<1>7. ASSUME NEW d \in Clients
      PROVE  Linked(d)' /\ LoggedOut(d)'
  BY <1>1, SameClient DEF Inv
<1>8. QED
  BY <1>6, <1>7 DEF Inv

LEMMA LinkCloseInv ==
    ASSUME Inv, UNCHANGED env, NEW c \in Clients, LinkClose(c)
    PROVE  Inv'
<1>1. UNCHANGED <<link, chan, peers, opens, requests, clients, udp, asked>>
      /\ closing' = closing \cup {c} /\ link[c] = "lost" /\ c \in clients
  BY DEF LinkClose, clientVars
<1>2. /\ sources' \subseteq users' \cap Sources
      /\ users' \subseteq users \ {c}
      /\ notices' \in [Clients -> Seq(Notice)]
  <2>1. CASE c \in users
    BY <2>1, LeaveTypes DEF Inv, LinkClose
  <2>2. CASE c \notin users
    BY <2>2 DEF Inv, TypeOK, LinkClose
  <2>3. QED
    BY <2>1, <2>2
<1>3. TypeOK'
  BY <1>1, <1>2 DEF Inv, TypeOK
<1>4. Linked(c)' /\ LoggedOut(c)'
  BY <1>1, <1>2, NotInQuestion DEF Inv, Linked
<1>5. ASSUME NEW d \in Clients \ {c}
      PROVE  Linked(d)' /\ LoggedOut(d)'
  BY <1>1, <1>2, SameClient DEF Inv
<1>6. QED
  BY <1>3, <1>4, <1>5 DEF Inv

LEMMA RemoveInv ==
    ASSUME Inv, UNCHANGED env, NEW c \in Clients, RemoveClient(c)
    PROVE  Inv'
<1>1. /\ UNCHANGED <<link, chan, peers, opens, requests, notices, users,
                     sources, asked>>
      /\ closing' = closing \ {c} /\ clients' = clients \ {c}
      /\ udp' = udp \ {c} /\ c \in closing
  BY DEF RemoveClient, clientVars
<1>2. link[c] = "lost" /\ c \notin users
  BY <1>1 DEF Inv, Linked
<1>3. TypeOK'
  BY <1>1, <1>2 DEF Inv, TypeOK
<1>4. Linked(c)' /\ LoggedOut(c)'
  BY <1>1, <1>2, NotInQuestion DEF Inv, Linked
<1>5. ASSUME NEW d \in Clients \ {c}
      PROVE  Linked(d)' /\ LoggedOut(d)'
  BY <1>1, SameClient DEF Inv
<1>6. QED
  BY <1>3, <1>4, <1>5 DEF Inv

LEMMA StutterInv ==
    ASSUME Inv, UNCHANGED vars
    PROVE  Inv'
<1>1. UNCHANGED <<env, link, chan, peers, opens, requests, notices, clients,
                  udp, users, sources, asked, closing>>
  BY DEF vars, clientVars, serverVars, handlerVars
<1>2. TypeOK'
  BY <1>1 DEF Inv, TypeOK
<1>3. ASSUME NEW d \in Clients
      PROVE  Linked(d)' /\ LoggedOut(d)'
  BY <1>1, SameClient DEF Inv
<1>4. QED
  BY <1>2, <1>3 DEF Inv

-----------------------------------------------------------------------------
LEMMA InvHolds == Spec => []Inv
<1>1. ASSUME Inv, [Next]_vars
      PROVE  Inv'
  BY <1>1, ConnectInv, OpenSourceInv, OpenInsertInv, CloseSourceInv, ExitInv,
     ReceiveInv, HeartbeatInv, LoginInv, LogoutInv, GetPeersInv, AnswerInv,
     LinkCloseInv, RemoveInv, StutterInv DEF Next
<1>2. QED
  BY <1>1, InitInv, PTL DEF Spec

(* The tables of client and server keep their types; in particular the     *)
(* users of the channel are clients the server has, and its sources are    *)
(* users (CChannel::UserLogout, CClientMgr::LinkClose).                    *)
THEOREM TypeCorrect == Spec => []TypeOK
<1>1. Inv => TypeOK
  BY DEF Inv
<1>2. QED
  BY <1>1, InvHolds, PTL

(* Once everything is handled, the server's users really have the channel  *)
(* open: whatever a client did, its last LOGOUT_CHANNEL or the loss of its *)
(* link has taken it out (CClientMgr::OnLogoutChannel, LinkClose).         *)
THEOREM UsersHaveItOpenHolds == Spec => []UsersHaveItOpen
<1>1. Inv => UsersHaveItOpen
  <2> SUFFICES ASSUME Inv, Settled, NEW c \in users
               PROVE  chan[c] = "open"
    BY DEF UsersHaveItOpen
  <2>1. c \in Clients /\ c \in clients
    BY DEF Inv, TypeOK
  <2>2. link[c] = "up"
    BY <2>1 DEF Inv, TypeOK, Linked, Settled
  <2>3. requests[c] = <<>> /\ chan[c] # "opening"
    BY <2>1 DEF Settled
  <2>4. Len(requests[c]) = 0
    BY <2>3
  <2>5. chan[c] # "closed"
    BY <2>1, <2>2, <2>4 DEF Inv, LoggedOut
  <2>6. QED
    BY <2>1, <2>3, <2>5 DEF Inv, TypeOK
<1>2. QED
  BY <1>1, InvHolds, PTL
=============================================================================
