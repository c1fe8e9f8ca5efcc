------------------------- MODULE TrackerPairs_proofs -------------------------
(***************************************************************************)
(* What the users of a channel come to know of one another, for any set of *)
(* clients: any two of them meet, none of a pair is missed when heartbeats *)
(* are late, and with one worker and one opening nobody keeps a user who   *)
(* has left.  The argument follows what is queued from the server to each  *)
(* client.                                                                 *)
(***************************************************************************)
EXTENDS Tracker_proofs, FiniteSetTheorems

(* What a client that knows P will know once it has received the notices q.*)
Says(n, y) == n.kind # "PEERLOGOUT" /\ y \in n.list
TakesBack(n, y) == n.kind = "PEERLOGOUT" /\ y \in n.list

Silent(q, y) == \A j \in 1 .. Len(q) : ~TakesBack(q[j], y)
Told(q, y) == \E i \in 1 .. Len(q) :
                 /\ Says(q[i], y)
                 /\ \A j \in 1 .. Len(q) : i < j => ~TakesBack(q[j], y)
Known(P, q, y) == Told(q, y) \/ (y \in P /\ Silent(q, y))

WillKnow(x, y) == Known(peers[x], notices[x], y)

LEMMA KnownAppend ==
    ASSUME NEW q \in Seq(Notice), NEW n \in Notice, NEW P, NEW y
    PROVE  Known(P, Append(q, n), y)
              <=> Says(n, y) \/ (Known(P, q, y) /\ ~TakesBack(n, y))
<1> DEFINE r == Append(q, n)
<1>1. /\ Len(q) \in Nat /\ Len(r) = Len(q) + 1
      /\ \A i \in 1 .. Len(q) : r[i] = q[i]
      /\ r[Len(q) + 1] = n
  OBVIOUS
<1> HIDE DEF r
<1>2. Silent(r, y) <=> Silent(q, y) /\ ~TakesBack(n, y)
  <2>1. \A j \in 1 .. Len(r) : j \in 1 .. Len(q) \/ j = Len(q) + 1
    BY <1>1
  <2>2. \A j \in 1 .. Len(q) : j \in 1 .. Len(r)
    BY <1>1
  <2>3. Len(q) + 1 \in 1 .. Len(r)
    BY <1>1
  <2>4. QED
    BY <1>1, <2>1, <2>2, <2>3 DEF Silent
<1>3. Told(r, y) <=> Says(n, y) \/ (Told(q, y) /\ ~TakesBack(n, y))
  <2>1. ASSUME Says(n, y) PROVE Told(r, y)
    <3>1. Len(q) + 1 \in 1 .. Len(r) /\ Says(r[Len(q) + 1], y)
      BY <1>1, <2>1
    <3>2. \A j \in 1 .. Len(r) : ~(Len(q) + 1 < j)
      BY <1>1
    <3>3. QED
      BY <3>1, <3>2 DEF Told
  <2>2. ASSUME Told(q, y), ~TakesBack(n, y) PROVE Told(r, y)
    <3>1. PICK i \in 1 .. Len(q) :
             /\ Says(q[i], y)
             /\ \A j \in 1 .. Len(q) : i < j => ~TakesBack(q[j], y)
      BY <2>2 DEF Told
    <3>2. i \in 1 .. Len(r) /\ Says(r[i], y)
      BY <1>1, <3>1
    <3>3. \A j \in 1 .. Len(r) : i < j => ~TakesBack(r[j], y)
      <4> SUFFICES ASSUME NEW j \in 1 .. Len(r), i < j
                   PROVE  ~TakesBack(r[j], y)
        OBVIOUS
      <4>1. j \in 1 .. Len(q) \/ j = Len(q) + 1
        BY <1>1
      <4>2. QED
        BY <1>1, <2>2, <3>1, <4>1
    <3>4. QED
      BY <3>2, <3>3 DEF Told
  <2>3. ASSUME Told(r, y), ~Says(n, y) PROVE Told(q, y) /\ ~TakesBack(n, y)
    <3>1. PICK i \in 1 .. Len(r) :
             /\ Says(r[i], y)
             /\ \A j \in 1 .. Len(r) : i < j => ~TakesBack(r[j], y)
      BY <2>3 DEF Told
    <3>2. i \in 1 .. Len(q)
      <4>1. i # Len(q) + 1
        BY <1>1, <2>3, <3>1
      <4>2. QED
        BY <1>1, <4>1
    <3>3. Len(q) + 1 \in 1 .. Len(r) /\ i < Len(q) + 1
      BY <1>1, <3>2
    <3>4. ~TakesBack(n, y)
      BY <1>1, <3>1, <3>3
    <3>5. \A j \in 1 .. Len(q) : i < j => ~TakesBack(q[j], y)
      <4> SUFFICES ASSUME NEW j \in 1 .. Len(q), i < j
                   PROVE  ~TakesBack(q[j], y)
        OBVIOUS
      <4>1. j \in 1 .. Len(r) /\ r[j] = q[j]
        BY <1>1
      <4>2. QED
        BY <3>1, <4>1
    <3>6. QED
      BY <1>1, <3>1, <3>2, <3>4, <3>5 DEF Told
  <2>4. Says(n, y) => ~TakesBack(n, y)
    BY DEF Says, TakesBack
  <2>5. QED
    BY <2>1, <2>2, <2>3, <2>4
<1>4. QED
  BY <1>2, <1>3 DEF Known, r

LEMMA KnownHead ==
    ASSUME NEW q \in Seq(Notice), q # <<>>, NEW P, NEW y
    PROVE  /\ Head(q).kind # "PEERLOGOUT" =>
                 (Known(P, q, y) <=> Known(P \cup Head(q).list, Tail(q), y))
           /\ Head(q).kind = "PEERLOGOUT" =>
                 (Known(P, q, y) <=> Known(P \ Head(q).list, Tail(q), y))
           /\ Head(q).kind # "PEERLOGOUT" =>
                 (Known(P, Tail(q), y) => Known(P, q, y))
<1> DEFINE t == Tail(q)
           n == Head(q)
<1>1. /\ Len(q) \in Nat \ {0} /\ Len(t) = Len(q) - 1
      /\ \A i \in 1 .. Len(t) : t[i] = q[i + 1] /\ i + 1 \in 1 .. Len(q)
      /\ q[1] = n /\ 1 \in 1 .. Len(q)
      /\ \A j \in 1 .. Len(q) : j = 1 \/ j - 1 \in 1 .. Len(t)
  OBVIOUS
<1> HIDE DEF t, n
<1>2. Silent(q, y) <=> Silent(t, y) /\ ~TakesBack(n, y)
  <2>1. ASSUME Silent(q, y) PROVE Silent(t, y) /\ ~TakesBack(n, y)
    BY <1>1, <2>1 DEF Silent
  <2>2. ASSUME Silent(t, y), ~TakesBack(n, y) PROVE Silent(q, y)
    <3> SUFFICES ASSUME NEW j \in 1 .. Len(q) PROVE ~TakesBack(q[j], y)
      BY DEF Silent
    <3>1. CASE j = 1
      BY <1>1, <2>2, <3>1
    <3>2. CASE j # 1
      <4>1. j - 1 \in 1 .. Len(t) /\ t[j - 1] = q[j]
        BY <1>1, <3>2
      <4>2. QED
        BY <2>2, <4>1 DEF Silent
    <3>3. QED
      BY <3>1, <3>2
  <2>3. QED
    BY <2>1, <2>2
<1>3. Told(q, y) <=> Told(t, y) \/ (Says(n, y) /\ Silent(t, y))
  <2>1. ASSUME Told(t, y) PROVE Told(q, y)
    <3>1. PICK i \in 1 .. Len(t) :
             /\ Says(t[i], y)
             /\ \A j \in 1 .. Len(t) : i < j => ~TakesBack(t[j], y)
      BY <2>1 DEF Told
    <3>2. i + 1 \in 1 .. Len(q) /\ Says(q[i + 1], y)
      BY <1>1, <3>1
    <3>3. \A j \in 1 .. Len(q) : i + 1 < j => ~TakesBack(q[j], y)
      <4> SUFFICES ASSUME NEW j \in 1 .. Len(q), i + 1 < j
                   PROVE  ~TakesBack(q[j], y)
        OBVIOUS
      <4>1. j - 1 \in 1 .. Len(t) /\ i < j - 1 /\ t[j - 1] = q[j]
        BY <1>1
      <4>2. QED
        BY <3>1, <4>1
    <3>4. QED
      BY <3>2, <3>3 DEF Told
  <2>2. ASSUME Says(n, y), Silent(t, y) PROVE Told(q, y)
    <3>1. \A j \in 1 .. Len(q) : 1 < j => ~TakesBack(q[j], y)
      <4> SUFFICES ASSUME NEW j \in 1 .. Len(q), 1 < j
                   PROVE  ~TakesBack(q[j], y)
        OBVIOUS
      <4>1. j - 1 \in 1 .. Len(t) /\ t[j - 1] = q[j]
        BY <1>1
      <4>2. QED
        BY <2>2, <4>1 DEF Silent
    <3>2. QED
      BY <1>1, <2>2, <3>1 DEF Told
  <2>3. ASSUME Told(q, y) PROVE Told(t, y) \/ (Says(n, y) /\ Silent(t, y))
    <3>1. PICK i \in 1 .. Len(q) :
             /\ Says(q[i], y)
             /\ \A j \in 1 .. Len(q) : i < j => ~TakesBack(q[j], y)
      BY <2>3 DEF Told
    <3>2. \A j \in 1 .. Len(t) : i < j + 1 => ~TakesBack(t[j], y)
      BY <1>1, <3>1
    <3>3. CASE i = 1
      <4>1. Says(n, y)
        BY <1>1, <3>1, <3>3
      <4>2. Silent(t, y)
        BY <1>1, <3>2, <3>3 DEF Silent
      <4>3. QED
        BY <4>1, <4>2
    <3>4. CASE i # 1
      <4>1. i - 1 \in 1 .. Len(t) /\ t[i - 1] = q[i]
        BY <1>1, <3>4
      <4>2. \A j \in 1 .. Len(t) : i - 1 < j => ~TakesBack(t[j], y)
        BY <1>1, <3>2
      <4>3. QED
        BY <3>1, <4>1, <4>2 DEF Told
    <3>5. QED
      BY <3>3, <3>4
  <2>4. QED
    BY <2>1, <2>2, <2>3
<1>4. QED
  BY <1>2, <1>3 DEF Known, Says, TakesBack, t, n

(* Nothing queued.                                                         *)
LEMMA KnownNow == \A P, y : Known(P, <<>>, y) <=> y \in P
<1>1. \A y : Silent(<<>>, y) /\ ~Told(<<>>, y)
  BY DEF Silent, Told
<1>2. QED
  BY <1>1 DEF Known

-----------------------------------------------------------------------------
(* What is true of each client's queues.                                   *)

(* GETPEERS follows every LOGIN_CHANNEL.                                   *)
Asks(q) == \A i \in 1 .. Len(q) : q[i] = "LOGIN_CHANNEL" =>
              i + 1 \in 1 .. Len(q) /\ q[i + 1] = "GETPEERS"

Gone(c) == link[c] # "up" => peers[c] = {} /\ notices[c] = <<>>

Heard(c) ==
    ~env.lateUdp =>
        /\ c \in users => c \in udp
        /\ link[c] = "up" /\ (requests[c] # <<>> \/ chan[c] # "closed") => c \in udp

Unknown(c) == c \notin users /\ notices[c] = <<>> /\ peers[c] = {} /\ asked[c] = <<>>

(* A client that opens the file once has no past before its login.         *)
First(c) ==
    opens[c] <= 1 =>
        /\ \A i \in 1 .. Len(requests[c]) : requests[c][i] = "LOGIN_CHANNEL" =>
              i = 1 /\ Unknown(c)
        /\ opens[c] = 0 => requests[c] = <<>> /\ chan[c] = "closed" /\ Unknown(c)

Queues(c) == Asks(requests[c]) /\ Gone(c) /\ Heard(c) /\ First(c)

OneBusy == env.workers = 1 => \A c, d \in Busy : c = d

QInv == OneBusy /\ \A c \in Clients : Queues(c)

(* A free worker of one: nothing is half done.                             *)
LEMMA FreeIsIdle ==
    ASSUME OneBusy, env.workers = 1, NEW c, FreeWorker(c)
    PROVE  Busy = {}
<1> SUFFICES ASSUME NEW d \in Busy PROVE FALSE
  OBVIOUS
<1>1. Busy = {d}
  BY DEF OneBusy
<1>2. Cardinality(Busy) = 1
  BY <1>1, FS_Singleton
<1>3. QED
  BY <1>2 DEF FreeWorker

LEMMA BusyStep ==
    ASSUME OneBusy, UNCHANGED env, NEW c,
           Busy' \subseteq Busy \/ (FreeWorker(c) /\ Busy' \subseteq Busy \cup {c})
    PROVE  OneBusy'
<1> SUFFICES ASSUME env.workers = 1 PROVE \A d, e \in Busy' : d = e
  BY DEF OneBusy
<1>1. CASE Busy' \subseteq Busy
  BY <1>1 DEF OneBusy
<1>2. CASE FreeWorker(c) /\ Busy' \subseteq Busy \cup {c}
  BY <1>2, FreeIsIdle
<1>3. QED
  BY <1>1, <1>2

(* A client whose own state stands still, but for a notice to a user.      *)
Bystander(d) ==
    /\ requests'[d] = requests[d] /\ link'[d] = link[d] /\ chan'[d] = chan[d]
    /\ opens'[d] = opens[d] /\ peers'[d] = peers[d] /\ asked'[d] = asked[d]
    /\ notices'[d] = notices[d] \/ (d \in users /\ link[d] = "up")
    /\ d \in users' => d \in users
    /\ d \in udp => d \in udp' \/ (link[d] # "up" /\ d \notin users')

LEMMA SameQueues ==
    ASSUME NEW d \in Clients, Queues(d), UNCHANGED env, Bystander(d)
    PROVE  Queues(d)'
<1> USE DEF Bystander
<1>1. Asks(requests[d])'
  BY DEF Queues, Asks
<1>2. Gone(d)'
  BY DEF Queues, Gone
<1>3. Heard(d)'
  BY DEF Queues, Heard
<1>4. First(d)'
  BY DEF Queues, First, Unknown
<1>5. QED
  BY <1>1, <1>2, <1>3, <1>4 DEF Queues

LEMMA QFrom ==
    ASSUME QInv, UNCHANGED env, NEW c \in Clients, Queues(c)' \/ Bystander(c),
           \A d \in Clients \ {c} : Bystander(d),
           Busy' \subseteq Busy \/ (FreeWorker(c) /\ Busy' \subseteq Busy \cup {c})
    PROVE  QInv'
<1>1. OneBusy'
  BY BusyStep DEF QInv
<1>2. ASSUME NEW d \in Clients PROVE Queues(d)'
  BY SameQueues DEF QInv
<1>3. QED
  BY <1>1, <1>2 DEF QInv

(* Whom Notify reaches.                                                    *)
LEMMA NotifyTells ==
    ASSUME TypeOK, NEW c \in Clients, NEW kind, Notify(c, users, kind),
           NEW d \in Clients
    PROVE  IF c \in clients /\ d \in users \ {c} /\ link[d] = "up"
           THEN notices'[d] = Append(notices[d], [kind |-> kind, list |-> {c}])
           ELSE notices'[d] = notices[d]
  BY DEF TypeOK, Notify, Push

LEMMA AsksTail ==
    ASSUME NEW q \in Seq(Request), q # <<>>, Asks(q)
    PROVE  Asks(Tail(q))
<1>1. /\ Len(q) \in Nat \ {0} /\ Len(Tail(q)) = Len(q) - 1
      /\ \A i \in 1 .. Len(Tail(q)) : Tail(q)[i] = q[i + 1] /\ i + 1 \in 1 .. Len(q)
  OBVIOUS
<1> SUFFICES ASSUME NEW i \in 1 .. Len(Tail(q)), Tail(q)[i] = "LOGIN_CHANNEL"
             PROVE  i + 1 \in 1 .. Len(Tail(q)) /\ Tail(q)[i + 1] = "GETPEERS"
  BY DEF Asks
<1>2. (i + 1) + 1 \in 1 .. Len(q) /\ q[(i + 1) + 1] = "GETPEERS"
  BY <1>1 DEF Asks
<1>3. QED
  BY <1>1, <1>2

LEMMA AsksMore ==
    ASSUME NEW q \in Seq(Request), Asks(q)
    PROVE  /\ Asks(Append(q, "LOGOUT_CHANNEL"))
           /\ Asks(q \o <<"LOGIN_CHANNEL", "GETPEERS">>)
           /\ Asks(q \o <<"LOGOUT_CHANNEL", "LOGIN_CHANNEL", "GETPEERS">>)
<1>1. Len(q) \in Nat
  OBVIOUS
<1>2. Asks(Append(q, "LOGOUT_CHANNEL"))
  <2> DEFINE r == Append(q, "LOGOUT_CHANNEL")
  <2>1. /\ Len(r) = Len(q) + 1
        /\ \A i \in 1 .. Len(q) : r[i] = q[i]
        /\ r[Len(q) + 1] = "LOGOUT_CHANNEL"
    BY DEF Request
  <2> HIDE DEF r
  <2>2. QED
    BY <1>1, <2>1 DEF Asks, r
<1>3. Asks(q \o <<"LOGIN_CHANNEL", "GETPEERS">>)
  <2> DEFINE r == q \o <<"LOGIN_CHANNEL", "GETPEERS">>
  <2>1. /\ Len(r) = Len(q) + 2
        /\ \A i \in 1 .. Len(q) : r[i] = q[i]
        /\ r[Len(q) + 1] = "LOGIN_CHANNEL" /\ r[Len(q) + 2] = "GETPEERS"
    BY DEF Request
  <2> HIDE DEF r
  <2>2. QED
    BY <1>1, <2>1 DEF Asks, r
<1>4. Asks(q \o <<"LOGOUT_CHANNEL", "LOGIN_CHANNEL", "GETPEERS">>)
  <2> DEFINE r == q \o <<"LOGOUT_CHANNEL", "LOGIN_CHANNEL", "GETPEERS">>
  <2>1. /\ Len(r) = Len(q) + 3
        /\ \A i \in 1 .. Len(q) : r[i] = q[i]
        /\ r[Len(q) + 1] = "LOGOUT_CHANNEL" /\ r[Len(q) + 2] = "LOGIN_CHANNEL"
        /\ r[Len(q) + 3] = "GETPEERS"
    BY DEF Request
  <2> HIDE DEF r
  <2>2. QED
    BY <1>1, <2>1 DEF Asks, r
<1>5. QED
  BY <1>2, <1>3, <1>4

-----------------------------------------------------------------------------
LEMMA InitQueues == Init => QInv
<1> SUFFICES ASSUME Init PROVE QInv
  OBVIOUS
<1>1. OneBusy
  BY DEF Init, OneBusy, Busy
<1>2. ASSUME NEW c \in Clients PROVE Queues(c)
  BY <1>2 DEF Init, Queues, Asks, Gone, Heard, First, Unknown
<1>3. QED
  BY <1>1, <1>2 DEF QInv

(* Every step keeps the queues: the client's steps.                        *)
LEMMA ConnectQueues ==
    ASSUME Inv, QInv, UNCHANGED env, NEW c \in Clients, Connect(c)
    PROVE  QInv'
<1>1. UNCHANGED <<chan, peers, opens, requests, notices, udp, users, asked, closing>>
  BY DEF Connect, handlerVars
<1>2. requests[c] = <<>> /\ chan[c] = "closed" /\ c \notin users /\ link'[c] = "up"
  BY DEF Inv, TypeOK, Linked, Connect
<1>3. Queues(c)'
  BY <1>1, <1>2 DEF QInv, Queues, Asks, Gone, Heard, First, Unknown
<1>4. \A d \in Clients \ {c} : Bystander(d)
  BY <1>1 DEF Bystander, Connect, Inv, TypeOK
<1>5. Busy' = Busy
  BY <1>1 DEF Busy
<1>6. QED
  BY <1>3, <1>4, <1>5, QFrom

LEMMA OpenSourceQueues ==
    ASSUME Inv, QInv, UNCHANGED env, NEW c \in Clients, OpenSource(c)
    PROVE  QInv'
<1>1. UNCHANGED <<link, notices, udp, users, asked, closing>>
  BY DEF OpenSource, serverVars, handlerVars
<1>2. /\ peers' = [peers EXCEPT ![c] = {}] /\ opens'[c] = opens[c] + 1
      /\ opens[c] \in Nat /\ chan'[c] = "opening" /\ requests[c] \in Seq(Request)
      /\ requests'[c] = requests[c] \o OpenRequests(c)
      /\ link[c] = "up" /\ (~env.lateUdp => c \in udp)
  BY DEF Inv, TypeOK, OpenSource
<1>3. Asks(requests[c])'
  BY <1>2, AsksMore DEF QInv, Queues, OpenRequests
<1>4. Gone(c)' /\ Heard(c)'
  BY <1>1, <1>2 DEF QInv, Queues, Gone, Heard
<1>5. First(c)'
  <2> SUFFICES ASSUME opens'[c] <= 1 PROVE First(c)'
    BY DEF First
  <2>1. opens[c] = 0 /\ opens'[c] # 0
    BY <1>2
  <2>2. requests[c] = <<>> /\ chan[c] = "closed" /\ Unknown(c)
    BY <2>1 DEF QInv, Queues, First
  <2>3. requests'[c] = <<"LOGIN_CHANNEL", "GETPEERS">>
    BY <1>2, <2>2 DEF OpenRequests
  <2>4. \A i \in 1 .. Len(requests'[c]) : requests'[c][i] = "LOGIN_CHANNEL" => i = 1
    BY <2>3
  <2>5. Unknown(c)'
    BY <1>1, <1>2, <2>2 DEF Unknown, Inv, TypeOK
  <2>6. QED
    BY <2>1, <2>4, <2>5 DEF First
<1>6. \A d \in Clients \ {c} : Bystander(d)
  BY <1>1 DEF Bystander, OpenSource, Inv, TypeOK
<1>7. Busy' = Busy
  BY <1>1 DEF Busy
<1>8. QED
  BY <1>3, <1>4, <1>5, <1>6, <1>7, QFrom DEF Queues

LEMMA OpenInsertQueues ==
    ASSUME Inv, QInv, UNCHANGED env, NEW c \in Clients, OpenInsert(c)
    PROVE  QInv'
<1>1. UNCHANGED <<link, peers, opens, requests, notices, udp, users, asked, closing>>
  BY DEF OpenInsert, serverVars, handlerVars
<1>2. chan[c] # "closed"
  BY DEF OpenInsert
<1>3. Queues(c)'
  BY <1>1, <1>2 DEF QInv, Queues, Asks, Gone, Heard, First, Unknown
<1>4. \A d \in Clients \ {c} : Bystander(d)
  BY <1>1 DEF Bystander, OpenInsert, Inv, TypeOK
<1>5. Busy' = Busy
  BY <1>1 DEF Busy
<1>6. QED
  BY <1>3, <1>4, <1>5, QFrom

LEMMA CloseSourceQueues ==
    ASSUME Inv, QInv, UNCHANGED env, NEW c \in Clients, CloseSource(c)
    PROVE  QInv'
<1>1. UNCHANGED <<link, opens, notices, udp, users, asked, closing>>
  BY DEF CloseSource, serverVars, handlerVars
<1>2. /\ peers' = [peers EXCEPT ![c] = {}]
      /\ requests[c] \in Seq(Request)
      /\ requests'[c] = Append(requests[c], "LOGOUT_CHANNEL")
      /\ chan[c] = "open" /\ link[c] = "up"
  BY DEF Inv, TypeOK, Linked, CloseSource
<1>3. Asks(requests[c])'
  BY <1>2, AsksMore DEF QInv, Queues
<1>4. Gone(c)' /\ Heard(c)'
  BY <1>1, <1>2 DEF QInv, Queues, Gone, Heard, Inv, TypeOK
<1>5. First(c)'
  <2> SUFFICES ASSUME opens[c] <= 1 PROVE First(c)'
    BY <1>1 DEF First
  <2>1. opens[c] # 0
    BY <1>2 DEF QInv, Queues, First
  <2>2. ASSUME NEW i \in 1 .. Len(requests'[c]), requests'[c][i] = "LOGIN_CHANNEL"
        PROVE  i \in 1 .. Len(requests[c]) /\ requests[c][i] = "LOGIN_CHANNEL"
    BY <1>2, <2>2
  <2>3. Unknown(c) => Unknown(c)'
    BY <1>1, <1>2 DEF Unknown, Inv, TypeOK
  <2>4. QED
    BY <1>1, <2>1, <2>2, <2>3 DEF QInv, Queues, First
<1>6. \A d \in Clients \ {c} : Bystander(d)
  BY <1>1 DEF Bystander, CloseSource, Inv, TypeOK
<1>7. Busy' = Busy
  BY <1>1 DEF Busy
<1>8. QED
  BY <1>3, <1>4, <1>5, <1>6, <1>7, QFrom DEF Queues

LEMMA ExitQueues ==
    ASSUME Inv, QInv, UNCHANGED env, NEW c \in Clients, Exit(c)
    PROVE  QInv'
<1>1. UNCHANGED <<opens, udp, users, asked, closing>>
  BY DEF Exit, serverVars, handlerVars
<1>2. /\ peers'[c] = {} /\ notices'[c] = <<>> /\ requests'[c] = <<>>
      /\ link'[c] = "lost" /\ chan'[c] = "closed"
  BY DEF Exit, Inv, TypeOK
<1>3. Queues(c)'
  BY <1>1, <1>2 DEF QInv, Queues, Asks, Gone, Heard, First, Unknown
<1>4. \A d \in Clients \ {c} : Bystander(d)
  BY <1>1 DEF Bystander, Exit, Inv, TypeOK
<1>5. Busy' = Busy
  BY <1>1 DEF Busy
<1>6. QED
  BY <1>3, <1>4, <1>5, QFrom

LEMMA ReceiveQueues ==
    ASSUME Inv, QInv, UNCHANGED env, NEW c \in Clients, OnPeersAdded(c) \/ OnPeerLogout(c)
    PROVE  QInv'
<1>1. UNCHANGED <<link, chan, opens, requests, udp, users, asked, closing>>
  BY DEF OnPeersAdded, OnPeerLogout, Receive, serverVars, handlerVars
<1>2. notices[c] # <<>>
  BY DEF OnPeersAdded, OnPeerLogout, Receive
<1>3. link[c] = "up"
  BY <1>2 DEF QInv, Queues, Gone
<1>4. Queues(c)'
  BY <1>1, <1>2, <1>3 DEF QInv, Queues, Asks, Gone, Heard, First, Unknown
<1>5. /\ notices' = [notices EXCEPT ![c] = Tail(@)]
      /\ \A d \in Clients \ {c} : peers'[d] = peers[d]
  <2>1. notices' = [notices EXCEPT ![c] = Tail(@)]
    BY DEF OnPeersAdded, OnPeerLogout, Receive
  <2>2. \A d \in Clients \ {c} : peers'[d] = peers[d]
    <3>1. CASE OnPeersAdded(c)
      BY <3>1 DEF OnPeersAdded, Inv, TypeOK
    <3>2. CASE OnPeerLogout(c)
      BY <3>2 DEF OnPeerLogout, Inv, TypeOK
    <3>3. QED
      BY <3>1, <3>2
  <2>3. QED
    BY <2>1, <2>2
<1>6. \A d \in Clients \ {c} : Bystander(d)
  BY <1>1, <1>5 DEF Bystander, Inv, TypeOK
<1>7. Busy' = Busy
  BY <1>1 DEF Busy
<1>8. QED
  BY <1>4, <1>6, <1>7, QFrom

(* The server's steps.                                                     *)
LEMMA HeartbeatQueues ==
    ASSUME Inv, QInv, UNCHANGED env, NEW c \in Clients, OnUdpHeartbeat(c)
    PROVE  QInv'
<1>1. /\ UNCHANGED <<link, chan, opens, peers, requests, notices, users, asked, closing>>
      /\ udp' = udp \cup {c}
  BY DEF OnUdpHeartbeat, clientVars, handlerVars
<1>2. \A d \in Clients : Bystander(d)
  BY <1>1 DEF Bystander
<1>3. Busy' = Busy
  BY <1>1 DEF Busy
<1>4. QED
  BY <1>2, <1>3, QFrom

(* A client whose first request is taken.                                  *)
LEMMA TakenQueues ==
    ASSUME Inv, QInv, UNCHANGED env, NEW c \in Clients, NEW r, TakeRequest(c, r),
           UNCHANGED <<link, opens, udp>>
    PROVE  Queues(c)' /\ link[c] = "up" /\ FreeWorker(c)
<1>1. /\ requests[c] \in Seq(Request) /\ requests[c] # <<>>
      /\ requests'[c] = Tail(requests[c])
  BY TakeTypes DEF Inv, TypeOK
<1>2. /\ Len(requests[c]) \in Nat \ {0}
      /\ \A i \in 1 .. Len(requests'[c]) :
            requests'[c][i] = requests[c][i + 1] /\ i + 1 \in 1 .. Len(requests[c])
  BY <1>1
<1>3. link[c] = "up"
  BY <1>1 DEF Inv, Linked
<1>4. Asks(requests[c])'
  BY <1>1, AsksTail DEF QInv, Queues
<1>5. Heard(c)' /\ Gone(c)'
  BY <1>1, <1>3 DEF QInv, Queues, Heard, Gone
<1>6. First(c)'
  <2>1. opens[c] <= 1 => opens[c] # 0
    BY <1>1 DEF QInv, Queues, First
  <2>2. ASSUME opens[c] <= 1, NEW i \in 1 .. Len(requests'[c])
        PROVE  requests'[c][i] # "LOGIN_CHANNEL"
    <3>1. i + 1 # 1
      OBVIOUS
    <3>2. QED
      BY <1>2, <2>2, <3>1 DEF QInv, Queues, First
  <2>3. QED
    BY <2>1, <2>2 DEF First
<1>7. QED
  BY <1>3, <1>4, <1>5, <1>6 DEF Queues, TakeRequest

LEMMA LoginQueues ==
    ASSUME Inv, QInv, UNCHANGED env, NEW c \in Clients, OnLoginChannel(c)
    PROVE  QInv'
<1>1. /\ TakeRequest(c, "LOGIN_CHANNEL") /\ users' = users \cup {c}
      /\ Notify(c, users, "PEERLOGIN")
      /\ UNCHANGED <<link, chan, peers, opens, udp, asked, closing>>
  BY DEF OnLoginChannel, clientVars, handlerVars
<1>2. \A d \in Clients \ {c} : Bystander(d)
  BY <1>1, TakeTypes, NotifyTells DEF Bystander, Inv
<1>3. Busy' = Busy
  BY <1>1 DEF Busy
<1>4. QED
  BY <1>1, <1>2, <1>3, TakenQueues, QFrom

LEMMA LogoutQueues ==
    ASSUME Inv, QInv, UNCHANGED env, NEW c \in Clients, OnLogoutChannel(c)
    PROVE  QInv'
<1>1. /\ TakeRequest(c, "LOGOUT_CHANNEL")
      /\ UNCHANGED <<link, chan, peers, opens, udp, asked, closing>>
  BY DEF OnLogoutChannel, clientVars, handlerVars
<1>2. /\ users' \subseteq users
      /\ \A d \in Clients \ {c} : notices'[d] = notices[d] \/ (d \in users /\ link[d] = "up")
  <2>1. CASE Leave(c)
    BY <2>1, LeaveTypes, NotifyTells DEF Leave, Inv
  <2>2. CASE UNCHANGED <<users, sources, notices>>
    BY <2>2
  <2>3. QED
    BY <2>1, <2>2 DEF OnLogoutChannel
<1>3. \A d \in Clients \ {c} : Bystander(d)
  BY <1>1, <1>2, TakeTypes DEF Bystander, Inv
<1>4. Busy' = Busy
  BY <1>1 DEF Busy
<1>5. QED
  BY <1>1, <1>3, <1>4, TakenQueues, QFrom

LEMMA GetPeersQueues ==
    ASSUME Inv, QInv, UNCHANGED env, NEW c \in Clients, OnGetPeers(c)
    PROVE  QInv'
<1>1. /\ TakeRequest(c, "GETPEERS")
      /\ UNCHANGED <<link, chan, peers, opens, notices, udp, users, closing>>
      /\ \A d \in Clients \ {c} : asked'[d] = asked[d]
  BY DEF OnGetPeers, clientVars, serverVars, Inv, TypeOK
<1>2. \A d \in Clients \ {c} : Bystander(d)
  BY <1>1, TakeTypes DEF Bystander, Inv
<1>3. Busy' \subseteq Busy \cup {c}
  BY <1>1 DEF Busy
<1>4. QED
  BY <1>1, <1>2, <1>3, TakenQueues, QFrom

LEMMA AnswerQueues ==
    ASSUME Inv, QInv, UNCHANGED env, NEW c \in Clients, AnswerGetPeers(c)
    PROVE  QInv'
<1>1. /\ UNCHANGED <<link, chan, peers, opens, requests, udp, users, closing>>
      /\ asked[c] # <<>> /\ asked' = [asked EXCEPT ![c] = <<>>]
      /\ Push({c} \cap clients, [kind |-> "GETPEERS_RET", list |-> PeerList(c)])
  BY DEF AnswerGetPeers, clientVars, serverVars
<1>2. link[c] # "up" => notices'[c] = notices[c]
  BY <1>1 DEF Push
<1>3. Queues(c)'
  BY <1>1, <1>2 DEF QInv, Queues, Asks, Gone, Heard, First, Unknown
<1>4. \A d \in Clients \ {c} : Bystander(d)
  BY <1>1 DEF Bystander, Push, Inv, TypeOK
<1>5. Busy' \subseteq Busy
  BY <1>1 DEF Busy, Inv, TypeOK
<1>6. QED
  BY <1>3, <1>4, <1>5, QFrom

LEMMA LinkCloseQueues ==
    ASSUME Inv, QInv, UNCHANGED env, NEW c \in Clients, LinkClose(c)
    PROVE  QInv'
<1>1. /\ UNCHANGED <<link, chan, peers, opens, requests, udp, asked>>
      /\ FreeWorker(c) /\ closing' = closing \cup {c}
  BY DEF LinkClose, clientVars
<1>2. /\ users' \subseteq users
      /\ \A d \in Clients : notices'[d] = notices[d] \/ (d \in users /\ link[d] = "up")
  <2>1. CASE Leave(c)
    BY <2>1, LeaveTypes, NotifyTells DEF Leave, Inv
  <2>2. CASE UNCHANGED <<users, sources, notices>>
    BY <2>2
  <2>3. QED
    BY <2>1, <2>2 DEF LinkClose
<1>3. \A d \in Clients : Bystander(d)
  BY <1>1, <1>2 DEF Bystander
<1>4. Busy' \subseteq Busy \cup {c}
  BY <1>1 DEF Busy
<1>5. QED
  BY <1>1, <1>3, <1>4, QFrom

LEMMA RemoveClientQueues ==
    ASSUME Inv, QInv, UNCHANGED env, NEW c \in Clients, RemoveClient(c)
    PROVE  QInv'
<1>1. /\ UNCHANGED <<link, chan, peers, opens, requests, notices, users, asked>>
      /\ closing' = closing \ {c} /\ udp' = udp \ {c} /\ c \in closing
  BY DEF RemoveClient, clientVars
<1>2. link[c] = "lost" /\ c \notin users
  BY <1>1 DEF Inv, Linked
<1>3. \A d \in Clients : Bystander(d)
  BY <1>1, <1>2 DEF Bystander
<1>4. Busy' \subseteq Busy
  BY <1>1 DEF Busy
<1>5. QED
  BY <1>3, <1>4, QFrom

LEMMA StepQueues == Inv /\ QInv /\ [Next]_vars => QInv'
<1> SUFFICES ASSUME Inv, QInv, [Next]_vars PROVE QInv'
  OBVIOUS
<1>1. CASE UNCHANGED vars
  <2>1. /\ UNCHANGED <<env, link, chan, peers, opens, requests, notices, udp, users, asked, closing>>
    BY <1>1 DEF vars, clientVars, serverVars, handlerVars
  <2>2. QED
    BY <2>1 DEF QInv, OneBusy, Busy, Queues, Asks, Gone, Heard, First, Unknown
<1>2. CASE Next
  BY <1>2, ConnectQueues, OpenSourceQueues, OpenInsertQueues, CloseSourceQueues,
     ExitQueues, ReceiveQueues, HeartbeatQueues, LoginQueues, LogoutQueues,
     GetPeersQueues, AnswerQueues, LinkCloseQueues, RemoveClientQueues DEF Next
<1>3. QED
  BY <1>1, <1>2

-----------------------------------------------------------------------------
(* A user that does not leave is told, or has yet to ask, of every other.  *)
Staying(x) ==
    /\ x \in users /\ link[x] = "up"
    /\ \A i \in 1 .. Len(requests[x]) : requests[x][i] # "LOGOUT_CHANNEL"

HasAsked(x, y) ==
    \/ \E i \in 1 .. Len(requests[x]) : requests[x][i] = "GETPEERS"
    \/ asked[x] # <<>> /\ y \in Head(asked[x])

Strangers(x, y) == x # y /\ ~({x, y} \subseteq Sources)

PairMeets(x, y) ==
    Staying(x) /\ Staying(y) /\ x # y => WillKnow(x, y) \/ WillKnow(y, x)

WillMeet(x, y) ==
    ~env.lateUdp /\ Staying(x) /\ y \in users /\ Strangers(x, y) =>
        WillKnow(x, y) \/ HasAsked(x, y)

MeetInv == ~env.slowOpen =>
              \A x, y \in Clients : PairMeets(x, y) /\ WillMeet(x, y)

(* What a step keeps that lets nobody in.                                  *)
Keeps(x, y) ==
    Staying(x)' /\ y \in users' =>
        /\ Staying(x) /\ y \in users
        /\ WillKnow(x, y) => WillKnow(x, y)'
        /\ ~env.lateUdp /\ Strangers(x, y) /\ HasAsked(x, y) =>
              WillKnow(x, y)' \/ HasAsked(x, y)'

LEMMA KeepsMeet ==
    ASSUME MeetInv, UNCHANGED env,
           ~env.slowOpen => \A x, y \in Clients : Keeps(x, y)
    PROVE  MeetInv'
<1> SUFFICES ASSUME ~env.slowOpen, NEW x \in Clients, NEW y \in Clients
             PROVE  PairMeets(x, y)' /\ WillMeet(x, y)'
  BY DEF MeetInv
<1>1. Keeps(x, y) /\ Keeps(y, x) /\ PairMeets(x, y) /\ WillMeet(x, y)
  BY DEF MeetInv
<1>2. PairMeets(x, y)'
  <2> SUFFICES ASSUME Staying(x)', Staying(y)', x # y
               PROVE  WillKnow(x, y)' \/ WillKnow(y, x)'
    BY DEF PairMeets
  <2>1. x \in users' /\ y \in users'
    BY DEF Staying
  <2>2. QED
    BY <1>1, <2>1 DEF Keeps, PairMeets
<1>3. WillMeet(x, y)'
  <2>1. Strangers(x, y)' <=> Strangers(x, y)
    BY DEF Strangers
  <2>2. QED
    BY <1>1, <2>1 DEF Keeps, WillMeet
<1>4. QED
  BY <1>2, <1>3

(* A client that does nothing, and may be told something harmless.         *)
Quiet(x) == /\ requests'[x] = requests[x] /\ link'[x] = link[x]
            /\ peers'[x] = peers[x] /\ asked'[x] = asked[x]

LEMMA QuietKeeps ==
    ASSUME TypeOK, NEW x \in Clients, NEW y \in Clients, Quiet(x),
           users' \subseteq users,
           \/ notices'[x] = notices[x]
           \/ \E n \in Notice : /\ notices'[x] = Append(notices[x], n)
                                /\ y \in users' => ~TakesBack(n, y)
    PROVE  Keeps(x, y)
<1> SUFFICES ASSUME Staying(x)', y \in users'
             PROVE  /\ Staying(x) /\ y \in users
                    /\ WillKnow(x, y) => WillKnow(x, y)'
                    /\ HasAsked(x, y) => HasAsked(x, y)'
  BY DEF Keeps
<1>1. Staying(x) /\ y \in users
  BY DEF Staying, Quiet
<1>2. HasAsked(x, y) => HasAsked(x, y)'
  BY DEF HasAsked, Quiet
<1>3. WillKnow(x, y) => WillKnow(x, y)'
  <2>1. CASE notices'[x] = notices[x]
    BY <2>1 DEF WillKnow, Quiet
  <2>2. ASSUME NEW n \in Notice, notices'[x] = Append(notices[x], n),
               ~TakesBack(n, y)
        PROVE  WillKnow(x, y) => WillKnow(x, y)'
    <3>1. notices[x] \in Seq(Notice)
      BY DEF TypeOK
    <3>2. Known(peers[x], notices[x], y) => Known(peers[x], Append(notices[x], n), y)
      BY <2>2, <3>1, KnownAppend
    <3>3. QED
      BY <2>2, <3>2 DEF WillKnow, Quiet
  <2>3. QED
    BY <2>1, <2>2
<1>4. QED
  BY <1>1, <1>2, <1>3

(* Whoever leaves is no user when the others are told.                     *)
LEMMA LeaveTells ==
    ASSUME TypeOK, NEW c \in Clients, Leave(c) \/ UNCHANGED <<users, notices>>,
           NEW x \in Clients, NEW y \in Clients
    PROVE  /\ users' \subseteq users
           /\ \/ notices'[x] = notices[x]
              \/ \E n \in Notice : /\ notices'[x] = Append(notices[x], n)
                                   /\ y \in users' => ~TakesBack(n, y)
<1>1. CASE Leave(c)
  <2> DEFINE n == [kind |-> "PEERLOGOUT", list |-> {c}]
  <2>1. n \in Notice
    BY DEF Notice
  <2>2. users' \subseteq users \ {c}
    BY <1>1, LeaveTypes
  <2>3. notices'[x] = notices[x] \/ notices'[x] = Append(notices[x], n)
    BY <1>1, NotifyTells DEF Leave
  <2>4. y \in users' => ~TakesBack(n, y)
    BY <2>2 DEF TakesBack
  <2>5. QED
    BY <2>1, <2>2, <2>3, <2>4
<1>2. CASE UNCHANGED <<users, notices>>
  BY <1>2
<1>3. QED
  BY <1>1, <1>2

(* Nobody stays who has a LOGOUT_CHANNEL under way or no link.             *)
LEMMA Leaving ==
    ASSUME NEW x, NEW y,
           \/ x \notin users' \/ link'[x] # "up"
           \/ \E i \in 1 .. Len(requests'[x]) : requests'[x][i] = "LOGOUT_CHANNEL"
    PROVE  Keeps(x, y)
  BY DEF Keeps, Staying

-----------------------------------------------------------------------------
(* Every step but a login keeps what a pair knows: the client's steps.     *)
LEMMA ConnectKeeps ==
    ASSUME Inv, NEW c \in Clients, Connect(c), NEW x \in Clients, NEW y \in Clients
    PROVE  Keeps(x, y)
<1>1. UNCHANGED <<peers, requests, notices, users, asked>>
  BY DEF Connect, handlerVars
<1>2. c \notin users'
  BY <1>1 DEF Inv, TypeOK, Linked, Connect
<1>3. CASE x = c
  BY <1>2, <1>3, Leaving
<1>4. CASE x # c
  <2>1. Quiet(x)
    BY <1>1, <1>4 DEF Quiet, Connect, Inv, TypeOK
  <2>2. QED
    BY <1>1, <2>1, QuietKeeps DEF Inv
<1>5. QED
  BY <1>3, <1>4

LEMMA JoinKeeps ==
    ASSUME NEW q \in Seq(Request), NEW o \in Seq(Request),
           \/ \E i \in 1 .. Len(q) : q[i] = "LOGOUT_CHANNEL"
           \/ Len(o) # 0 /\ o[1] = "LOGOUT_CHANNEL"
    PROVE  \E i \in 1 .. Len(q \o o) : (q \o o)[i] = "LOGOUT_CHANNEL"
<1> DEFINE r == q \o o
<1>1. /\ Len(q) \in Nat /\ Len(o) \in Nat /\ Len(r) = Len(q) + Len(o)
      /\ \A i \in 1 .. Len(q) : r[i] = q[i] /\ i \in 1 .. Len(r)
      /\ Len(o) # 0 => r[Len(q) + 1] = o[1]
  OBVIOUS
<1> HIDE DEF r
<1>2. Len(o) # 0 => Len(q) + 1 \in 1 .. Len(r)
  BY <1>1
<1>3. \E i \in 1 .. Len(r) : r[i] = "LOGOUT_CHANNEL"
  BY <1>1, <1>2
<1>4. QED
  BY <1>3 DEF r

LEMMA OpenSourceKeeps ==
    ASSUME Inv, NEW c \in Clients, OpenSource(c), NEW x \in Clients, NEW y \in Clients
    PROVE  Keeps(x, y)
<1>1. UNCHANGED <<link, notices, users, asked>>
  BY DEF OpenSource, serverVars, handlerVars
<1>2. CASE x = c
  <2>1. /\ requests[c] \in Seq(Request) /\ link[c] = "up"
        /\ requests'[c] = requests[c] \o OpenRequests(c)
        /\ chan[c] = "open" \/ chan[c] = "closed"
    BY DEF OpenSource, Inv, TypeOK
  <2>2. CASE chan[c] = "open"
    <3> DEFINE o == <<"LOGOUT_CHANNEL", "LOGIN_CHANNEL", "GETPEERS">>
    <3>1. requests'[c] = requests[c] \o o
      BY <2>1, <2>2 DEF OpenRequests
    <3>2. o \in Seq(Request) /\ Len(o) # 0 /\ o[1] = "LOGOUT_CHANNEL"
      BY DEF Request
    <3> HIDE DEF o
    <3>3. \E i \in 1 .. Len(requests'[c]) : requests'[c][i] = "LOGOUT_CHANNEL"
      <4>1. \E i \in 1 .. Len(requests[c] \o o) :
               (requests[c] \o o)[i] = "LOGOUT_CHANNEL"
        BY <2>1, <3>2, JoinKeeps
      <4>2. QED
        BY <3>1, <4>1
    <3>4. QED
      BY <1>2, <3>3, Leaving
  <2>3. CASE chan[c] = "closed"
    <3>1. \/ c \notin users
          \/ \E i \in 1 .. Len(requests[c]) : requests[c][i] = "LOGOUT_CHANNEL"
      BY <2>1, <2>3 DEF Inv, LoggedOut
    <3> DEFINE o == <<"LOGIN_CHANNEL", "GETPEERS">>
    <3>2. requests'[c] = requests[c] \o o
      BY <2>1, <2>3 DEF OpenRequests
    <3>3. o \in Seq(Request)
      BY DEF Request
    <3> HIDE DEF o
    <3>4. (\E i \in 1 .. Len(requests[c]) : requests[c][i] = "LOGOUT_CHANNEL") =>
             \E i \in 1 .. Len(requests'[c]) : requests'[c][i] = "LOGOUT_CHANNEL"
      BY <2>1, <3>2, <3>3, JoinKeeps
    <3>5. QED
      BY <1>1, <1>2, <3>1, <3>4, Leaving
  <2>4. QED
    BY <2>1, <2>2, <2>3
<1>3. CASE x # c
  <2>1. Quiet(x)
    BY <1>1, <1>3 DEF Quiet, OpenSource, Inv, TypeOK
  <2>2. QED
    BY <1>1, <2>1, QuietKeeps DEF Inv
<1>4. QED
  BY <1>2, <1>3

LEMMA OpenInsertKeeps ==
    ASSUME Inv, NEW c \in Clients, OpenInsert(c), NEW x \in Clients, NEW y \in Clients
    PROVE  Keeps(x, y)
<1>1. UNCHANGED <<link, peers, requests, notices, users, asked>>
  BY DEF OpenInsert, serverVars, handlerVars
<1>2. QED
  BY <1>1, QuietKeeps DEF Quiet, Inv

LEMMA CloseSourceKeeps ==
    ASSUME Inv, NEW c \in Clients, CloseSource(c), NEW x \in Clients, NEW y \in Clients
    PROVE  Keeps(x, y)
<1>1. UNCHANGED <<link, notices, users, asked>>
  BY DEF CloseSource, serverVars, handlerVars
<1>2. CASE x = c
  <2>1. /\ requests[c] \in Seq(Request)
        /\ requests'[c] = Append(requests[c], "LOGOUT_CHANNEL")
    BY DEF CloseSource, Inv, TypeOK
  <2>2. /\ Len(requests[c]) + 1 \in 1 .. Len(requests'[c])
        /\ requests'[c][Len(requests[c]) + 1] = "LOGOUT_CHANNEL"
    BY <2>1
  <2>3. QED
    BY <1>2, <2>2, Leaving
<1>3. CASE x # c
  <2>1. Quiet(x)
    BY <1>1, <1>3 DEF Quiet, CloseSource, Inv, TypeOK
  <2>2. QED
    BY <1>1, <2>1, QuietKeeps DEF Inv
<1>4. QED
  BY <1>2, <1>3

LEMMA ExitKeeps ==
    ASSUME Inv, NEW c \in Clients, Exit(c), NEW x \in Clients, NEW y \in Clients
    PROVE  Keeps(x, y)
<1>1. UNCHANGED <<users, asked>>
  BY DEF Exit, serverVars, handlerVars
<1>2. CASE x = c
  <2>1. link'[c] # "up"
    BY DEF Exit, Inv, TypeOK
  <2>2. QED
    BY <1>2, <2>1, Leaving
<1>3. CASE x # c
  <2>1. Quiet(x) /\ notices'[x] = notices[x]
    BY <1>1, <1>3 DEF Quiet, Exit, Inv, TypeOK
  <2>2. QED
    BY <1>1, <2>1, QuietKeeps DEF Inv
<1>4. QED
  BY <1>2, <1>3

(* A client that stays has its channel, so a notice finds it.              *)
LEMMA ReceiveKeeps ==
    ASSUME Inv, ~env.slowOpen, NEW c \in Clients, OnPeersAdded(c) \/ OnPeerLogout(c),
           NEW x \in Clients, NEW y \in Clients
    PROVE  Keeps(x, y)
<1>1. /\ UNCHANGED <<link, chan, requests, users, asked>>
      /\ notices' = [notices EXCEPT ![c] = Tail(@)]
      /\ notices[c] # <<>> /\ chan[c] # "opening"
  BY DEF OnPeersAdded, OnPeerLogout, Receive, serverVars, handlerVars
<1>2. CASE x = c
  <2> SUFFICES ASSUME Staying(x)', y \in users'
               PROVE  /\ Staying(x) /\ y \in users
                      /\ WillKnow(x, y) => WillKnow(x, y)'
                      /\ HasAsked(x, y) => HasAsked(x, y)'
    BY DEF Keeps
  <2>1. Staying(x) /\ y \in users /\ (HasAsked(x, y) => HasAsked(x, y)')
    BY <1>1 DEF Staying, HasAsked
  <2>2. chan[c] = "open"
    BY <1>1, <1>2, <2>1 DEF Staying, Inv, TypeOK, LoggedOut
  <2>3. notices[c] \in Seq(Notice) /\ notices'[c] = Tail(notices[c])
    BY <1>1 DEF Inv, TypeOK
  <2>4. CASE OnPeersAdded(c)
    <3>1. Head(notices[c]).kind # "PEERLOGOUT"
      BY <2>4 DEF OnPeersAdded, Receive
    <3>2. peers'[c] = peers[c] \cup Head(notices[c]).list
      BY <2>2, <2>4 DEF OnPeersAdded, Inv, TypeOK
    <3>3. Known(peers[c], notices[c], y) =>
             Known(peers[c] \cup Head(notices[c]).list, Tail(notices[c]), y)
      BY <1>1, <2>3, <3>1, KnownHead
    <3>4. QED
      BY <1>2, <2>1, <2>3, <3>2, <3>3 DEF WillKnow
  <2>5. CASE OnPeerLogout(c)
    <3>1. Head(notices[c]).kind = "PEERLOGOUT"
      BY <2>5 DEF OnPeerLogout, Receive
    <3>2. peers'[c] = peers[c] \ Head(notices[c]).list
      BY <2>5 DEF OnPeerLogout, Inv, TypeOK
    <3>3. Known(peers[c], notices[c], y) =>
             Known(peers[c] \ Head(notices[c]).list, Tail(notices[c]), y)
      BY <1>1, <2>3, <3>1, KnownHead
    <3>4. QED
      BY <1>2, <2>1, <2>3, <3>2, <3>3 DEF WillKnow
  <2>6. QED
    BY <2>4, <2>5
<1>3. CASE x # c
  <2>1. peers'[x] = peers[x]
    <3>1. CASE OnPeersAdded(c)
      BY <1>3, <3>1 DEF OnPeersAdded, Inv, TypeOK
    <3>2. CASE OnPeerLogout(c)
      BY <1>3, <3>2 DEF OnPeerLogout, Inv, TypeOK
    <3>3. QED
      BY <3>1, <3>2
  <2>2. Quiet(x) /\ notices'[x] = notices[x]
    BY <1>1, <1>3, <2>1 DEF Quiet, Inv, TypeOK
  <2>3. QED
    BY <1>1, <2>2, QuietKeeps DEF Inv
<1>4. QED
  BY <1>2, <1>3

(* The server's steps.                                                     *)
LEMMA HeartbeatKeeps ==
    ASSUME Inv, NEW c \in Clients, OnUdpHeartbeat(c), NEW x \in Clients, NEW y \in Clients
    PROVE  Keeps(x, y)
<1>1. UNCHANGED <<link, peers, requests, notices, users, asked>>
  BY DEF OnUdpHeartbeat, clientVars, handlerVars
<1>2. QED
  BY <1>1, QuietKeeps DEF Quiet, Inv

LEMMA LogoutKeeps ==
    ASSUME Inv, NEW c \in Clients, OnLogoutChannel(c), NEW x \in Clients, NEW y \in Clients
    PROVE  Keeps(x, y)
<1>1. /\ TakeRequest(c, "LOGOUT_CHANNEL")
      /\ UNCHANGED <<link, peers, asked>>
      /\ Leave(c) \/ (users = {} /\ UNCHANGED <<users, notices>>)
  BY DEF OnLogoutChannel, clientVars, handlerVars
<1>2. CASE x = c
  <2>1. c \notin users'
    BY <1>1, LeaveTypes DEF Inv
  <2>2. QED
    BY <1>2, <2>1, Leaving
<1>3. CASE x # c
  <2>1. Quiet(x)
    BY <1>1, <1>3, TakeTypes DEF Quiet, Inv
  <2>2. QED
    BY <1>1, <2>1, LeaveTells, QuietKeeps DEF Inv
<1>4. QED
  BY <1>2, <1>3

LEMMA GetPeersKeeps ==
    ASSUME Inv, NEW c \in Clients, OnGetPeers(c), NEW x \in Clients, NEW y \in Clients
    PROVE  Keeps(x, y)
<1>1. /\ TakeRequest(c, "GETPEERS")
      /\ UNCHANGED <<link, peers, notices, users>>
  BY DEF OnGetPeers, clientVars, serverVars
<1>2. CASE x = c
  <2> SUFFICES ASSUME Staying(x)', y \in users'
               PROVE  /\ Staying(x) /\ y \in users
                      /\ WillKnow(x, y) => WillKnow(x, y)'
                      /\ Strangers(x, y) => HasAsked(x, y)'
    BY DEF Keeps
  <2>1. y \in users /\ (WillKnow(x, y) => WillKnow(x, y)')
    BY <1>1 DEF WillKnow
  <2>2. Staying(x)
    <3>1. /\ requests[c] \in Seq(Request) /\ requests[c] # <<>>
          /\ requests[c][1] = "GETPEERS" /\ requests'[c] = Tail(requests[c])
      BY <1>1, TakeTypes DEF Inv, TypeOK
    <3>2. \A i \in 1 .. Len(requests[c]) :
             \/ i = 1
             \/ /\ i - 1 \in 1 .. Len(requests'[c])
                /\ requests'[c][i - 1] = requests[c][i]
      BY <3>1
    <3>3. QED
      BY <1>1, <1>2, <3>1, <3>2 DEF Staying
  <2>3. asked'[c] = <<users \ {c}>>
    BY <2>1 DEF OnGetPeers, Inv, TypeOK
  <2>4. Strangers(x, y) => HasAsked(x, y)'
    BY <1>2, <2>1, <2>3 DEF Strangers, HasAsked
  <2>5. QED
    BY <2>1, <2>2, <2>4
<1>3. CASE x # c
  <2>1. Quiet(x)
    BY <1>1, <1>3, TakeTypes DEF Quiet, OnGetPeers, Inv, TypeOK
  <2>2. QED
    BY <1>1, <2>1, QuietKeeps DEF Inv
<1>4. QED
  BY <1>2, <1>3

LEMMA AnswerKeeps ==
    ASSUME Inv, QInv, NEW c \in Clients, AnswerGetPeers(c),
           NEW x \in Clients, NEW y \in Clients
    PROVE  Keeps(x, y)
<1> DEFINE n == [kind |-> "GETPEERS_RET", list |-> PeerList(c)]
<1>1. /\ UNCHANGED <<link, peers, requests, users>>
      /\ asked[c] # <<>> /\ asked' = [asked EXCEPT ![c] = <<>>]
      /\ Push({c} \cap clients, n)
  BY DEF AnswerGetPeers, clientVars, serverVars
<1>2. n \in Notice
  BY DEF PeerList, IsCanWork, Inv, TypeOK, Notice
<1>3. CASE x = c
  <2> SUFFICES ASSUME Staying(x)', y \in users'
               PROVE  /\ Staying(x) /\ y \in users
                      /\ WillKnow(x, y) => WillKnow(x, y)'
                      /\ ~env.lateUdp /\ Strangers(x, y) /\ HasAsked(x, y) =>
                            WillKnow(x, y)' \/ HasAsked(x, y)'
    BY DEF Keeps
  <2>1. Staying(x) /\ y \in users
    BY <1>1 DEF Staying
  <2>2. notices'[c] = Append(notices[c], n)
    BY <1>1, <1>3, <2>1 DEF Push, Staying, Inv, TypeOK
  <2>3. notices[c] \in Seq(Notice)
    BY DEF Inv, TypeOK
  <2>4. WillKnow(x, y)' <=> Says(n, y) \/ (WillKnow(x, y) /\ ~TakesBack(n, y))
    BY <1>1, <1>2, <1>3, <2>2, <2>3, KnownAppend DEF WillKnow
  <2>5. ~TakesBack(n, y)
    BY DEF TakesBack
  <2>6. ASSUME ~env.lateUdp, Strangers(x, y), HasAsked(x, y)
        PROVE  WillKnow(x, y)' \/ HasAsked(x, y)'
    <3>1. CASE \E i \in 1 .. Len(requests[x]) : requests[x][i] = "GETPEERS"
      BY <1>1, <3>1 DEF HasAsked
    <3>2. CASE y \in Head(asked[x])
      <4>1. y \in clients /\ y \in udp
        BY <2>1, <2>6 DEF Inv, TypeOK, QInv, Queues, Heard
      <4>2. y \in PeerList(c)
        BY <1>3, <2>6, <3>2, <4>1 DEF PeerList, IsCanWork, Strangers
      <4>3. Says(n, y)
        BY <4>2 DEF Says
      <4>4. QED
        BY <2>4, <4>3
    <3>3. QED
      BY <2>6, <3>1, <3>2 DEF HasAsked
  <2>7. QED
    BY <2>1, <2>4, <2>5, <2>6
<1>4. CASE x # c
  <2>1. Quiet(x) /\ notices'[x] = notices[x]
    BY <1>1, <1>4 DEF Quiet, Push, Inv, TypeOK
  <2>2. QED
    BY <1>1, <2>1, QuietKeeps DEF Inv
<1>5. QED
  BY <1>3, <1>4

LEMMA LinkCloseKeeps ==
    ASSUME Inv, NEW c \in Clients, LinkClose(c), NEW x \in Clients, NEW y \in Clients
    PROVE  Keeps(x, y)
<1>1. /\ UNCHANGED <<link, peers, requests, asked>>
      /\ Leave(c) \/ UNCHANGED <<users, notices>>
  BY DEF LinkClose, clientVars
<1>2. QED
  BY <1>1, LeaveTells, QuietKeeps DEF Quiet, Inv

LEMMA RemoveClientKeeps ==
    ASSUME Inv, NEW c \in Clients, RemoveClient(c), NEW x \in Clients, NEW y \in Clients
    PROVE  Keeps(x, y)
<1>1. UNCHANGED <<link, peers, requests, notices, users, asked>>
  BY DEF RemoveClient, clientVars
<1>2. QED
  BY <1>1, QuietKeeps DEF Quiet, Inv

(* A login: the others are told, and the new user has yet to ask.          *)
LEMMA LoginMeet ==
    ASSUME Inv, QInv, MeetInv, UNCHANGED env, NEW c \in Clients, OnLoginChannel(c)
    PROVE  MeetInv'
<1> DEFINE n == [kind |-> "PEERLOGIN", list |-> {c}]
<1> SUFFICES ASSUME ~env.slowOpen, NEW x \in Clients, NEW y \in Clients
             PROVE  PairMeets(x, y)' /\ WillMeet(x, y)'
  BY DEF MeetInv
<1>1. /\ TakeRequest(c, "LOGIN_CHANNEL") /\ users' = users \cup {c}
      /\ Notify(c, users, "PEERLOGIN")
      /\ UNCHANGED <<link, peers, asked>>
  BY DEF OnLoginChannel, clientVars, handlerVars
<1>2. n \in Notice /\ \A z : ~TakesBack(n, z)
  BY DEF Notice, TakesBack
<1>3. c \in clients
  BY <1>1, TakeTypes DEF Inv, TypeOK, Linked
<1>4. ASSUME NEW a \in Clients \ {c}, Staying(a)'
      PROVE  Staying(a) /\ WillKnow(a, c)'
             /\ \A b : WillKnow(a, b) => WillKnow(a, b)'
  <2>1. Staying(a) /\ link[a] = "up"
    BY <1>1, <1>4, TakeTypes DEF Staying, Inv
  <2>2. notices'[a] = Append(notices[a], n)
    BY <1>1, <1>3, <2>1, NotifyTells DEF Staying, Inv
  <2>3. notices[a] \in Seq(Notice)
    BY DEF Inv, TypeOK
  <2>4. \A b : WillKnow(a, b)' <=> Says(n, b) \/ WillKnow(a, b)
    <3> HIDE DEF n
    <3>1. \A b : Known(peers[a], Append(notices[a], n), b)
                    <=> Says(n, b) \/ (Known(peers[a], notices[a], b) /\ ~TakesBack(n, b))
      BY <1>2, <2>3, KnownAppend
    <3>2. QED
      BY <1>1, <1>2, <2>2, <3>1 DEF WillKnow
  <2>5. Says(n, c)
    BY DEF Says
  <2>6. QED
    BY <2>1, <2>4, <2>5
<1>5. PairMeets(x, y)'
  <2> SUFFICES ASSUME Staying(x)', Staying(y)', x # y
               PROVE  WillKnow(x, y)' \/ WillKnow(y, x)'
    BY DEF PairMeets
  <2>1. CASE x = c \/ y = c
    BY <1>4, <2>1
  <2>2. CASE x # c /\ y # c
    <3>1. Staying(x) /\ Staying(y)
      BY <1>4, <2>2
    <3>2. WillKnow(x, y) \/ WillKnow(y, x)
      BY <3>1 DEF MeetInv, PairMeets
    <3>3. QED
      BY <1>4, <2>2, <3>2
  <2>3. QED
    BY <2>1, <2>2
<1>6. WillMeet(x, y)'
  <2> SUFFICES ASSUME ~env.lateUdp, Staying(x)', y \in users', Strangers(x, y)
               PROVE  WillKnow(x, y)' \/ HasAsked(x, y)'
    BY DEF WillMeet, Strangers
  <2>1. CASE x = c
    <3>1. /\ requests[c] \in Seq(Request) /\ requests[c] # <<>>
          /\ requests[c][1] = "LOGIN_CHANNEL" /\ requests'[c] = Tail(requests[c])
      BY <1>1, TakeTypes DEF Inv, TypeOK
    <3>2. 1 \in 1 .. Len(requests[c])
      BY <3>1
    <3>3. 1 + 1 \in 1 .. Len(requests[c]) /\ requests[c][1 + 1] = "GETPEERS"
      BY <3>1, <3>2 DEF QInv, Queues, Asks
    <3>4. 1 \in 1 .. Len(requests'[c]) /\ requests'[c][1] = requests[c][1 + 1]
      BY <3>1, <3>3
    <3>5. QED
      BY <2>1, <3>3, <3>4 DEF HasAsked
  <2>2. CASE x # c /\ y = c
    BY <1>4, <2>2
  <2>3. CASE x # c /\ y # c
    <3>1. Staying(x) /\ y \in users
      BY <1>1, <1>4, <2>3
    <3>2. WillKnow(x, y) \/ HasAsked(x, y)
      BY <3>1 DEF MeetInv, WillMeet
    <3>3. HasAsked(x, y) => HasAsked(x, y)'
      BY <1>1, <2>3, TakeTypes DEF HasAsked, Inv
    <3>4. QED
      BY <1>4, <2>3, <3>2, <3>3
  <2>4. QED
    BY <2>1, <2>2, <2>3
<1>7. QED
  BY <1>5, <1>6

LEMMA StepMeet == Inv /\ QInv /\ MeetInv /\ [Next]_vars => MeetInv'
<1> SUFFICES ASSUME Inv, QInv, MeetInv, [Next]_vars PROVE MeetInv'
  OBVIOUS
<1>1. CASE UNCHANGED vars
  <2>1. UNCHANGED <<env, link, peers, requests, notices, users, asked>>
    BY <1>1 DEF vars, clientVars, serverVars, handlerVars
  <2>2. \A x, y \in Clients : Keeps(x, y)
    BY <2>1, QuietKeeps DEF Quiet, Inv
  <2>3. QED
    BY <2>1, <2>2, KeepsMeet
<1>2. ASSUME UNCHANGED env, NEW c \in Clients,
             \/ Connect(c) \/ OpenSource(c) \/ OpenInsert(c) \/ CloseSource(c)
             \/ Exit(c) \/ OnPeersAdded(c) \/ OnPeerLogout(c) \/ OnUdpHeartbeat(c)
             \/ OnLogoutChannel(c) \/ OnGetPeers(c) \/ AnswerGetPeers(c)
             \/ LinkClose(c) \/ RemoveClient(c)
      PROVE  MeetInv'
  <2>1. ~env.slowOpen => \A x, y \in Clients : Keeps(x, y)
    BY <1>2, ConnectKeeps, OpenSourceKeeps, OpenInsertKeeps, CloseSourceKeeps,
       ExitKeeps, ReceiveKeeps, HeartbeatKeeps, LogoutKeeps, GetPeersKeeps,
       AnswerKeeps, LinkCloseKeeps, RemoveClientKeeps
  <2>2. QED
    BY <1>2, <2>1, KeepsMeet
<1>3. CASE Next
  BY <1>2, <1>3, LoginMeet DEF Next
<1>4. QED
  BY <1>1, <1>3

-----------------------------------------------------------------------------
(* With one worker and one opening a user hears of users only.             *)
Hears(x, y) == WillKnow(x, y) \/ (asked[x] # <<>> /\ y \in Head(asked[x]))

Once == env.workers = 1 /\ \A c \in Clients : opens[c] <= 1

GhostInv == Once => \A x \in users : \A y \in Clients : Hears(x, y) => y \in users

(* A step that takes no user brings no ghost when whatever a user hears    *)
(* is about a user or was heard before.                                    *)
Brings(x, y) ==
    x \in users' /\ Hears(x, y)' => y \in users' \/ (x \in users /\ Hears(x, y))

LEMMA NoGhostFrom ==
    ASSUME TypeOK, TypeOK', GhostInv, users \subseteq users', Once' => Once,
           Once' => \A x, y \in Clients : Brings(x, y)
    PROVE  GhostInv'
<1> SUFFICES ASSUME Once', NEW x \in users', NEW y \in Clients, Hears(x, y)'
             PROVE  y \in users'
  BY DEF GhostInv
<1>1. x \in Clients
  BY DEF TypeOK
<1>2. Brings(x, y)
  BY <1>1
<1>3. QED
  BY <1>2 DEF Brings, GhostInv

(* A client whose queues stand still.                                      *)
LEMMA QuietBrings ==
    ASSUME NEW x, NEW y, peers'[x] = peers[x], notices'[x] = notices[x],
           asked'[x] = asked[x], x \in users' => x \in users
    PROVE  Brings(x, y)
  BY DEF Brings, Hears, WillKnow

(* Whoever leaves is taken back from everyone, as nothing is half done.    *)
LEMMA LeaveGhost ==
    ASSUME Inv, QInv, GhostInv, UNCHANGED <<env, link, peers, opens, asked>>,
           NEW c \in Clients, FreeWorker(c), c \in clients,
           Leave(c) \/ UNCHANGED <<users, notices>>
    PROVE  GhostInv'
<1> DEFINE n == [kind |-> "PEERLOGOUT", list |-> {c}]
<1>1. Once' => Once
  BY DEF Once
<1>2. CASE Leave(c)
  <2> SUFFICES ASSUME Once, NEW x \in users', NEW y \in Clients, Hears(x, y)'
               PROVE  y \in users'
    BY <1>1 DEF GhostInv
  <2>1. users' = users \ {c} /\ x \in users /\ x \in Clients
    BY <1>2 DEF Leave, Inv, TypeOK
  <2>2. asked[x] = <<>>
    BY <2>1, FreeIsIdle DEF Once, QInv, Busy
  <2>3. Known(peers[x], notices'[x], y)
    BY <2>2 DEF Hears, WillKnow
  <2>4. link[x] = "up"
    <3> SUFFICES ASSUME link[x] # "up" PROVE FALSE
      OBVIOUS
    <3>1. peers[x] = {} /\ notices[x] = <<>>
      BY <2>1 DEF QInv, Queues, Gone
    <3>2. notices'[x] = notices[x]
      BY <1>2, <2>1, NotifyTells DEF Leave, Inv
    <3>3. QED
      BY <2>3, <3>1, <3>2, KnownNow
  <2>5. notices'[x] = Append(notices[x], n)
    BY <1>2, <2>1, <2>4, NotifyTells DEF Leave, Inv
  <2>6. n \in Notice /\ notices[x] \in Seq(Notice)
    BY <2>1 DEF Notice, Inv, TypeOK
  <2>7. ~Says(n, y) /\ (y = c => TakesBack(n, y))
    BY DEF Says, TakesBack
  <2>8. Known(peers[x], notices[x], y) /\ y # c
    <3> HIDE DEF n
    <3>1. QED
      BY <2>3, <2>5, <2>6, <2>7, KnownAppend
  <2>9. y \in users
    BY <2>1, <2>8 DEF GhostInv, Hears, WillKnow
  <2>10. QED
    BY <2>1, <2>8, <2>9
<1>3. CASE UNCHANGED <<users, notices>>
  BY <1>1, <1>3 DEF GhostInv, Hears, WillKnow
<1>4. QED
  BY <1>2, <1>3

-----------------------------------------------------------------------------
(* No step brings a ghost: the client's steps.                             *)
LEMMA ConnectGhost ==
    ASSUME Inv, Inv', GhostInv, UNCHANGED env, NEW c \in Clients,
           Connect(c) \/ OpenInsert(c) \/ OnUdpHeartbeat(c) \/ RemoveClient(c)
    PROVE  GhostInv'
<1>1. UNCHANGED <<peers, opens, notices, users, asked>>
  BY DEF Connect, OpenInsert, OnUdpHeartbeat, RemoveClient, clientVars, serverVars,
         handlerVars
<1>2. QED
  BY <1>1 DEF GhostInv, Once, Hears, WillKnow

LEMMA OpenSourceGhost ==
    ASSUME Inv, Inv', QInv, GhostInv, UNCHANGED env, NEW c \in Clients, OpenSource(c)
    PROVE  GhostInv'
<1>1. /\ UNCHANGED <<notices, users, asked>>
      /\ peers' = [peers EXCEPT ![c] = {}] /\ opens' = [opens EXCEPT ![c] = @ + 1]
      /\ opens \in [Clients -> Nat] /\ peers \in [Clients -> SUBSET Clients]
  BY DEF OpenSource, serverVars, handlerVars, Inv, TypeOK
<1>2. Once' => Once /\ opens[c] = 0
  <2> SUFFICES ASSUME Once' PROVE Once /\ opens[c] = 0
    OBVIOUS
  <2>1. \A d \in Clients : opens'[d] <= 1
    BY DEF Once
  <2>2. opens[c] = 0
    BY <1>1, <2>1
  <2>3. \A d \in Clients : opens[d] <= 1
    BY <1>1, <2>1, <2>2
  <2>4. QED
    BY <2>2, <2>3 DEF Once
<1>3. Once' => c \notin users
  BY <1>2 DEF QInv, Queues, First, Unknown
<1>4. ASSUME Once', NEW x \in Clients, NEW y \in Clients
      PROVE  Brings(x, y)
  <2>1. CASE x = c
    BY <1>1, <1>3, <1>4, <2>1 DEF Brings
  <2>2. CASE x # c
    BY <1>1, <2>2, QuietBrings
  <2>3. QED
    BY <2>1, <2>2
<1>5. QED
  BY <1>1, <1>2, <1>4, NoGhostFrom DEF Inv

LEMMA CloseSourceGhost ==
    ASSUME Inv, Inv', GhostInv, UNCHANGED env, NEW c \in Clients, CloseSource(c)
    PROVE  GhostInv'
<1>1. /\ UNCHANGED <<opens, notices, users, asked>>
      /\ peers' = [peers EXCEPT ![c] = {}] /\ peers \in [Clients -> SUBSET Clients]
  BY DEF CloseSource, serverVars, handlerVars, Inv, TypeOK
<1>2. ASSUME NEW x \in Clients, NEW y \in Clients
      PROVE  Brings(x, y)
  <2>1. CASE x = c
    <3>1. peers'[c] = {}
      BY <1>1
    <3>2. Known({}, notices[c], y) => Known(peers[c], notices[c], y)
      BY DEF Known
    <3>3. QED
      BY <1>1, <2>1, <3>1, <3>2 DEF Brings, Hears, WillKnow
  <2>2. CASE x # c
    BY <1>1, <2>2, QuietBrings
  <2>3. QED
    BY <2>1, <2>2
<1>3. QED
  BY <1>1, <1>2, NoGhostFrom DEF Inv, Once

LEMMA ExitGhost ==
    ASSUME Inv, Inv', GhostInv, UNCHANGED env, NEW c \in Clients, Exit(c)
    PROVE  GhostInv'
<1>1. /\ UNCHANGED <<opens, users, asked>>
      /\ peers' = [peers EXCEPT ![c] = {}] /\ peers \in [Clients -> SUBSET Clients]
      /\ notices' = [notices EXCEPT ![c] = <<>>] /\ notices \in [Clients -> Seq(Notice)]
  BY DEF Exit, serverVars, handlerVars, Inv, TypeOK
<1>2. ASSUME NEW x \in Clients, NEW y \in Clients
      PROVE  Brings(x, y)
  <2>1. CASE x = c
    <3>1. peers'[c] = {} /\ notices'[c] = <<>>
      BY <1>1
    <3>2. QED
      BY <1>1, <2>1, <3>1, KnownNow DEF Brings, Hears, WillKnow
  <2>2. CASE x # c
    BY <1>1, <2>2, QuietBrings
  <2>3. QED
    BY <2>1, <2>2
<1>3. QED
  BY <1>1, <1>2, NoGhostFrom DEF Inv, Once

LEMMA ReceiveGhost ==
    ASSUME Inv, Inv', GhostInv, UNCHANGED env, NEW c \in Clients,
           OnPeersAdded(c) \/ OnPeerLogout(c)
    PROVE  GhostInv'
<1>1. /\ UNCHANGED <<opens, users, asked>>
      /\ notices' = [notices EXCEPT ![c] = Tail(@)]
      /\ notices[c] # <<>>
  BY DEF OnPeersAdded, OnPeerLogout, Receive, serverVars, handlerVars
<1>2. ASSUME NEW x \in Clients, NEW y \in Clients
      PROVE  Brings(x, y)
  <2>1. CASE x = c
    <3>1. notices[c] \in Seq(Notice) /\ notices'[c] = Tail(notices[c])
      BY <1>1 DEF Inv, TypeOK
    <3>2. Known(peers'[c], Tail(notices[c]), y) => Known(peers[c], notices[c], y)
      <4>1. CASE OnPeersAdded(c)
        <5>1. Head(notices[c]).kind # "PEERLOGOUT"
          BY <4>1 DEF OnPeersAdded, Receive
        <5>2. \/ peers'[c] = peers[c] \cup Head(notices[c]).list
              \/ peers'[c] = peers[c]
          BY <4>1 DEF OnPeersAdded, Inv, TypeOK
        <5>3. QED
          BY <1>1, <3>1, <5>1, <5>2, KnownHead
      <4>2. CASE OnPeerLogout(c)
        <5>1. Head(notices[c]).kind = "PEERLOGOUT"
          BY <4>2 DEF OnPeerLogout, Receive
        <5>2. peers'[c] = peers[c] \ Head(notices[c]).list
          BY <4>2 DEF OnPeerLogout, Inv, TypeOK
        <5>3. QED
          BY <1>1, <3>1, <5>1, <5>2, KnownHead
      <4>3. QED
        BY <4>1, <4>2
    <3>3. QED
      BY <1>1, <2>1, <3>1, <3>2 DEF Brings, Hears, WillKnow
  <2>2. CASE x # c
    <3>1. peers'[x] = peers[x]
      <4>1. CASE OnPeersAdded(c)
        BY <2>2, <4>1 DEF OnPeersAdded, Inv, TypeOK
      <4>2. CASE OnPeerLogout(c)
        BY <2>2, <4>2 DEF OnPeerLogout, Inv, TypeOK
      <4>3. QED
        BY <4>1, <4>2
    <3>2. notices'[x] = notices[x]
      BY <1>1, <2>2 DEF Inv, TypeOK
    <3>3. QED
      BY <1>1, <3>1, <3>2, QuietBrings
  <2>3. QED
    BY <2>1, <2>2
<1>3. QED
  BY <1>1, <1>2, NoGhostFrom DEF Inv, Once

(* The server's steps.  A new user has heard of nobody yet.                *)
LEMMA LoginGhost ==
    ASSUME Inv, Inv', QInv, GhostInv, UNCHANGED env, NEW c \in Clients, OnLoginChannel(c)
    PROVE  GhostInv'
<1> DEFINE n == [kind |-> "PEERLOGIN", list |-> {c}]
<1>1. /\ TakeRequest(c, "LOGIN_CHANNEL") /\ users' = users \cup {c}
      /\ Notify(c, users, "PEERLOGIN")
      /\ UNCHANGED <<peers, opens, asked>>
  BY DEF OnLoginChannel, clientVars, handlerVars
<1>2. ASSUME Once', NEW x \in Clients, NEW y \in Clients
      PROVE  Brings(x, y)
  <2>1. CASE x = c
    <3>1. 1 \in 1 .. Len(requests[c]) /\ requests[c][1] = "LOGIN_CHANNEL"
      <4>1. /\ requests[c] \in Seq(Request) /\ requests[c] # <<>>
            /\ requests[c][1] = "LOGIN_CHANNEL"
        BY <1>1, TakeTypes DEF Inv, TypeOK
      <4>2. QED
        BY <4>1
    <3>2. opens[c] <= 1
      BY <1>1, <1>2 DEF Once
    <3>3. Unknown(c)
      BY <3>1, <3>2 DEF QInv, Queues, First
    <3>4. notices'[c] = notices[c]
      BY <1>1, NotifyTells DEF Inv
    <3>5. ~Hears(c, y)'
      BY <1>1, <3>3, <3>4, KnownNow DEF Hears, WillKnow, Unknown
    <3>6. QED
      BY <2>1, <3>5 DEF Brings
  <2>2. CASE x # c
    <3>1. n \in Notice /\ notices[x] \in Seq(Notice)
      BY DEF Notice, Inv, TypeOK
    <3>2. Says(n, y) => y = c
      BY DEF Says
    <3>3. notices'[x] = notices[x] \/ notices'[x] = Append(notices[x], n)
      BY <1>1, NotifyTells DEF Inv
    <3>4. WillKnow(x, y)' => y = c \/ WillKnow(x, y)
      <4> HIDE DEF n
      <4>1. Known(peers[x], Append(notices[x], n), y) =>
               Says(n, y) \/ Known(peers[x], notices[x], y)
        BY <3>1, KnownAppend
      <4>2. QED
        BY <1>1, <3>2, <3>3, <4>1 DEF WillKnow
    <3>5. QED
      BY <1>1, <2>2, <3>4 DEF Brings, Hears
  <2>3. QED
    BY <2>1, <2>2
<1>3. QED
  BY <1>1, <1>2, NoGhostFrom DEF Inv, Once

LEMMA LogoutGhost ==
    ASSUME Inv, QInv, GhostInv, UNCHANGED env, NEW c \in Clients, OnLogoutChannel(c)
    PROVE  GhostInv'
<1>1. /\ TakeRequest(c, "LOGOUT_CHANNEL")
      /\ UNCHANGED <<link, peers, opens, asked>>
      /\ Leave(c) \/ UNCHANGED <<users, notices>>
  BY DEF OnLogoutChannel, clientVars, handlerVars
<1>2. FreeWorker(c) /\ c \in clients
  BY <1>1, TakeTypes DEF TakeRequest, Inv, TypeOK, Linked
<1>3. QED
  BY <1>1, <1>2, LeaveGhost

LEMMA GetPeersGhost ==
    ASSUME Inv, Inv', GhostInv, UNCHANGED env, NEW c \in Clients, OnGetPeers(c)
    PROVE  GhostInv'
<1>1. /\ UNCHANGED <<peers, opens, notices, users>>
      /\ \A d \in Clients \ {c} : asked'[d] = asked[d]
      /\ asked'[c] = asked[c] \/ asked'[c] = <<users \ {c}>>
  BY DEF OnGetPeers, clientVars, serverVars, Inv, TypeOK
<1>2. ASSUME NEW x \in Clients, NEW y \in Clients
      PROVE  Brings(x, y)
  BY <1>1 DEF Brings, Hears, WillKnow
<1>3. QED
  BY <1>1, <1>2, NoGhostFrom DEF Inv, Once

LEMMA AnswerGhost ==
    ASSUME Inv, Inv', GhostInv, UNCHANGED env, NEW c \in Clients, AnswerGetPeers(c)
    PROVE  GhostInv'
<1> DEFINE n == [kind |-> "GETPEERS_RET", list |-> PeerList(c)]
<1>1. /\ UNCHANGED <<peers, opens, users>>
      /\ asked[c] # <<>> /\ asked' = [asked EXCEPT ![c] = <<>>]
      /\ Push({c} \cap clients, n)
  BY DEF AnswerGetPeers, clientVars, serverVars
<1>2. n \in Notice
  BY DEF PeerList, IsCanWork, Inv, TypeOK, Notice
<1>3. ASSUME NEW x \in Clients, NEW y \in Clients
      PROVE  Brings(x, y)
  <2>1. CASE x = c
    <3>1. notices[c] \in Seq(Notice)
      BY DEF Inv, TypeOK
    <3>2. notices'[c] = notices[c] \/ notices'[c] = Append(notices[c], n)
      BY <1>1 DEF Push
    <3>3. Says(n, y) => y \in Head(asked[c])
      BY DEF Says, PeerList
    <3>4. asked'[c] = <<>>
      BY <1>1 DEF Inv, TypeOK
    <3>5. WillKnow(c, y)' => Hears(c, y)
      <4> HIDE DEF n
      <4>1. Known(peers[c], Append(notices[c], n), y) =>
               Says(n, y) \/ Known(peers[c], notices[c], y)
        BY <1>2, <3>1, KnownAppend
      <4>2. QED
        BY <1>1, <3>2, <3>3, <4>1 DEF WillKnow, Hears
    <3>6. QED
      BY <1>1, <2>1, <3>4, <3>5 DEF Brings, Hears
  <2>2. CASE x # c
    <3>1. notices'[x] = notices[x] /\ asked'[x] = asked[x]
      BY <1>1, <2>2 DEF Push, Inv, TypeOK
    <3>2. QED
      BY <1>1, <3>1, QuietBrings
  <2>3. QED
    BY <2>1, <2>2
<1>4. QED
  BY <1>1, <1>3, NoGhostFrom DEF Inv, Once

LEMMA LinkCloseGhost ==
    ASSUME Inv, QInv, GhostInv, UNCHANGED env, NEW c \in Clients, LinkClose(c)
    PROVE  GhostInv'
<1>1. /\ UNCHANGED <<link, peers, opens, asked>>
      /\ Leave(c) \/ UNCHANGED <<users, notices>>
      /\ FreeWorker(c) /\ c \in clients
  BY DEF LinkClose, clientVars
<1>2. QED
  BY <1>1, LeaveGhost

LEMMA StepGhost == Inv /\ Inv' /\ QInv /\ GhostInv /\ [Next]_vars => GhostInv'
<1> SUFFICES ASSUME Inv, Inv', QInv, GhostInv, [Next]_vars PROVE GhostInv'
  OBVIOUS
<1>1. CASE UNCHANGED vars
  <2>1. UNCHANGED <<env, peers, opens, notices, users, asked>>
    BY <1>1 DEF vars, clientVars, serverVars, handlerVars
  <2>2. QED
    BY <2>1 DEF GhostInv, Once, Hears, WillKnow
<1>2. CASE Next
  BY <1>2, ConnectGhost, OpenSourceGhost, CloseSourceGhost, ExitGhost, ReceiveGhost,
     LoginGhost, LogoutGhost, GetPeersGhost, AnswerGhost, LinkCloseGhost DEF Next
<1>3. QED
  BY <1>1, <1>2

-----------------------------------------------------------------------------
AllInv == Inv /\ QInv /\ MeetInv /\ GhostInv

LEMMA AllInvHolds == Spec => []AllInv
<1>1. Init => AllInv
  <2>1. Init => MeetInv /\ GhostInv
    BY DEF Init, MeetInv, PairMeets, WillMeet, Staying, GhostInv
  <2>2. QED
    BY <2>1, InitInv, InitQueues DEF AllInv
<1>2. Inv /\ [Next]_vars => Inv'
  BY ConnectInv, OpenSourceInv, OpenInsertInv, CloseSourceInv, ExitInv,
     ReceiveInv, HeartbeatInv, LoginInv, LogoutInv, GetPeersInv, AnswerInv,
     LinkCloseInv, RemoveInv, StutterInv DEF Next
<1>3. AllInv /\ [Next]_vars => AllInv'
  BY <1>2, StepQueues, StepMeet, StepGhost DEF AllInv
<1>4. QED
  BY <1>1, <1>3, PTL DEF Spec

(* When everything is handled, a user is up and stays, nothing is queued   *)
(* for it, and what it will know it knows.                                 *)
LEMMA AtRest ==
    ASSUME Inv, Settled, NEW c \in users
    PROVE  /\ c \in Clients /\ Staying(c)
           /\ \A y : ~HasAsked(c, y) /\ (WillKnow(c, y) <=> y \in peers[c])
<1>1. /\ c \in Clients /\ c \in clients
      /\ requests[c] = <<>> /\ notices[c] = <<>> /\ asked[c] = <<>>
  BY DEF Inv, TypeOK, Settled, Busy
<1>2. link[c] = "up"
  BY <1>1 DEF Inv, TypeOK, Linked, Settled
<1>3. \A i : i \notin 1 .. Len(requests[c])
  BY <1>1
<1>4. \A y : WillKnow(c, y) <=> y \in peers[c]
  BY <1>1, KnownNow DEF WillKnow
<1>5. QED
  BY <1>1, <1>2, <1>3, <1>4 DEF Staying, HasAsked

(* Any two users of the channel that are not both sources know each other  *)
(* once everything is handled, in whatever order the server's threads took *)
(* the requests of the two, when heartbeats come first                     *)
(* (ClientMgr::OnLoginChannel, OnGetPeers).                                *)
THEOREM UsersMeetHolds == Spec => []UsersMeet
<1>1. AllInv => UsersMeet
  <2> SUFFICES ASSUME AllInv, Settled, ~env.lateUdp, ~env.slowOpen,
                      NEW c \in users, NEW d \in users, Strangers(c, d)
               PROVE  d \in peers[c]
    BY DEF UsersMeet, Strangers
  <2>1. c \in Clients /\ d \in Clients /\ Staying(c)
    BY AtRest DEF AllInv
  <2>2. WillKnow(c, d) \/ HasAsked(c, d)
    BY <2>1 DEF AllInv, MeetInv, WillMeet
  <2>3. QED
    BY <2>2, AtRest DEF AllInv
<1>2. QED
  BY <1>1, AllInvHolds, PTL

(* Of any two users at least one knows the other, whenever the heartbeats  *)
(* come: the earlier is told of the later (NotifyLoginChannel).            *)
THEOREM NoPairMissedHolds == Spec => []NoPairMissed
<1>1. AllInv => NoPairMissed
  <2> SUFFICES ASSUME AllInv, Settled, ~env.slowOpen,
                      NEW c \in users, NEW d \in users, c # d
               PROVE  d \in peers[c] \/ c \in peers[d]
    BY DEF NoPairMissed
  <2>1. c \in Clients /\ d \in Clients /\ Staying(c) /\ Staying(d)
    BY AtRest DEF AllInv
  <2>2. WillKnow(c, d) \/ WillKnow(d, c)
    BY <2>1 DEF AllInv, MeetInv, PairMeets
  <2>3. QED
    BY <2>2, AtRest DEF AllInv
<1>2. QED
  BY <1>1, AllInvHolds, PTL

(* With one worker thread and one opening per client a user's list holds   *)
(* nobody who has left the channel: everyone who knew him was told         *)
(* (NotifyLogoutChannel, ClientMgr.cpp:240).                               *)
THEOREM NoGhostsOfOneWorkerHolds == Spec => []NoGhostsOfOneWorker
<1>1. AllInv => NoGhostsOfOneWorker
  <2> SUFFICES ASSUME AllInv, Settled, Once, NEW c \in users, NEW d \in peers[c]
               PROVE  d \in users
    BY DEF NoGhostsOfOneWorker, NoGhosts, Once
  <2>1. c \in Clients /\ d \in Clients
    BY DEF AllInv, Inv, TypeOK
  <2>2. WillKnow(c, d)
    BY AtRest DEF AllInv
  <2>3. QED
    BY <2>1, <2>2 DEF AllInv, GhostInv, Hears
<1>2. QED
  BY <1>1, AllInvHolds, PTL

-----------------------------------------------------------------------------
(* The tracker without its queues: who heeds notices, whom he will know,   *)
(* and the users noted down for a list.                                    *)
Listens(c) == chan[c] = "open" \/ (chan[c] = "opening" /\ ~env.slowOpen)
WillKnowAll(c) == {y \in Clients : WillKnow(c, y)}
Noted(c) == IF asked[c] = <<>> THEN {} ELSE Head(asked[c])

Rosters == INSTANCE Roster
              WITH named <- udp, listens <- {c \in Clients : Listens(c)},
                   noted <- [c \in Clients |-> Noted(c)],
                   knows <- [c \in Clients |-> WillKnowAll(c)]

(* The mapped state as functions: what a step changes of it.               *)
View == [c \in Clients |-> WillKnowAll(c)]
Notes == [c \in Clients |-> Noted(c)]
Heeding == {c \in Clients : Listens(c)}

LEMMA SameKnown ==
    ASSUME NEW c, peers'[c] = peers[c], notices'[c] = notices[c]
    PROVE  WillKnowAll(c)' = WillKnowAll(c)
<1>1. ASSUME NEW y PROVE WillKnow(c, y)' <=> WillKnow(c, y)
  BY DEF WillKnow
<1>2. QED
  BY <1>1 DEF WillKnowAll

LEMMA SameNoted ==
    ASSUME NEW c, asked'[c] = asked[c]
    PROVE  Noted(c)' = Noted(c)
  BY DEF Noted

LEMMA SameListens ==
    ASSUME UNCHANGED <<env, chan>>
    PROVE  Heeding' = Heeding
  BY DEF Heeding, Listens

(* A client that knows nobody will know those of its notices only.         *)
LEMMA Forgotten ==
    ASSUME NEW c, notices'[c] = notices[c], peers'[c] = {}
    PROVE  WillKnowAll(c)' \in SUBSET WillKnowAll(c)
<1>1. ASSUME NEW y, WillKnow(c, y)' PROVE WillKnow(c, y)
  BY <1>1 DEF WillKnow, Known
<1>2. QED
  BY <1>1 DEF WillKnowAll

(* A step of one client's that lets it forget, as Listen or Forget.        *)
LEMMA OwnStep ==
    ASSUME NEW c \in Clients, UNCHANGED <<env, serverVars, handlerVars>>,
           WillKnowAll(c)' \in SUBSET WillKnowAll(c),
           \A d \in Clients \ {c} : /\ chan'[d] = chan[d] /\ peers'[d] = peers[d]
                                    /\ notices'[d] = notices[d]
    PROVE  /\ Listens(c)' => Rosters!Listen(c)
           /\ ~Listens(c)' => Rosters!Forget(c)
<1>1. UNCHANGED <<users, sources, udp, Notes>>
  BY DEF serverVars, handlerVars, Notes, Noted
<1>2. View' = [View EXCEPT ![c] = WillKnowAll(c)']
  <2>1. \A d \in Clients \ {c} : WillKnowAll(d)' = WillKnowAll(d)
    BY SameKnown
  <2>2. QED
    BY <2>1 DEF View
<1>3. \A d \in Clients \ {c} : Listens(d)' <=> Listens(d)
  BY DEF Listens
<1>4. /\ Listens(c)' => Heeding' = Heeding \cup {c}
      /\ ~Listens(c)' => Heeding' = Heeding \ {c}
  BY <1>3 DEF Heeding
<1>5. WillKnowAll(c)' \in SUBSET View[c]
  BY DEF View
<1>6. QED
  BY <1>1, <1>2, <1>4, <1>5 DEF Rosters!Listen, Rosters!Forget, View, Notes, Heeding

LEMMA OpenSourceRefines ==
    ASSUME Inv, UNCHANGED env, NEW c \in Clients, OpenSource(c)
    PROVE  Rosters!Listen(c) \/ Rosters!Forget(c)
<1>1. UNCHANGED <<env, serverVars, handlerVars, notices>> /\ peers'[c] = {}
  BY DEF OpenSource, Inv, TypeOK
<1>2. \A d \in Clients \ {c} : chan'[d] = chan[d] /\ peers'[d] = peers[d]
  BY DEF OpenSource, Inv, TypeOK
<1>3. QED
  BY <1>1, <1>2, Forgotten, OwnStep

LEMMA CloseSourceRefines ==
    ASSUME Inv, UNCHANGED env, NEW c \in Clients, CloseSource(c)
    PROVE  Rosters!Listen(c) \/ Rosters!Forget(c)
<1>1. UNCHANGED <<env, serverVars, handlerVars, notices>> /\ peers'[c] = {}
  BY DEF CloseSource, Inv, TypeOK
<1>2. \A d \in Clients \ {c} : chan'[d] = chan[d] /\ peers'[d] = peers[d]
  BY DEF CloseSource, Inv, TypeOK
<1>3. QED
  BY <1>1, <1>2, Forgotten, OwnStep

LEMMA OpenInsertRefines ==
    ASSUME Inv, UNCHANGED env, NEW c \in Clients, OpenInsert(c)
    PROVE  Rosters!Listen(c) \/ Rosters!Forget(c)
<1>1. UNCHANGED <<env, serverVars, handlerVars, notices, peers>>
  BY DEF OpenInsert
<1>2. \A d \in Clients \ {c} : chan'[d] = chan[d]
  BY DEF OpenInsert, Inv, TypeOK
<1>3. WillKnowAll(c)' \in SUBSET WillKnowAll(c)
  BY <1>1, SameKnown
<1>4. QED
  BY <1>1, <1>2, <1>3, OwnStep

LEMMA ExitRefines ==
    ASSUME Inv, UNCHANGED env, NEW c \in Clients, Exit(c)
    PROVE  Rosters!Listen(c) \/ Rosters!Forget(c)
<1>1. /\ UNCHANGED <<env, serverVars, handlerVars>>
      /\ peers'[c] = {} /\ notices'[c] = <<>>
  BY DEF Exit, Inv, TypeOK
<1>2. \A d \in Clients \ {c} : /\ chan'[d] = chan[d] /\ peers'[d] = peers[d]
                               /\ notices'[d] = notices[d]
  BY DEF Exit, Inv, TypeOK
<1>3. WillKnowAll(c)' \in SUBSET WillKnowAll(c)
  BY <1>1, KnownNow DEF WillKnowAll, WillKnow
<1>4. QED
  BY <1>1, <1>2, <1>3, OwnStep

(* A notice that is heeded changes nothing: it has counted all along.      *)
LEMMA ReceiveRefines ==
    ASSUME Inv, UNCHANGED env, NEW c \in Clients, OnPeersAdded(c) \/ OnPeerLogout(c)
    PROVE  UNCHANGED Rosters!vars \/ Rosters!Forget(c)
<1> DEFINE n == Head(notices[c])
<1>1. /\ UNCHANGED <<env, chan, serverVars, handlerVars>>
      /\ notices' = [notices EXCEPT ![c] = Tail(@)]
      /\ notices[c] # <<>> /\ (env.slowOpen \/ chan[c] # "opening")
  BY DEF OnPeersAdded, OnPeerLogout, Receive
<1>2. notices[c] \in Seq(Notice) /\ notices'[c] = Tail(notices[c])
  BY <1>1 DEF Inv, TypeOK
<1>3. \A d \in Clients \ {c} : /\ chan'[d] = chan[d] /\ notices'[d] = notices[d]
                               /\ peers'[d] = peers[d]
  <2>1. CASE OnPeersAdded(c)
    BY <1>1, <2>1 DEF OnPeersAdded, Inv, TypeOK
  <2>2. CASE OnPeerLogout(c)
    BY <1>1, <2>2 DEF OnPeerLogout, Inv, TypeOK
  <2>3. QED
    BY <2>1, <2>2
<1>4. CASE n.kind # "PEERLOGOUT" /\ chan[c] # "open"
  <2>1. peers'[c] = peers[c]
    <3>1. OnPeersAdded(c)
      BY <1>4 DEF OnPeerLogout, Receive
    <3>2. QED
      BY <1>4, <3>1 DEF OnPeersAdded
  <2>2. ASSUME NEW y, WillKnow(c, y)' PROVE WillKnow(c, y)
    <3>1. Known(peers[c], Tail(notices[c]), y)
      BY <1>2, <2>1, <2>2 DEF WillKnow
    <3>2. QED
      BY <1>1, <1>2, <1>4, <3>1, KnownHead DEF WillKnow
  <2>3. WillKnowAll(c)' \in SUBSET WillKnowAll(c)
    BY <2>2 DEF WillKnowAll
  <2>4. ~Listens(c)'
    BY <1>1, <1>4 DEF Listens
  <2>5. QED
    BY <1>1, <1>3, <2>3, <2>4, OwnStep
<1>5. CASE n.kind = "PEERLOGOUT" \/ chan[c] = "open"
  <2>1. ASSUME NEW y PROVE WillKnow(c, y)' <=> WillKnow(c, y)
    <3>1. CASE OnPeersAdded(c)
      <4>1. n.kind # "PEERLOGOUT"
        BY <3>1 DEF OnPeersAdded, Receive
      <4>2. peers'[c] = peers[c] \cup n.list
        BY <1>5, <3>1, <4>1 DEF OnPeersAdded, Inv, TypeOK
      <4>3. Known(peers[c], notices[c], y)
               <=> Known(peers[c] \cup n.list, Tail(notices[c]), y)
        BY <1>1, <1>2, <4>1, KnownHead
      <4>4. QED
        BY <1>2, <4>2, <4>3 DEF WillKnow
    <3>2. CASE OnPeerLogout(c)
      <4>1. n.kind = "PEERLOGOUT"
        BY <3>2 DEF OnPeerLogout, Receive
      <4>2. peers'[c] = peers[c] \ n.list
        BY <3>2 DEF OnPeerLogout, Inv, TypeOK
      <4>3. Known(peers[c], notices[c], y)
               <=> Known(peers[c] \ n.list, Tail(notices[c]), y)
        BY <1>1, <1>2, <4>1, KnownHead
      <4>4. QED
        BY <1>2, <4>2, <4>3 DEF WillKnow
    <3>3. QED
      BY <3>1, <3>2
  <2>2. WillKnowAll(c)' = WillKnowAll(c)
    BY <2>1 DEF WillKnowAll
  <2>3. UNCHANGED View
    BY <1>3, <2>2, SameKnown DEF View
  <2>4. UNCHANGED <<users, sources, udp, Notes, Heeding>>
    BY <1>1, SameListens DEF serverVars, handlerVars, Notes, Noted
  <2>5. QED
    BY <2>3, <2>4 DEF Rosters!vars, View, Notes, Heeding
<1>6. QED
  BY <1>4, <1>5

(* A notice counts from the moment it is queued for all users that listen. *)
LEMMA Announced ==
    ASSUME Inv, NEW c \in clients, NEW kind \in {"PEERLOGIN", "PEERLOGOUT"},
           Notify(c, users, kind), UNCHANGED peers
    PROVE  \E deaf \in SUBSET ((users \ {c}) \ Heeding) :
              View' = [d \in Clients |->
                         IF d \in (users \ {c}) \ deaf
                         THEN IF kind = "PEERLOGOUT" THEN View[d] \ {c}
                                                     ELSE View[d] \cup {c}
                         ELSE View[d]]
<1> DEFINE deaf == {d \in users \ {c} : link[d] # "up"}
           n == [kind |-> kind, list |-> {c}]
<1>1. c \in Clients /\ n \in Notice /\ n.kind = kind /\ n.list = {c}
  BY DEF Inv, TypeOK, Notice
<1>2. deaf \in SUBSET ((users \ {c}) \ Heeding)
  BY DEF Inv, TypeOK, Linked, Heeding, Listens
<1>3. ASSUME NEW d \in Clients, d \in (users \ {c}) \ deaf
      PROVE  WillKnowAll(d)' = IF kind = "PEERLOGOUT" THEN View[d] \ {c}
                                                      ELSE View[d] \cup {c}
  <2>1. notices'[d] = Append(notices[d], n) /\ notices[d] \in Seq(Notice)
    <3>1. d \in users \ {c} /\ link[d] = "up" /\ TypeOK
      BY <1>3 DEF Inv
    <3>2. notices'[d] = Append(notices[d], n)
      BY <1>1, <3>1, NotifyTells
    <3>3. QED
      BY <3>1, <3>2 DEF TypeOK
  <2> HIDE DEF n
  <2>2. ASSUME NEW y
        PROVE  WillKnow(d, y)' <=> Says(n, y) \/ (WillKnow(d, y) /\ ~TakesBack(n, y))
    BY <1>1, <2>1, KnownAppend DEF WillKnow
  <2>3. CASE kind = "PEERLOGOUT"
    <3>1. \A y : ~Says(n, y) /\ (TakesBack(n, y) <=> y = c)
      BY <1>1, <2>3 DEF Says, TakesBack
    <3>2. QED
      BY <2>2, <2>3, <3>1 DEF WillKnowAll, View
  <2>4. CASE kind # "PEERLOGOUT"
    <3>1. \A y : ~TakesBack(n, y) /\ (Says(n, y) <=> y = c)
      BY <1>1, <2>4 DEF Says, TakesBack
    <3>2. QED
      BY <1>1, <2>2, <2>4, <3>1 DEF WillKnowAll, View
  <2>5. QED
    BY <2>3, <2>4
<1>4. ASSUME NEW d \in Clients, d \notin (users \ {c}) \ deaf
      PROVE  WillKnowAll(d)' = View[d]
  <2>1. notices'[d] = notices[d]
    BY <1>1, <1>4, NotifyTells DEF Inv
  <2>2. QED
    BY <2>1, SameKnown DEF View
<1>5. QED
  BY <1>2, <1>3, <1>4 DEF View

LEMMA LoginRefines ==
    ASSUME Inv, UNCHANGED env, NEW c \in Clients, OnLoginChannel(c)
    PROVE  Rosters!Login(c)
<1>1. /\ UNCHANGED <<chan, peers, asked, udp>>
      /\ users' = users \cup {c} /\ sources' = sources \cup ({c} \cap Sources)
      /\ Notify(c, users, "PEERLOGIN") /\ requests[c] # <<>>
  BY DEF OnLoginChannel, TakeRequest, clientVars, handlerVars
<1>2. c \in clients
  BY <1>1 DEF Inv, TypeOK, Linked
<1>3. UNCHANGED <<Notes, Heeding, udp>>
  BY <1>1, SameListens DEF Notes, Noted
<1>4. \E deaf \in SUBSET ((users \ {c}) \ Heeding) :
          View' = [d \in Clients |-> IF d \in (users \ {c}) \ deaf
                                     THEN View[d] \cup {c} ELSE View[d]]
  BY <1>1, <1>2, Announced
<1>5. QED
  BY <1>1, <1>3, <1>4 DEF Rosters!Login, Rosters!Others, View, Notes, Heeding

LEMMA LeaveRefines ==
    ASSUME Inv, UNCHANGED <<env, chan, peers, asked, udp>>, NEW c \in clients, Leave(c)
    PROVE  Rosters!Leave(c)
<1>1. /\ sources' = sources \ {c}
      /\ users' = IF sources' = {} THEN {} ELSE users \ {c}
      /\ Notify(c, users, "PEERLOGOUT")
  BY DEF Leave
<1>2. UNCHANGED <<Notes, Heeding>>
  BY SameListens DEF Notes, Noted
<1>3. \E deaf \in SUBSET ((users \ {c}) \ Heeding) :
          View' = [d \in Clients |-> IF d \in (users \ {c}) \ deaf
                                     THEN View[d] \ {c} ELSE View[d]]
  BY <1>1, Announced
<1>4. QED
  BY <1>1, <1>2, <1>3 DEF Rosters!Leave, Rosters!Others, View, Notes, Heeding

LEMMA SameRoster ==
    ASSUME UNCHANGED <<env, chan, peers, notices, asked, users, sources, udp>>
    PROVE  UNCHANGED Rosters!vars
<1>1. UNCHANGED <<Notes, Heeding>>
  BY SameListens DEF Notes, Noted
<1>2. UNCHANGED View
  BY SameKnown DEF View
<1>3. QED
  BY <1>1, <1>2 DEF Rosters!vars, View, Notes, Heeding

LEMMA GoesRefines ==
    ASSUME Inv, UNCHANGED env, NEW c \in Clients, OnLogoutChannel(c) \/ LinkClose(c)
    PROVE  UNCHANGED Rosters!vars \/ Rosters!Leave(c)
<1>1. UNCHANGED <<chan, peers, asked, udp>>
  BY DEF OnLogoutChannel, LinkClose, clientVars, handlerVars
<1>2. c \in clients
  BY DEF OnLogoutChannel, TakeRequest, LinkClose, Inv, TypeOK, Linked
<1>3. Leave(c) \/ UNCHANGED <<users, sources, notices>>
  BY DEF OnLogoutChannel, LinkClose
<1>4. CASE Leave(c)
  BY <1>1, <1>2, <1>4, LeaveRefines
<1>5. CASE UNCHANGED <<users, sources, notices>>
  BY <1>1, <1>5, SameRoster
<1>6. QED
  BY <1>3, <1>4, <1>5

LEMMA GetPeersRefines ==
    ASSUME Inv, UNCHANGED env, NEW c \in Clients, OnGetPeers(c)
    PROVE  Rosters!Ask(c)
<1>1. /\ UNCHANGED <<chan, peers, notices, users, sources, udp>> /\ c \notin Busy
      /\ asked' = IF users # {} THEN [asked EXCEPT ![c] = <<users \ {c}>>] ELSE asked
  BY DEF OnGetPeers, TakeRequest, FreeWorker, clientVars, serverVars
<1>2. asked[c] = <<>>
  BY <1>1 DEF Busy
<1>3. Notes' = [Notes EXCEPT ![c] = users \ {c}]
  <2>1. \A d \in Clients \ {c} : Noted(d)' = Noted(d)
    BY <1>1, SameNoted DEF Inv, TypeOK
  <2>2. Noted(c)' = users \ {c}
    <3>1. CASE users # {}
      <4>1. asked'[c] = <<users \ {c}>>
        BY <1>1, <3>1 DEF Inv, TypeOK
      <4>2. QED
        BY <4>1 DEF Noted
    <3>2. CASE users = {}
      BY <1>1, <1>2, <3>2 DEF Noted
    <3>3. QED
      BY <3>1, <3>2
  <2>3. QED
    BY <2>1, <2>2 DEF Notes
<1>4. UNCHANGED <<Heeding, View>>
  BY <1>1, SameListens, SameKnown DEF View
<1>5. QED
  BY <1>1, <1>3, <1>4 DEF Rosters!Ask, Rosters!Others, View, Notes, Heeding

LEMMA AnswerRefines ==
    ASSUME Inv, UNCHANGED env, NEW c \in Clients, AnswerGetPeers(c)
    PROVE  Rosters!Answer(c)
<1> DEFINE n == [kind |-> "GETPEERS_RET", list |-> PeerList(c)]
           list == {d \in (Notes[c] \cap udp) \ {c} : ~({c, d} \subseteq Sources)}
<1>1. /\ UNCHANGED <<chan, peers, users, sources, udp>>
      /\ asked' = [asked EXCEPT ![c] = <<>>]
      /\ Push({c} \cap clients, n) /\ asked[c] # <<>>
  BY DEF AnswerGetPeers, clientVars, serverVars
<1>2. Notes' = [Notes EXCEPT ![c] = {}]
  <2>1. \A d \in Clients \ {c} : Noted(d)' = Noted(d)
    BY <1>1, SameNoted DEF Inv, TypeOK
  <2>2. Noted(c)' = {}
    BY <1>1 DEF Noted, Inv, TypeOK
  <2>3. QED
    BY <2>1, <2>2 DEF Notes
<1>3. UNCHANGED Heeding
  BY <1>1, SameListens
<1>4. Notes[c] = Head(asked[c])
  BY <1>1 DEF Notes, Noted
<1>5. PeerList(c) = list
  BY <1>4 DEF PeerList, IsCanWork, Inv, TypeOK
<1>6. PeerList(c) \subseteq Clients
  BY <1>5 DEF Inv, TypeOK
<1>7. n \in Notice /\ n.kind # "PEERLOGOUT" /\ n.list = PeerList(c)
  BY <1>6 DEF Notice
<1>8. \A d \in Clients \ {c} : WillKnowAll(d)' = WillKnowAll(d)
  BY <1>1, SameKnown DEF Push
<1>9. CASE link[c] = "up"
  <2>1. notices'[c] = Append(notices[c], n) /\ notices[c] \in Seq(Notice)
    BY <1>1, <1>9 DEF Push, Inv, TypeOK, Linked
  <2> HIDE DEF n
  <2>2. ASSUME NEW y
        PROVE  WillKnow(c, y)' <=> y \in PeerList(c) \/ WillKnow(c, y)
    <3>1. Says(n, y) <=> y \in PeerList(c)
      BY <1>7 DEF Says
    <3>2. ~TakesBack(n, y)
      BY <1>7 DEF TakesBack
    <3>3. QED
      BY <1>1, <1>7, <2>1, <3>1, <3>2, KnownAppend DEF WillKnow
  <2>3. WillKnowAll(c)' = WillKnowAll(c) \cup PeerList(c)
    BY <1>6, <2>2 DEF WillKnowAll
  <2>4. View' = [View EXCEPT ![c] = @ \cup list]
    BY <1>5, <1>8, <2>3 DEF View
  <2>5. QED
    BY <1>1, <1>2, <1>3, <2>4 DEF Rosters!Answer, Rosters!List, View, Notes, Heeding
<1>10. CASE link[c] # "up"
  <2>1. c \notin Heeding
    BY <1>10 DEF Inv, Linked, Heeding, Listens
  <2>2. notices'[c] = notices[c]
    BY <1>1, <1>10 DEF Push
  <2>3. WillKnowAll(c)' = WillKnowAll(c)
    BY <1>1, <2>2, SameKnown
  <2>4. View' = [View EXCEPT ![c] = @ \cup {}]
    BY <1>8, <2>3 DEF View
  <2>5. QED
    BY <1>1, <1>2, <1>3, <2>1, <2>4 DEF Rosters!Answer, View, Notes, Heeding
<1>11. QED
  BY <1>9, <1>10

LEMMA StepRosters ==
    ASSUME Inv, [Next]_vars
    PROVE  [Rosters!Next]_(Rosters!vars)
<1>1. ASSUME UNCHANGED env, NEW c \in Clients, Connect(c)
      PROVE  UNCHANGED Rosters!vars
  BY <1>1, SameRoster DEF Connect, handlerVars
<1>2. ASSUME UNCHANGED env, NEW c \in Clients,
             OnUdpHeartbeat(c) \/ RemoveClient(c)
      PROVE  Rosters!Name(c) \/ Rosters!Unname(c)
  <2>1. UNCHANGED <<chan, peers, notices, users, sources, asked>>
    BY <1>2 DEF OnUdpHeartbeat, RemoveClient, clientVars, handlerVars
  <2>2. UNCHANGED <<Notes, Heeding, View>>
    BY <1>2, <2>1, SameListens, SameKnown DEF Notes, Noted, View
  <2>3. QED
    BY <1>2, <2>1, <2>2 DEF OnUdpHeartbeat, RemoveClient, Rosters!Name,
                            Rosters!Unname, Notes, Heeding, View
<1>3. ASSUME UNCHANGED vars
      PROVE  UNCHANGED Rosters!vars
  BY <1>3, SameRoster DEF vars, clientVars, serverVars, handlerVars
<1>4. QED
  BY <1>1, <1>2, <1>3, OpenSourceRefines, OpenInsertRefines, CloseSourceRefines,
     ExitRefines, ReceiveRefines, LoginRefines, GoesRefines, GetPeersRefines,
     AnswerRefines
  DEF Next, Rosters!Next

(* For any clients, any number of threads and whatever comes late: what    *)
(* the clients will know is what they would know if each login, logout and *)
(* answer reached them at once.  The order in which the server's threads   *)
(* queue their notices, and that in which the clients read them, leave no  *)
(* trace (ClientMgr::OnLoginChannel, OnLogoutChannel, OnGetPeers,          *)
(* LinkClose, CP2PNetwork::OnReceivedData).                                *)
THEOREM TrackerImplementsRoster == Spec => Rosters!Spec
<1>1. Init => Rosters!Init
  <2> SUFFICES ASSUME Init PROVE Rosters!Init
    OBVIOUS
  <2>1. \A c \in Clients : WillKnowAll(c) = {} /\ Noted(c) = {} /\ ~Listens(c)
    BY KnownNow DEF Init, WillKnowAll, WillKnow, Noted, Listens
  <2>2. QED
    BY <2>1 DEF Init, Rosters!Init
<1>2. Inv /\ [Next]_vars => [Rosters!Next]_(Rosters!vars)
  BY StepRosters
<1>3. Spec => []Inv
  <2>1. AllInv => Inv
    BY DEF AllInv
  <2>2. QED
    BY <2>1, AllInvHolds, PTL
<1>4. QED
  BY <1>1, <1>2, <1>3, PTL DEF Spec, Rosters!Spec
=============================================================================
