--------------------------- MODULE VideoChat_proofs ---------------------------
(***************************************************************************)
(* Theorems on the video chat server: its invariants, that it implements   *)
(* ChatRoom, and that no frame is kept from a subscriber.                  *)
(***************************************************************************)
EXTENDS VideoChat, TLAPS

Inv == TypeOK /\ OneLoginPerUser

LEMMA InitInv == Init => Inv
  BY ChatAssumption DEF Init, Inv, TypeOK, OneLoginPerUser, Online

(* Clients taken out of the table leave the invariant alone.               *)
LEMMA WithoutInv ==
    ASSUME Inv, NEW gone \in SUBSET Link,
           client' = ClientsWithout(gone), subs' = SubsWithout(gone),
           count' = count, up' \in SUBSET Link, Online \ gone \subseteq up'
    PROVE  Inv'
<1>1. client' \in [Link -> Client \cup {None}]
  BY DEF Inv, TypeOK, ClientsWithout
<1>2. subs' \in [Link -> SUBSET Link]
  BY DEF Inv, TypeOK, SubsWithout
<1>3. \A l \in Link : l \in Online' <=> l \in Online \ gone
  BY DEF Online, ClientsWithout
<1>4. \A l \in Online' : client'[l] = client[l] /\ l \in Online \ gone
  BY <1>3 DEF Online, ClientsWithout
<1>5. \A l \in Link \ Online' : subs'[l] = {}
  BY <1>3 DEF Inv, TypeOK, SubsWithout
<1>6. TypeOK'
  BY <1>1, <1>2, <1>3, <1>4, <1>5 DEF Inv, TypeOK
<1>7. OneLoginPerUser'
  BY <1>4 DEF Inv, OneLoginPerUser
<1>8. QED
  BY <1>6, <1>7 DEF Inv

(* Where only the lists change, the logins are as they were.               *)
LEMMA ListsInv ==
    ASSUME Inv, UNCHANGED <<up, client, count>>,
           subs' \in [Link -> SUBSET Link],
           \A l \in Link \ Online : subs'[l] = {}
    PROVE  Inv'
  BY DEF Inv, TypeOK, OneLoginPerUser, Online

LEMMA LoginInv ==
    ASSUME Inv, NEW l \in Link, NEW u \in User, UserLogin(l, u)
    PROVE  Inv'
<1> DEFINE gone == FindClientByUSession(u) \cup {l}
           new == [user |-> u, session |-> count]
<1>1. count \in 0 .. MaxLogins /\ count < MaxLogins /\ count' = count + 1
  BY DEF Inv, TypeOK, UserLogin
<1>2. new \in Client /\ new # None
  BY <1>1, NoneAssumption, ChatAssumption DEF Client
<1>3. client' = [m \in Link |-> IF m = l THEN new
                               ELSE IF m \in gone THEN None ELSE client[m]]
  BY DEF UserLogin, ClientsWithout
<1>4. subs' = [m \in Link |-> IF m \in gone THEN {} ELSE subs[m]]
  BY DEF UserLogin, SubsWithout
<1>5. up' = up /\ l \in up
  BY DEF UserLogin
<1>6. \A m \in Link : m \in Online' <=> m = l \/ m \in Online \ gone
  BY <1>2, <1>3 DEF Online
<1>7. \A m \in Online' \ {l} : client'[m] = client[m] /\ m \in Online \ gone
  BY <1>3, <1>6 DEF Online
<1>8. client'[l] = new
  BY <1>3
<1>9. TypeOK'
  <2>1. client' \in [Link -> Client \cup {None}]
    BY <1>2, <1>3 DEF Inv, TypeOK
  <2>2. subs' \in [Link -> SUBSET Link]
    BY <1>4 DEF Inv, TypeOK
  <2>3. count' \in 0 .. MaxLogins
    BY <1>1, ChatAssumption
  <2>4. \A m \in Online' : m \in up' /\ client'[m].session < count'
    <3>1. \A m \in Online' \ {l} : client[m].session < count
                                   /\ client[m].session \in 0 .. MaxLogins
      BY <1>7, NoneAssumption DEF Inv, TypeOK, Online, Client
    <3>2. QED
      BY <1>1, <1>5, <1>7, <1>8, <3>1, ChatAssumption DEF Inv, TypeOK
  <2>5. \A m \in Link \ Online' : subs'[m] = {}
    BY <1>4, <1>6 DEF Inv, TypeOK
  <2>6. QED
    BY <1>5, <2>1, <2>2, <2>3, <2>4, <2>5 DEF Inv, TypeOK
<1>10. OneLoginPerUser'
  <2>1. \A m \in Online' \ {l} : client'[m].user # u /\ client'[m].session # count
    <3>1. \A m \in Online \ gone : client[m].user # u
      BY DEF FindClientByUSession
    <3>2. \A m \in Online : client[m].session < count
      BY DEF Inv, TypeOK
    <3>3. \A m \in Online : client[m].session \in 0 .. MaxLogins
      BY NoneAssumption DEF Inv, TypeOK, Online, Client
    <3>4. \A m \in Online : client[m].session # count
      BY <1>1, <3>2, <3>3, ChatAssumption
    <3>5. QED
      BY <1>7, <3>1, <3>4
  <2>2. QED
    BY <1>7, <1>8, <2>1 DEF Inv, OneLoginPerUser
<1>11. QED
  BY <1>9, <1>10 DEF Inv

LEMMA NextInv == ASSUME Inv, [Next]_vars
                 PROVE  Inv'
<1>1. ASSUME NEW l \in Link, onAccept(l)
      PROVE  Inv'
  BY <1>1 DEF onAccept, Inv, TypeOK, OneLoginPerUser, Online
<1>2. ASSUME NEW l \in Link, onClosed(l)
      PROVE  Inv'
  <2>1. up' \in SUBSET Link /\ Online \ {l} \subseteq up'
    BY <1>2 DEF onClosed, Inv, TypeOK, Online
  <2>2. QED
    BY <1>2, <2>1, WithoutInv DEF onClosed
<1>3. ASSUME NEW l \in Link, UserLogout(l)
      PROVE  Inv'
  <2>1. up' \in SUBSET Link /\ Online \ {l} \subseteq up'
    BY <1>3 DEF UserLogout, Inv, TypeOK
  <2>2. QED
    BY <1>3, <2>1, WithoutInv DEF UserLogout
<1>4. ASSUME NEW l \in Link, Stream(l)
      PROVE  Inv'
  <2>1. /\ subs' \in [Link -> SUBSET Link]
        /\ \A m \in Link \ Online : subs'[m] = {}
    BY <1>4 DEF Stream, Inv, TypeOK
  <2>2. QED
    BY <1>4, <2>1, ListsInv DEF Stream
<1>5. ASSUME NEW l \in Link, Heartbeat(l)
      PROVE  Inv'
  BY <1>5 DEF Heartbeat, Inv, TypeOK, OneLoginPerUser, Online
<1>6. ASSUME NEW l \in Link, NEW s \in 0 .. count, Subscribe(l, s)
      PROVE  Inv'
  <2>1. /\ subs' \in [Link -> SUBSET Link]
        /\ \A m \in Link \ Online : subs'[m] = {}
    BY <1>6 DEF Subscribe, FindClientBySession, Inv, TypeOK
  <2>2. QED
    BY <1>6, <2>1, ListsInv DEF Subscribe
<1>7. ASSUME NEW l \in Link, NEW s \in 0 .. count, Unsubscribe(l, s)
      PROVE  Inv'
  <2>1. /\ subs' \in [Link -> SUBSET Link]
        /\ \A m \in Link \ Online : subs'[m] = {}
    BY <1>7 DEF Unsubscribe, FindClientBySession, Inv, TypeOK
  <2>2. QED
    BY <1>7, <2>1, ListsInv DEF Unsubscribe
<1>8. ASSUME UNCHANGED vars
      PROVE  Inv'
  BY <1>8 DEF vars, Inv, TypeOK, OneLoginPerUser, Online
<1>9. QED
  BY <1>1, <1>2, <1>3, <1>4, <1>5, <1>6, <1>7, <1>8, LoginInv DEF Next

LEMMA InvHolds == Spec => []Inv
  BY InitInv, NextInv, PTL DEF Spec

(* For any number of links, users and logins: a client's link is up, his   *)
(* session has been given out, and nobody else has a list.                 *)
THEOREM TypeCorrect == Spec => []TypeOK
<1>1. Inv => TypeOK
  BY DEF Inv
<1>2. QED
  BY <1>1, InvHolds, PTL

(* A user who logs in over another link, or a link that gets another user, *)
(* never leaves two logins of one user or of one session in the table      *)
(* (STREAM_TYPE_USERLOGIN).                                                *)
THEOREM OneLoginPerUserHolds == Spec => []OneLoginPerUser
<1>1. Inv => OneLoginPerUser
  BY DEF Inv
<1>2. QED
  BY <1>1, InvHolds, PTL

-----------------------------------------------------------------------------
(* The pairs of sessions for the pairs of links in a table c of clients    *)
(* with the lists in S.                                                    *)
PairsOf(O, c, S) == {<<c[p[1]].session, c[p[2]].session>> :
                        p \in {q \in O \X O : q[1] \in S[q[2]]}}

LEMMA PairsAre ==
    ASSUME NEW O, NEW c, NEW S, NEW w
    PROVE  w \in PairsOf(O, c, S) <=>
               \E l, f \in O : l \in S[f] /\ w = <<c[l].session, c[f].session>>
<1>1. ASSUME w \in PairsOf(O, c, S)
      PROVE  \E l, f \in O : l \in S[f] /\ w = <<c[l].session, c[f].session>>
  <2>1. PICK p \in {q \in O \X O : q[1] \in S[q[2]]} :
              w = <<c[p[1]].session, c[p[2]].session>>
    BY <1>1 DEF PairsOf
  <2>2. p[1] \in O /\ p[2] \in O /\ p[1] \in S[p[2]]
    OBVIOUS
  <2>3. QED
    BY <2>1, <2>2
<1>2. ASSUME NEW l \in O, NEW f \in O, l \in S[f],
             w = <<c[l].session, c[f].session>>
      PROVE  w \in PairsOf(O, c, S)
  <2> DEFINE p == <<l, f>>
  <2>1. p \in {q \in O \X O : q[1] \in S[q[2]]}
    BY <1>2
  <2>2. p[1] = l /\ p[2] = f
    OBVIOUS
  <2>3. QED
    BY <1>2, <2>1, <2>2 DEF PairsOf
<1>3. QED
  BY <1>1, <1>2

(* The pairs of links behind the subscriptions, now and after a step.      *)
LEMMA WantsAre ==
    ASSUME NEW w
    PROVE  w \in Wants <=>
               \E l, f \in Online : /\ l \in subs[f]
                                    /\ w = <<client[l].session, client[f].session>>
<1>1. ASSUME NEW O, O = Online, NEW c, c = client, NEW S, S = subs
      PROVE  Wants = PairsOf(O, c, S)
  BY <1>1 DEF Wants, PairsOf
<1>2. QED
  BY <1>1, PairsAre

LEMMA WantsThen ==
    ASSUME NEW w
    PROVE  w \in Wants' <=>
               \E l, f \in Online' :
                   /\ l \in subs'[f]
                   /\ w = <<client'[l].session, client'[f].session>>
<1>1. ASSUME NEW O, O = Online', NEW c, c = client', NEW S, S = subs'
      PROVE  Wants' = PairsOf(O, c, S)
  BY <1>1 DEF Wants, PairsOf
<1>2. QED
  BY <1>1, PairsAre

(* The same for the subscriptions left on links without a login.           *)
MarksOf(O, c, S) == {<<p[1], c[p[2]].session>> :
                        p \in {q \in (Link \ O) \X O : q[1] \in S[q[2]]}}

LEMMA MarksAre ==
    ASSUME NEW O, NEW c, NEW S, NEW w
    PROVE  w \in MarksOf(O, c, S) <=>
               \E l \in Link \ O, f \in O : l \in S[f] /\ w = <<l, c[f].session>>
<1>1. ASSUME w \in MarksOf(O, c, S)
      PROVE  \E l \in Link \ O, f \in O : l \in S[f] /\ w = <<l, c[f].session>>
  <2>1. PICK p \in {q \in (Link \ O) \X O : q[1] \in S[q[2]]} :
              w = <<p[1], c[p[2]].session>>
    BY <1>1 DEF MarksOf
  <2>2. p[1] \in Link \ O /\ p[2] \in O /\ p[1] \in S[p[2]]
    OBVIOUS
  <2>3. QED
    BY <2>1, <2>2
<1>2. ASSUME NEW l \in Link \ O, NEW f \in O, l \in S[f], w = <<l, c[f].session>>
      PROVE  w \in MarksOf(O, c, S)
  <2> DEFINE p == <<l, f>>
  <2>1. p \in {q \in (Link \ O) \X O : q[1] \in S[q[2]]}
    BY <1>2
  <2>2. p[1] = l /\ p[2] = f
    OBVIOUS
  <2>3. QED
    BY <1>2, <2>1, <2>2 DEF MarksOf
<1>3. QED
  BY <1>1, <1>2

LEMMA StaleAre ==
    ASSUME NEW w
    PROVE  w \in Stale <=>
               \E l \in Link \ Online, f \in Online :
                   l \in subs[f] /\ w = <<l, client[f].session>>
<1>1. ASSUME NEW O, O = Online, NEW c, c = client, NEW S, S = subs
      PROVE  Stale = MarksOf(O, c, S)
  BY <1>1 DEF Stale, MarksOf
<1>2. QED
  BY <1>1, MarksAre

LEMMA StaleThen ==
    ASSUME NEW w
    PROVE  w \in Stale' <=>
               \E l \in Link \ Online', f \in Online' :
                   l \in subs'[f] /\ w = <<l, client'[f].session>>
<1>1. ASSUME NEW O, O = Online', NEW c, c = client', NEW S, S = subs'
      PROVE  Stale' = MarksOf(O, c, S)
  BY <1>1 DEF Stale, MarksOf
<1>2. QED
  BY <1>1, MarksAre

(* What the room knows of the login over a link.                           *)
Entry(l) == [user |-> client[l].user, session |-> client[l].session, mark |-> l]

LEMMA LoginsAre == Logins = {Entry(l) : l \in Online}
  BY DEF Logins, Entry

LEMMA EntryFields == \A m : /\ Entry(m).user = client[m].user
                           /\ Entry(m).session = client[m].session
                           /\ Entry(m).mark = m
  BY DEF Entry

LEMMA SessionsAre == Room!Sessions = {client[l].session : l \in Online}
<1>1. \A s : s \in Room!Sessions <=> \E l \in Online : s = Entry(l).session
  BY LoginsAre DEF Room!Sessions
<1>2. QED
  BY <1>1, EntryFields

LEMMA SessionsThen == Room!Sessions' = {client'[l].session : l \in Online'}
<1>1. Logins' = {Entry(l)' : l \in Online'}
  BY DEF Logins, Entry
<1>2. \A s : s \in Room!Sessions' <=> \E l \in Online' : s = Entry(l)'.session
  BY <1>1 DEF Room!Sessions
<1>3. \A l : Entry(l)'.session = client'[l].session
  BY DEF Entry
<1>4. QED
  BY <1>2, <1>3

LEMMA FoundIsOnline == \A s : FindClientBySession(s) # {} <=> s \in Room!Sessions
  BY SessionsAre DEF FindClientBySession

(* The sessions of those over the links in gone.                           *)
Ended(gone) == {client[k].session : k \in Online \cap gone}

(* What the room keeps when the logins over the links in gone end, in      *)
(* terms of links.                                                         *)
LEMMA EndsAre ==
    ASSUME Inv, NEW gone \in SUBSET Link
    PROVE  /\ \A x : x \in Room!Without(Ended(gone)) <=>
                         \E m \in Online \ gone : x = Entry(m)
           /\ \A w : w \in Room!WantsWithout(Ended(gone)) <=>
                         \E m, f \in Online \ gone :
                             /\ m \in subs[f]
                             /\ w = <<client[m].session, client[f].session>>
           /\ \A p : p \in Room!Left(Ended(gone)) <=>
                         \E m \in (Link \ Online) \cup (Online \cap gone),
                            f \in Online \ gone :
                             m \in subs[f] /\ p = <<m, client[f].session>>
<1> DEFINE ended == Ended(gone)
<1>1. \A m, k \in Online : client[m].session = client[k].session => m = k
  BY DEF Inv, OneLoginPerUser
<1>2. \A m \in Online : client[m].session \in ended <=> m \in gone
  BY <1>1 DEF Ended
<1>3. \A m : Entry(m).session = client[m].session /\ Entry(m).mark = m
  BY EntryFields
<1> HIDE DEF ended
<1>4. ASSUME NEW x
      PROVE  x \in Room!Without(ended) <=> \E m \in Online \ gone : x = Entry(m)
  <2>1. x \in Room!Without(ended) <=>
            \E m \in Online : x = Entry(m) /\ x.session \notin ended
    BY LoginsAre DEF Room!Without
  <2>2. QED
    BY <1>2, <1>3, <2>1
<1>5. ASSUME NEW w
      PROVE  w \in Room!WantsWithout(ended) <=>
                 \E m, f \in Online \ gone :
                     /\ m \in subs[f]
                     /\ w = <<client[m].session, client[f].session>>
  <2>1. w \in Room!WantsWithout(ended) <=>
            w \in Wants /\ w[1] \notin ended /\ w[2] \notin ended
    BY DEF Room!WantsWithout
  <2>2. QED
    BY <1>2, <2>1, WantsAre
<1>6. ASSUME NEW p, p \in Room!Left(ended)
      PROVE  \E m \in (Link \ Online) \cup (Online \cap gone), f \in Online \ gone :
                 m \in subs[f] /\ p = <<m, client[f].session>>
  <2>1. /\ p \in Link \X (Room!Sessions \ ended)
        /\ \/ p \in Stale
           \/ \E x \in Logins : /\ x.session \in ended /\ x.mark = p[1]
                                /\ <<x.session, p[2]>> \in Wants
    BY <1>6 DEF Room!Left
  <2>2. CASE p \in Stale
    BY <1>2, <2>1, <2>2, StaleAre
  <2>3. CASE \E x \in Logins : /\ x.session \in ended /\ x.mark = p[1]
                               /\ <<x.session, p[2]>> \in Wants
    <3>1. PICK m \in Online : /\ client[m].session \in ended /\ m = p[1]
                              /\ <<client[m].session, p[2]>> \in Wants
      BY <1>3, <2>3, LoginsAre
    <3>2. PICK k \in Online, f \in Online :
                /\ k \in subs[f]
                /\ <<client[m].session, p[2]>> = <<client[k].session, client[f].session>>
      BY <3>1, WantsAre
    <3>3. k = m /\ p[2] = client[f].session
      BY <1>1, <3>2
    <3>4. p = <<m, client[f].session>>
      BY <2>1, <3>1, <3>3
    <3>5. m \in gone /\ f \notin gone
      BY <1>2, <2>1, <3>1, <3>3
    <3>6. QED
      BY <3>2, <3>3, <3>4, <3>5
  <2>4. QED
    BY <2>1, <2>2, <2>3
<1>7. ASSUME NEW m \in (Link \ Online) \cup (Online \cap gone),
             NEW f \in Online \ gone, m \in subs[f],
             NEW p, p = <<m, client[f].session>>
      PROVE  p \in Room!Left(ended)
  <2>1. p[1] = m /\ p[2] = client[f].session
    BY <1>7
  <2>2. p \in Link \X (Room!Sessions \ ended)
    BY <1>2, <1>7, SessionsAre DEF Online
  <2>3. CASE m \notin Online
    <3>1. p \in Stale
      BY <1>7, <2>3, StaleAre
    <3>2. QED
      BY <2>2, <3>1 DEF Room!Left
  <2>4. CASE m \in Online
    <3>1. m \in gone /\ client[m].session \in ended
      BY <1>2, <1>7, <2>4
    <3>2. Entry(m) \in Logins
      BY <2>4, LoginsAre
    <3>3. <<client[m].session, p[2]>> \in Wants
      BY <1>7, <2>1, <2>4, WantsAre
    <3>4. \E x \in Logins : /\ x.session \in ended /\ x.mark = p[1]
                            /\ <<x.session, p[2]>> \in Wants
      BY <1>3, <2>1, <3>1, <3>2, <3>3
    <3>5. QED
      BY <2>2, <3>4 DEF Room!Left
  <2>5. QED
    BY <2>3, <2>4
<1>8. QED
  BY <1>4, <1>5, <1>6, <1>7 DEF ended

(* What the room keeps where nobody comes and those who stay keep their    *)
(* lists.                                                                  *)
LEMMA StayersThen ==
    ASSUME \A m \in Online' : client'[m] = client[m] /\ subs'[m] = subs[m]
    PROVE  /\ \A w : w \in Wants' <=>
                  \E m, f \in Online' :
                      m \in subs[f] /\ w = <<client[m].session, client[f].session>>
           /\ \A p : p \in Stale' <=>
                  \E m \in Link \ Online', f \in Online' :
                      m \in subs[f] /\ p = <<m, client[f].session>>
  BY WantsThen, StaleThen

(* A client taken out of the table ends his login, and leaves what he has  *)
(* subscribed to on his link.                                              *)
LEMMA WithoutLeaves ==
    ASSUME Inv, NEW l \in Online,
           client' = ClientsWithout({l}), subs' = SubsWithout({l})
    PROVE  /\ Logins' = Room!Without({client[l].session})
           /\ Wants' = Room!WantsWithout({client[l].session})
           /\ Stale' = Room!Left({client[l].session})
<1> DEFINE ended == Ended({l})
<1>1. {l} \in SUBSET Link /\ ended = {client[l].session}
  BY DEF Online, Ended
<1>2. Online' = Online \ {l}
  BY DEF Online, ClientsWithout
<1>3. \A m \in Online' : client'[m] = client[m] /\ subs'[m] = subs[m]
  BY <1>2 DEF Online, ClientsWithout, SubsWithout
<1>4. Link \ Online' = (Link \ Online) \cup (Online \cap {l})
  BY <1>1, <1>2
<1>5. ASSUME NEW x
      PROVE  x \in Logins' <=> x \in Room!Without(ended)
  <2>1. x \in Logins' <=> \E m \in Online' : x = Entry(m)
    BY <1>3 DEF Logins, Entry
  <2>2. QED
    BY <1>1, <1>2, <2>1, EndsAre
<1>6. ASSUME NEW w
      PROVE  w \in Wants' <=> w \in Room!WantsWithout(ended)
  <2>1. w \in Wants' <=> \E m, f \in Online' :
                             /\ m \in subs[f]
                             /\ w = <<client[m].session, client[f].session>>
    BY <1>3, StayersThen
  <2>2. QED
    BY <1>1, <1>2, <1>4, <2>1, EndsAre
<1>7. ASSUME NEW p
      PROVE  p \in Stale' <=> p \in Room!Left(ended)
  <2>1. p \in Stale' <=> \E m \in Link \ Online', f \in Online' :
                             m \in subs[f] /\ p = <<m, client[f].session>>
    BY <1>3, StayersThen
  <2>2. QED
    BY <1>1, <1>2, <1>4, <2>1, EndsAre
<1>8. Logins' = Room!Without(ended) /\ Wants' = Room!WantsWithout(ended)
  <2>1. Logins' = Room!Without(ended)
    BY <1>5 DEF Logins, Room!Without
  <2>2. Wants' = Room!WantsWithout(ended)
    BY <1>6 DEF Wants, Room!WantsWithout
  <2>3. QED
    BY <2>1, <2>2
<1>9. Stale' = Room!Left(ended)
  BY <1>7 DEF Stale, Room!Left
<1>10. QED
  BY <1>1, <1>8, <1>9

(* Where the clients stay, so do the logins.                               *)
LEMMA SameLogins ==
    ASSUME client' = client
    PROVE  /\ Online' = Online
           /\ Logins' = Logins
           /\ \A w : w \in Wants' <=>
                  \E l, f \in Online :
                      /\ l \in subs'[f]
                      /\ w = <<client[l].session, client[f].session>>
           /\ \A w : w \in Stale' <=>
                  \E l \in Link \ Online, f \in Online :
                      l \in subs'[f] /\ w = <<l, client[f].session>>
<1>1. Online' = Online
  BY DEF Online
<1>2. QED
  BY <1>1, WantsThen, StaleThen DEF Logins

LEMMA LoginRefines ==
    ASSUME Inv, NEW l \in Link, NEW u \in User, UserLogin(l, u)
    PROVE  Room!Login(u, l)
<1> DEFINE gone == FindClientByUSession(u) \cup {l}
           new == [user |-> u, session |-> count]
           ended == {x.session : x \in {y \in Logins : y.user = u \/ y.mark = l}}
<1>1. count < MaxLogins /\ count \in 0 .. MaxLogins
  BY DEF Inv, TypeOK, UserLogin
<1>2. new # None
  BY <1>1, NoneAssumption, ChatAssumption DEF Client
<1>3. client' = [m \in Link |-> IF m = l THEN new
                               ELSE IF m \in gone THEN None ELSE client[m]]
  BY DEF UserLogin, ClientsWithout
<1>4. subs' = [m \in Link |-> IF m \in gone THEN {} ELSE subs[m]]
  BY DEF UserLogin, SubsWithout
<1>5. Online' = (Online \ gone) \cup {l}
  BY <1>2, <1>3 DEF Online
<1>6. \A m \in Online \ gone : client'[m] = client[m] /\ subs'[m] = subs[m]
  BY <1>3, <1>4 DEF Online
<1>7. client'[l] = new /\ subs'[l] = {} /\ l \in gone
  BY <1>3, <1>4
<1>8. gone \in SUBSET Link
  BY DEF FindClientByUSession, Online
<1>9. \A m \in Online : m \in gone <=> client[m].user = u \/ m = l
  BY DEF FindClientByUSession
<1>10. ended = Ended(gone)
  <2>1. \A s : s \in ended <=> \E k \in Online : /\ client[k].user = u \/ k = l
                                                /\ s = client[k].session
    <3>1. \A s : s \in ended <=> \E k \in Online :
                                     /\ Entry(k).user = u \/ Entry(k).mark = l
                                     /\ s = Entry(k).session
      BY LoginsAre
    <3>2. QED
      BY <3>1, EntryFields
  <2> HIDE DEF gone, ended
  <2>2. QED
    BY <1>9, <2>1 DEF Ended
<1>11. Link \ Online' = ((Link \ Online) \cup (Online \cap gone)) \ {l}
  BY <1>5, <1>7, <1>8 DEF Online
<1>12. count' = count + 1 /\ sent' = [type |-> "USERLOGIN", session |-> count]
  BY DEF UserLogin
<1>13. Logins' = Room!Without(ended)
                    \cup {[user |-> u, session |-> count, mark |-> l]}
  <2> HIDE DEF gone, ended
  <2>1. \A x : x \in Logins' <=>
                 \/ x = [user |-> u, session |-> count, mark |-> l]
                 \/ \E m \in Online \ gone : x = Entry(m)
    BY <1>5, <1>6, <1>7 DEF Logins, Entry
  <2>2. \A x : x \in Room!Without(ended) <=> \E m \in Online \ gone : x = Entry(m)
    BY <1>8, <1>10, EndsAre
  <2>3. QED
    BY <2>1, <2>2
<1>14. ASSUME NEW w
       PROVE  w \in Wants' <=>
                  \/ w \in Room!WantsWithout(ended)
                  \/ \E s \in Room!Sessions : /\ <<l, s>> \in Room!Left(ended)
                                              /\ w = <<count, s>>
  <2> HIDE DEF gone, ended
  <2>1. w \in Wants' <=>
            \E m \in (Online \ gone) \cup {l}, f \in Online \ gone :
                m \in subs[f] /\ w = <<client'[m].session, client[f].session>>
    BY <1>5, <1>6, <1>7, WantsThen
  <2>2. w \in Wants' <=>
            \/ \E m, f \in Online \ gone :
                  m \in subs[f] /\ w = <<client[m].session, client[f].session>>
            \/ \E f \in Online \ gone :
                  l \in subs[f] /\ w = <<count, client[f].session>>
    BY <1>6, <1>7, <2>1 DEF new
  <2>3. \A s : <<l, s>> \in Room!Left(ended) <=>
                 \E f \in Online \ gone : l \in subs[f] /\ s = client[f].session
    <3>1. l \in (Link \ Online) \cup (Online \cap gone)
      BY <1>7
    <3>2. \A p : p \in Room!Left(ended) <=>
                   \E m \in (Link \ Online) \cup (Online \cap gone),
                      f \in Online \ gone :
                       m \in subs[f] /\ p = <<m, client[f].session>>
      BY <1>8, <1>10, EndsAre
    <3>3. QED
      BY <3>1, <3>2
  <2>4. w \in Room!WantsWithout(ended) <=>
            \E m, f \in Online \ gone :
                m \in subs[f] /\ w = <<client[m].session, client[f].session>>
    BY <1>8, <1>10, EndsAre
  <2>5. \A f \in Online \ gone : client[f].session \in Room!Sessions
    BY SessionsAre
  <2>6. QED
    BY <2>2, <2>3, <2>4, <2>5
<1>15. ASSUME NEW p
       PROVE  p \in Stale' <=> p \in Room!Left(ended) /\ p[1] # l
  <2> HIDE DEF gone, ended
  <2>1. p \in Stale' <=>
            \E m \in ((Link \ Online) \cup (Online \cap gone)) \ {l},
               f \in Online \ gone :
                m \in subs[f] /\ p = <<m, client[f].session>>
    BY <1>5, <1>6, <1>7, <1>11, StaleThen
  <2>2. p \in Room!Left(ended) <=>
            \E m \in (Link \ Online) \cup (Online \cap gone), f \in Online \ gone :
                m \in subs[f] /\ p = <<m, client[f].session>>
    BY <1>8, <1>10, EndsAre
  <2>3. QED
    BY <2>1, <2>2
<1>16. Wants' = Room!WantsWithout(ended)
                   \cup {<<count, s>> : s \in {t \in Room!Sessions :
                                                 <<l, t>> \in Room!Left(ended)}}
  <2> HIDE DEF gone, ended
  <2>1. QED
    BY <1>14
<1>17. Stale' = {p \in Room!Left(ended) : p[1] # l}
  <2> HIDE DEF gone, ended
  <2>1. QED
    BY <1>15
<1>18. QED
  BY <1>12, <1>13, <1>16, <1>17 DEF Room!Login

(* Subscribe and Unsubscribe change one pair.                              *)
LEMMA OnePair ==
    ASSUME Inv, client' = client, NEW l \in Online, NEW k \in Online
    PROVE  /\ subs' = [f \in Link |-> IF f = k THEN subs[f] \cup {l} ELSE subs[f]]
              => Wants' = Wants \cup {<<client[l].session, client[k].session>>}
           /\ subs' = [f \in Link |-> IF f = k THEN subs[f] \ {l} ELSE subs[f]]
              => Wants' = Wants \ {<<client[l].session, client[k].session>>}
<1> DEFINE pair == <<client[l].session, client[k].session>>
<1>1. \A f \in Online : f \in Link
  BY DEF Online
<1>2. \A m, f \in Online :
          <<client[m].session, client[f].session>> = pair <=> m = l /\ f = k
  BY DEF Inv, OneLoginPerUser
<1>3. ASSUME subs' = [f \in Link |-> IF f = k THEN subs[f] \cup {l} ELSE subs[f]]
      PROVE  Wants' = Wants \cup {pair}
  <2>1. \A m, f \in Online : m \in subs'[f] <=> m \in subs[f] \/ (m = l /\ f = k)
    BY <1>1, <1>3
  <2>2. ASSUME NEW w
        PROVE  w \in Wants' <=> w \in Wants \/ w = pair
    BY <1>2, <2>1, WantsAre, SameLogins
  <2>3. QED
    BY <2>2
<1>4. ASSUME subs' = [f \in Link |-> IF f = k THEN subs[f] \ {l} ELSE subs[f]]
      PROVE  Wants' = Wants \ {pair}
  <2>1. \A m, f \in Online : m \in subs'[f] <=> m \in subs[f] /\ ~(m = l /\ f = k)
    BY <1>1, <1>4
  <2>2. ASSUME NEW w
        PROVE  w \in Wants' <=> w \in Wants /\ w # pair
    BY <1>2, <2>1, WantsAre, SameLogins
  <2>3. QED
    BY <2>2
<1>5. QED
  BY <1>3, <1>4

(* The other steps: nothing changes for those logged in.                   *)
LEMMA SameWants ==
    ASSUME client' = client, \A f \in Online : subs'[f] \cap Online = subs[f] \cap Online
    PROVE  Logins' = Logins /\ Wants' = Wants
<1>1. ASSUME NEW w
      PROVE  w \in Wants' <=> w \in Wants
  <2>1. \A m, f \in Online : m \in subs'[f] <=> m \in subs[f]
    OBVIOUS
  <2>2. QED
    BY <2>1, WantsAre, SameLogins
<1>2. QED
  BY <1>1, SameLogins

(* Nor for the links of those who were, where their numbers stay.          *)
LEMMA SameStale ==
    ASSUME client' = client, \A f \in Online : subs'[f] \ Online = subs[f] \ Online
    PROVE  Stale' = Stale
<1>1. ASSUME NEW w
      PROVE  w \in Stale' <=> w \in Stale
  <2>1. \A m \in Link \ Online, f \in Online : m \in subs'[f] <=> m \in subs[f]
    OBVIOUS
  <2>2. QED
    BY <2>1, StaleAre, SameLogins
<1>2. QED
  BY <1>1 DEF Stale

LEMMA SubscribeRefines ==
    ASSUME Inv, NEW l \in Link, NEW s \in 0 .. count, Subscribe(l, s)
    PROVE  Room!Subscribe(client[l].session, s)
<1>1. l \in Online /\ client' = client /\ count' = count /\ Logins' = Logins
  BY SameLogins DEF Subscribe
<1>2. client[l].session \in Room!Sessions
  BY <1>1, SessionsAre
<1>3. sent' = [type |-> "SUBSCRIBE", session |-> client[l].session,
               found |-> s \in Room!Sessions]
  BY FoundIsOnline DEF Subscribe, Result
<1>4. Wants' = Wants \cup {w \in {<<client[l].session, s>>} : s \in Room!Sessions}
  <2>1. CASE s \in Room!Sessions
    <3>1. PICK k \in Online : client[k].session = s
      BY <2>1, SessionsAre
    <3>2. \A f \in Link : f \in FindClientBySession(s) <=> f = k
      BY <3>1 DEF FindClientBySession, Inv, OneLoginPerUser
    <3>3. subs' = [f \in Link |-> IF f = k THEN subs[f] \cup {l} ELSE subs[f]]
      BY <3>2 DEF Subscribe
    <3>4. QED
      BY <1>1, <2>1, <3>1, <3>3, OnePair
  <2>2. CASE s \notin Room!Sessions
    <3>1. FindClientBySession(s) = {}
      BY <2>2, FoundIsOnline
    <3>2. \A f \in Online : subs'[f] = subs[f]
      BY <3>1 DEF Subscribe, Online
    <3>3. QED
      BY <1>1, <2>2, <3>2, SameWants
  <2>3. QED
    BY <2>1, <2>2
<1>5. Stale' = Stale
  <2>1. \A f \in Online : subs'[f] \ Online = subs[f] \ Online
    BY <1>1 DEF Subscribe, Online
  <2>2. QED
    BY <1>1, <2>1, SameStale
<1>6. QED
  BY <1>1, <1>2, <1>3, <1>4, <1>5 DEF Room!Subscribe

LEMMA UnsubscribeRefines ==
    ASSUME Inv, NEW l \in Link, NEW s \in 0 .. count, Unsubscribe(l, s)
    PROVE  Room!Unsubscribe(client[l].session, s)
<1>1. l \in Online /\ client' = client /\ count' = count /\ Logins' = Logins
  BY SameLogins DEF Unsubscribe
<1>2. client[l].session \in Room!Sessions
  BY <1>1, SessionsAre
<1>3. sent' = [type |-> "UNSUBSCRIBE", session |-> client[l].session,
               found |-> s \in Room!Sessions]
  BY FoundIsOnline DEF Unsubscribe, Result
<1>4. Wants' = Wants \ {<<client[l].session, s>>}
  <2>1. CASE s \in Room!Sessions
    <3>1. PICK k \in Online : client[k].session = s
      BY <2>1, SessionsAre
    <3>2. \A f \in Link : f \in FindClientBySession(s) <=> f = k
      BY <3>1 DEF FindClientBySession, Inv, OneLoginPerUser
    <3>3. subs' = [f \in Link |-> IF f = k THEN subs[f] \ {l} ELSE subs[f]]
      BY <3>2 DEF Unsubscribe
    <3>4. QED
      BY <1>1, <3>1, <3>3, OnePair
  <2>2. CASE s \notin Room!Sessions
    <3>1. FindClientBySession(s) = {}
      BY <2>2, FoundIsOnline
    <3>2. \A f \in Online : subs'[f] = subs[f]
      BY <3>1 DEF Unsubscribe, Online
    <3>3. Wants' = Wants
      BY <1>1, <3>2, SameWants
    <3>4. <<client[l].session, s>> \notin Wants
      BY <2>2, SessionsAre, WantsAre
    <3>5. QED
      BY <3>3, <3>4
  <2>3. QED
    BY <2>1, <2>2
<1>5. Stale' = Stale
  <2>1. \A f \in Online : subs'[f] \ Online = subs[f] \ Online
    BY <1>1 DEF Unsubscribe, Online
  <2>2. QED
    BY <1>1, <2>1, SameStale
<1>6. QED
  BY <1>1, <1>2, <1>3, <1>4, <1>5 DEF Room!Unsubscribe

LEMMA StreamRefines ==
    ASSUME Inv, NEW l \in Link, Stream(l)
    PROVE  Room!Stream(Entry(l))
<1>1. l \in Online /\ client' = client /\ count' = count
  BY DEF Stream
<1>2. client[l].session \in Room!Sessions
  BY <1>1, SessionsAre
<1>3. \A f \in Online : subs'[f] \cap Online = subs[f] \cap Online
  BY DEF Stream, Inv, TypeOK, Online
<1>4. Logins' = Logins /\ Wants' = Wants
  BY <1>1, <1>3, SameWants
<1>5. {client[f].session : f \in subs[l] \cap Online}
          = {v \in Room!Sessions : <<v, client[l].session>> \in Wants}
  <2>1. ASSUME NEW f \in subs[l] \cap Online
        PROVE  /\ client[f].session \in Room!Sessions
               /\ <<client[f].session, client[l].session>> \in Wants
    BY <1>1, SessionsAre, WantsAre
  <2>2. ASSUME NEW v, <<v, client[l].session>> \in Wants
        PROVE  v \in {client[f].session : f \in subs[l] \cap Online}
    <3>1. PICK m \in Online, f \in Online :
                /\ m \in subs[f]
                /\ <<v, client[l].session>> = <<client[m].session, client[f].session>>
      BY <2>2, WantsAre
    <3>2. v = client[m].session /\ f = l
      BY <1>1, <3>1 DEF Inv, OneLoginPerUser
    <3>3. QED
      BY <3>1, <3>2
  <2>3. QED
    BY <2>1, <2>2
<1>6. ASSUME NEW p
      PROVE  p \in Stale' <=> p \in Stale /\ p[2] # client[l].session
  <2>1. \A f \in Online : f = l <=> client[f].session = client[l].session
    BY <1>1 DEF Inv, OneLoginPerUser
  <2>2. \A m \in Link \ Online, f \in Online :
            m \in subs'[f] <=> m \in subs[f] /\ f # l
    BY <1>1 DEF Stream, Inv, TypeOK, Online
  <2>3. QED
    BY <1>1, <2>1, <2>2, StaleAre, SameLogins
<1>7. Stale' = {p \in Stale : p[2] # client[l].session}
  BY <1>6
<1>8. Entry(l) \in Logins
  BY <1>1, LoginsAre
<1>9. Entry(l).session = client[l].session /\ Entry(l).mark = l
  BY DEF Entry
<1>10. sent' = [type |-> "STREAM", from |-> l,
                to |-> {v \in Room!Sessions : <<v, client[l].session>> \in Wants}]
  BY <1>5 DEF Stream
<1>11. QED
  BY <1>1, <1>4, <1>7, <1>8, <1>9, <1>10 DEF Room!Stream

LEMMA LeaveRefines ==
    ASSUME Inv, NEW l \in Online,
           client' = ClientsWithout({l}), subs' = SubsWithout({l}), count' = count,
           sent' \in {sent, [type |-> "USERLOGOUT", session |-> client[l].session]}
    PROVE  Room!Leave(client[l].session)
<1>1. client[l].session \in Room!Sessions
  BY SessionsAre
<1>2. QED
  BY <1>1, WithoutLeaves DEF Room!Leave

LEMMA StepRefines ==
    ASSUME Inv, [Next]_vars
    PROVE  [Room!Next]_(Room!vars)
<1>1. ASSUME NEW l \in Link, onAccept(l)
      PROVE  UNCHANGED Room!vars
  BY <1>1, SameWants, SameStale DEF onAccept, Room!vars
<1>2. ASSUME NEW l \in Link, onClosed(l)
      PROVE  [Room!Next]_(Room!vars)
  <2>1. CASE l \in Online
    <3>1. Room!Leave(client[l].session)
      BY <1>2, <2>1, LeaveRefines DEF onClosed
    <3>2. QED
      BY <2>1, <3>1, SessionsAre DEF Room!Next
  <2>2. CASE l \notin Online
    <3>1. client' = client /\ subs' = subs
      BY <1>2, <2>2 DEF onClosed, ClientsWithout, SubsWithout, Online, Inv, TypeOK
    <3>2. QED
      BY <1>2, <3>1, SameWants, SameStale DEF onClosed, Room!vars
  <2>3. QED
    BY <2>1, <2>2
<1>3. ASSUME NEW l \in Link, NEW u \in User, UserLogin(l, u)
      PROVE  Room!Next
  BY <1>3, LoginRefines DEF Room!Next
<1>4. ASSUME NEW l \in Link, UserLogout(l)
      PROVE  Room!Next
  <2>1. Room!Leave(client[l].session)
    BY <1>4, LeaveRefines DEF UserLogout, Reply
  <2>2. QED
    BY <1>4, <2>1, SessionsAre DEF UserLogout, Room!Next
<1>5. ASSUME NEW l \in Link, Stream(l)
      PROVE  Room!Next
  <2>1. Entry(l) \in Logins
    BY <1>5, LoginsAre DEF Stream
  <2>2. QED
    BY <1>5, <2>1, StreamRefines DEF Room!Next
<1>6. ASSUME NEW l \in Link, Heartbeat(l)
      PROVE  Room!Next
  <2>1. Room!Heartbeat(client[l].session)
    BY <1>6, SameWants, SameStale, SessionsAre DEF Heartbeat, Reply, Room!Heartbeat
  <2>2. QED
    BY <1>6, <2>1, SessionsAre DEF Heartbeat, Room!Next
<1>7. ASSUME NEW l \in Link, NEW s \in 0 .. count, Subscribe(l, s)
      PROVE  Room!Next
  BY <1>7, SubscribeRefines, SessionsAre DEF Subscribe, Room!Next
<1>8. ASSUME NEW l \in Link, NEW s \in 0 .. count, Unsubscribe(l, s)
      PROVE  Room!Next
  BY <1>8, UnsubscribeRefines, SessionsAre DEF Unsubscribe, Room!Next
<1>9. ASSUME UNCHANGED vars
      PROVE  UNCHANGED Room!vars
  BY <1>9, SameWants, SameStale DEF vars, Room!vars
<1>10. QED
  BY <1>1, <1>2, <1>3, <1>4, <1>5, <1>6, <1>7, <1>8, <1>9 DEF Next

(* For any number of links, users and logins, however often a link carries *)
(* another one: every frame goes to exactly the logins that have           *)
(* subscribed to its sender, and to those that came over a link on which   *)
(* an ended login had left a subscription to it.                           *)
THEOREM ChatImplementsRoom == Spec => ImplementsRoom
<1>1. Init => Room!Init
  BY DEF Init, Room!Init, Logins, Wants, Stale, Online
<1>2. Inv /\ [Next]_vars => [Room!Next]_(Room!vars)
  BY StepRefines
<1>3. QED
  BY <1>1, <1>2, InvHolds, PTL DEF Spec, ImplementsRoom, Room!Spec

-----------------------------------------------------------------------------
(* Where clients only end, or begin with a session nobody has, the         *)
(* subscriptions between those who stay are as they were.                  *)
LEMMA StayersKeep ==
    ASSUME Inv, NEW stay \in SUBSET Online, stay \subseteq Online',
           \A m \in stay : client'[m] = client[m] /\ subs'[m] = subs[m],
           \A m \in Online' \ stay, k \in Online :
               client'[m].session # client[k].session,
           NEW w \in Wants, {w[1], w[2]} \subseteq Room!Sessions'
    PROVE  w \in Wants'
<1>1. PICK l \in Online, f \in Online :
            l \in subs[f] /\ w = <<client[l].session, client[f].session>>
  BY WantsAre
<1>2. Room!Sessions' = {client'[m].session : m \in Online'}
  BY SessionsThen
<1>3. ASSUME NEW k \in Online, client[k].session \in Room!Sessions'
      PROVE  k \in stay
  <2>1. PICK m \in Online' : client'[m].session = client[k].session
    BY <1>2, <1>3
  <2>2. m \in stay /\ client[m].session = client[k].session
    BY <2>1
  <2>3. QED
    BY <2>2 DEF Inv, OneLoginPerUser
<1>4. l \in stay /\ f \in stay
  BY <1>1, <1>3
<1>5. QED
  BY <1>1, <1>4, WantsThen

(* The frame of a login reaches whoever has subscribed to it.              *)
LEMMA FrameReaches ==
    ASSUME Inv, NEW l \in Online, Stream(l),
           NEW w \in Wants, client[l].session = w[2]
    PROVE  w[1] \in sent'.to
<1>1. PICK m \in Online, f \in Online :
            m \in subs[f] /\ w = <<client[m].session, client[f].session>>
  BY WantsAre
<1>2. f = l
  BY <1>1 DEF Inv, OneLoginPerUser
<1>3. QED
  BY <1>1, <1>2 DEF Stream

LEMMA LoginMisses ==
    ASSUME Inv, NEW l \in Link, NEW u \in User, UserLogin(l, u),
           NEW w \in Wants, {w[1], w[2]} \subseteq Room!Sessions'
    PROVE  w \in Wants'
<1> DEFINE gone == FindClientByUSession(u) \cup {l}
           new == [user |-> u, session |-> count]
           stay == Online \ gone
<1>1. count \in 0 .. MaxLogins /\ new # None
  BY NoneAssumption, ChatAssumption DEF Inv, TypeOK, UserLogin, Client
<1>2. client' = [m \in Link |-> IF m = l THEN new
                               ELSE IF m \in gone THEN None ELSE client[m]]
  BY DEF UserLogin, ClientsWithout
<1>3. subs' = [m \in Link |-> IF m \in gone THEN {} ELSE subs[m]]
  BY DEF UserLogin, SubsWithout
<1>4. Online' = stay \cup {l}
  BY <1>1, <1>2 DEF Online
<1>5. \A m \in stay : client'[m] = client[m] /\ subs'[m] = subs[m]
  BY <1>2, <1>3 DEF Online
<1>6. \A m \in Online' \ stay, k \in Online : client'[m].session # client[k].session
  <2>1. client'[l].session = count
    BY <1>2
  <2>2. \A k \in Online : client[k].session < count
    BY DEF Inv, TypeOK
  <2>3. \A k \in Online : client[k].session \in Nat
    BY ChatAssumption DEF Inv, TypeOK, Online, Client
  <2>4. QED
    BY <1>1, <1>4, <2>1, <2>2, <2>3
<1>7. stay \in SUBSET Online /\ stay \subseteq Online'
  BY <1>4
<1>8. QED
  BY <1>5, <1>6, <1>7, StayersKeep

LEMMA WithoutMisses ==
    ASSUME Inv, NEW l \in Link,
           client' = ClientsWithout({l}), subs' = SubsWithout({l}),
           NEW w \in Wants, {w[1], w[2]} \subseteq Room!Sessions'
    PROVE  w \in Wants'
<1>1. Online' = Online \ {l}
  BY DEF Online, ClientsWithout
<1>2. \A m \in Online' : client'[m] = client[m] /\ subs'[m] = subs[m]
  BY <1>1 DEF Online, ClientsWithout, SubsWithout
<1>3. Online' \in SUBSET Online
  BY <1>1
<1>4. QED
  BY <1>2, <1>3, StayersKeep

(* A subscription is taken back by the subscriber only.                    *)
LEMMA UnsubscribeMisses ==
    ASSUME Inv, NEW l \in Link, NEW s \in 0 .. count, Unsubscribe(l, s),
           NEW w \in Wants, w \notin Wants'
    PROVE  client[l].session = w[1] /\ s = w[2]
<1>1. Wants' = Wants \ {<<client[l].session, s>>}
  BY UnsubscribeRefines DEF Room!Unsubscribe
<1>2. QED
  BY <1>1

LEMMA StepMisses ==
    ASSUME Inv, [Next]_vars, NEW w \in Wants
    PROVE  \/ w \in Wants'
           \/ ~({w[1], w[2]} \subseteq Room!Sessions')
           \/ \E l \in Online : client[l].session = w[1] /\ Unsubscribe(l, w[2])
<1>1. ASSUME NEW l \in Link, onAccept(l) \/ Heartbeat(l)
      PROVE  w \in Wants'
  BY <1>1, SameWants DEF onAccept, Heartbeat
<1>2. ASSUME NEW l \in Link, onClosed(l) \/ UserLogout(l)
      PROVE  w \in Wants' \/ ~({w[1], w[2]} \subseteq Room!Sessions')
  BY <1>2, WithoutMisses DEF onClosed, UserLogout
<1>3. ASSUME NEW l \in Link, NEW u \in User, UserLogin(l, u)
      PROVE  w \in Wants' \/ ~({w[1], w[2]} \subseteq Room!Sessions')
  BY <1>3, LoginMisses
<1>4. ASSUME NEW l \in Link, Stream(l)
      PROVE  w \in Wants'
  BY <1>4, StreamRefines DEF Room!Stream
<1>5. ASSUME NEW l \in Link, NEW s \in 0 .. count, Subscribe(l, s)
      PROVE  w \in Wants'
  BY <1>5, SubscribeRefines DEF Room!Subscribe
<1>6. ASSUME NEW l \in Link, NEW s \in 0 .. count, Unsubscribe(l, s)
      PROVE  \/ w \in Wants'
             \/ \E k \in Online : client[k].session = w[1] /\ Unsubscribe(k, w[2])
  BY <1>6, UnsubscribeMisses DEF Unsubscribe
<1>7. ASSUME UNCHANGED vars
      PROVE  w \in Wants'
  BY <1>7, SameWants DEF vars
<1>8. QED
  BY <1>1, <1>2, <1>3, <1>4, <1>5, <1>6, <1>7 DEF Next

(* For any number of links, users and logins: no subscription is lost but  *)
(* by its two parties, and no frame is kept from a subscriber.             *)
THEOREM NobodyIsMissedHolds == Spec => NobodyIsMissed
<1> DEFINE Step == \A w \in Wants :
          /\ \/ w \in Wants'
             \/ ~({w[1], w[2]} \subseteq Room!Sessions')
             \/ \E l \in Online : client[l].session = w[1] /\ Unsubscribe(l, w[2])
          /\ \A l \in Online :
                client[l].session = w[2] /\ Stream(l) => w[1] \in sent'.to
<1>1. Inv /\ [Next]_vars => Step
  BY StepMisses, FrameReaches
<1>2. QED
  BY <1>1, InvHolds, PTL DEF Spec, NobodyIsMissed

=============================================================================
