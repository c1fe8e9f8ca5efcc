------------------------------ MODULE VideoChat ------------------------------
(***************************************************************************)
(* The video chat server (CVideoChatServer): users log in over TCP links,  *)
(* subscribe to the streams of others, and the server copies each frame to *)
(* the subscribers.  Every handler runs under the lock of the table of     *)
(* clients, so each is one action, whatever thread calls it.               *)
(*                                                                         *)
(* m_TargetSubscribes and m_dwLastActive are written and never read; they  *)
(* are left out, and with them PLAYERLIST and REPORTERROR, which do no     *)
(* more.  GetTickCount() + dwCount++ is a fresh number.  A link may carry  *)
(* one login after another, and its number may be that of a closed link.   *)
(***************************************************************************)
EXTENDS Naturals, FiniteSets

CONSTANTS Link,       \* the numbers the TCP server gives to links
          User,       \* the user sessions (16 bytes) people log in with
          MaxLogins,  \* bound of the model: logins
          None

ASSUME ChatAssumption == MaxLogins \in Nat

VARIABLES up,     \* the links that are up
          client, \* m_vccMgr: per link None or [user, session]
          subs,   \* m_SourceSubscribes of each client: the links it sends to
          count,  \* dwCount: the sessions given out
          sent    \* what was sent last

vars == <<up, client, subs, count, sent>>

Client == [user : User, session : 0 .. MaxLogins]

ASSUME NoneAssumption == None \notin Client

Online == {l \in Link : client[l] # None}

FindClientBySession(s) == {l \in Online : client[l].session = s}
FindClientByUSession(u) == {l \in Online : client[l].user = u}

(* The clients with the links in gone taken out, and what they send to.    *)
ClientsWithout(gone) == [l \in Link |-> IF l \in gone THEN None ELSE client[l]]
SubsWithout(gone) == [l \in Link |-> IF l \in gone THEN {} ELSE subs[l]]

Reply(type, l) == [type |-> type, session |-> client[l].session]
Result(type, l, s) == [type |-> type, session |-> client[l].session,
                       found |-> FindClientBySession(s) # {}]

Init == /\ up = {}
        /\ client = [l \in Link |-> None]
        /\ subs = [l \in Link |-> {}]
        /\ count = 0
        /\ sent = None

-----------------------------------------------------------------------------
onAccept(l) == /\ l \notin up
               /\ up' = up \cup {l}
               /\ UNCHANGED <<client, subs, count, sent>>

(* Mutant of onClosed: the client stays in the table.                      *)
onClosedForgets(l) == /\ l \in up
                      /\ up' = up \ {l}
                      /\ UNCHANGED <<client, subs, count, sent>>

onClosed(l) == /\ l \in up
               /\ up' = up \ {l}
               /\ client' = ClientsWithout({l})
               /\ subs' = SubsWithout({l})
               /\ UNCHANGED <<count, sent>>

(* Mutant of UserLogin: the user's earlier login stays.                    *)
UserLoginTwice(l, u) ==
    /\ l \in up
    /\ count < MaxLogins
    /\ client' = [ClientsWithout({l}) EXCEPT ![l] = [user |-> u, session |-> count]]
    /\ subs' = SubsWithout({l})
    /\ count' = count + 1
    /\ sent' = [type |-> "USERLOGIN", session |-> count]
    /\ UNCHANGED up

UserLogin(l, u) ==
    LET gone == FindClientByUSession(u) \cup {l}
    IN  /\ l \in up
        /\ count < MaxLogins
        /\ client' = [ClientsWithout(gone) EXCEPT
                         ![l] = [user |-> u, session |-> count]]
        /\ subs' = SubsWithout(gone)
        /\ count' = count + 1
        /\ sent' = [type |-> "USERLOGIN", session |-> count]
        /\ UNCHANGED up

UserLogout(l) == /\ l \in Online
                 /\ client' = ClientsWithout({l})
                 /\ subs' = SubsWithout({l})
                 /\ sent' = Reply("USERLOGOUT", l)
                 /\ UNCHANGED <<up, count>>

(* The friend is named by the session of his login, which may be over.     *)
Subscribe(l, s) ==
    /\ l \in Online
    /\ subs' = [f \in Link |-> IF f \in FindClientBySession(s)
                               THEN subs[f] \cup {l} ELSE subs[f]]
    /\ sent' = Result("SUBSCRIBE", l, s)
    /\ UNCHANGED <<up, client, count>>

(* Mutant of Unsubscribe: the wrong one of the two lists.                  *)
UnsubscribeTurned(l, s) ==
    /\ l \in Online
    /\ subs' = [subs EXCEPT ![l] = @ \ FindClientBySession(s)]
    /\ sent' = Result("UNSUBSCRIBE", l, s)
    /\ UNCHANGED <<up, client, count>>

Unsubscribe(l, s) ==
    /\ l \in Online
    /\ subs' = [f \in Link |-> IF f \in FindClientBySession(s)
                               THEN subs[f] \ {l} ELSE subs[f]]
    /\ sent' = Result("UNSUBSCRIBE", l, s)
    /\ UNCHANGED <<up, client, count>>

(* Mutant of Stream: a number without a client ends the walk over the list.*)
StreamStops(l) ==
    /\ l \in Online
    /\ subs' = [subs EXCEPT ![l] = @ \cap Online]
    /\ sent' = [type |-> "STREAM", from |-> l,
                to |-> IF subs[l] \subseteq Online
                       THEN {client[f].session : f \in subs[l]} ELSE {}]
    /\ UNCHANGED <<up, client, count>>

(* A frame goes to every link on the list that has a client; the others    *)
(* are taken off the list.  dwSession of the frame that goes out is the    *)
(* sender's link number, not the session that a subscription names.        *)
Stream(l) ==
    /\ l \in Online
    /\ subs' = [subs EXCEPT ![l] = @ \cap Online]
    /\ sent' = [type |-> "STREAM", from |-> l,
                to |-> {client[f].session : f \in subs[l] \cap Online}]
    /\ UNCHANGED <<up, client, count>>

Heartbeat(l) == /\ l \in Online
                /\ sent' = Reply("HEARTBEAT", l)
                /\ UNCHANGED <<up, client, subs, count>>

Next == \E l \in Link :
            \/ onAccept(l) \/ onClosed(l)
            \/ \E u \in User : UserLogin(l, u)
            \/ UserLogout(l) \/ Stream(l) \/ Heartbeat(l)
            \/ \E s \in 0 .. count : Subscribe(l, s) \/ Unsubscribe(l, s)

Spec == Init /\ [][Next]_vars

-----------------------------------------------------------------------------
(* The type invariant: a client has a link that is up and a session that   *)
(* has been given out, and only clients have lists.                        *)
TypeOK ==
    /\ up \subseteq Link
    /\ client \in [Link -> Client \cup {None}]
    /\ subs \in [Link -> SUBSET Link]
    /\ count \in 0 .. MaxLogins
    /\ \A l \in Online : l \in up /\ client[l].session < count
    /\ \A l \in Link \ Online : subs[l] = {}

(* However often and over however many links a user logs in, he has one    *)
(* login, and no two logins have one session (STREAM_TYPE_USERLOGIN).      *)
OneLoginPerUser ==
    \A l, m \in Online : l # m => /\ client[l].user # client[m].user
                                  /\ client[l].session # client[m].session

Logins == {[user |-> client[l].user, session |-> client[l].session, mark |-> l] :
              l \in Online}
Wants == {<<client[p[1]].session, client[p[2]].session>> :
             p \in {q \in Online \X Online : q[1] \in subs[q[2]]}}
Stale == {<<p[1], client[p[2]].session>> :
             p \in {q \in (Link \ Online) \X Online : q[1] \in subs[q[2]]}}

Room == INSTANCE ChatRoom WITH logins <- Logins, wants <- Wants, stale <- Stale,
                               issued <- count, Mark <- Link, Nothing <- None

(* The server does what ChatRoom says: the lists of link numbers are the   *)
(* subscriptions between logins, and those that ended logins have left on  *)
(* their links; no frame is kept from a subscriber, and none is sent to    *)
(* anybody else but a login over such a link (the number stays on the list *)
(* until STREAM_TYPE_VIDEO finds it without a client and erases it).       *)
ImplementsRoom == Room!Spec

(* A subscription between two logins lasts as long as both, unless the     *)
(* subscriber takes it back, and every frame reaches him, whatever old     *)
(* numbers stand on the list and are erased from it on the way             *)
(* (STREAM_TYPE_VIDEO).                                                    *)
NobodyIsMissed ==
    [][\A w \in Wants :
          /\ \/ w \in Wants'
             \/ ~({w[1], w[2]} \subseteq Room!Sessions')
             \/ \E l \in Online : client[l].session = w[1] /\ Unsubscribe(l, w[2])
          /\ \A l \in Online :
                client[l].session = w[2] /\ Stream(l) => w[1] \in sent'.to]_vars

(* What VideoChatServer.h:34 says of m_SourceSubscribes, "the list of the  *)
(* users who have subscribed to oneself": a login is on the list of        *)
(* another one only after it has itself subscribed to it.                  *)
OnlyWhoSubscribed ==
    [][\A w \in Wants' \ Wants :
          \E l \in Online : client[l].session = w[1] /\ Subscribe(l, w[2])]_vars

=============================================================================
