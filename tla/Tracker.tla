------------------------------ MODULE Tracker ------------------------------
(***************************************************************************)
(* How readers of one file find one another: the order server's table of   *)
(* clients and of the users of a channel, and the clients that log in to   *)
(* the channel and out of it.                                              *)
(*                                                                         *)
(* A client's user thread sends its requests through one FIFO and one TCP  *)
(* link; the server handles the requests of a link one after the other,    *)
(* those of different links on several threads, and sends everything *)
(* it has to say through one FIFO, so a link's notices keep their order.   *)
(*                                                                         *)
(* A handler that holds the lock of the channel table from its first line  *)
(* to its last is one action.  OnGetPeers and LinkClose let go of a lock   *)
(* in the middle and are two actions each.                                 *)
(*                                                                         *)
(* A client is one connection: the client library connects once, and the   *)
(* server gives every connection a user id of its own.  Replies the client *)
(* drops unread, the hole punching AddPeer asks for, and the addresses are *)
(* left out: no table below depends on them.                               *)
(***************************************************************************)
EXTENDS Naturals, Sequences, FiniteSets

CONSTANTS Clients,      \* the client processes
          Sources,      \* those that open the file as its source
          Environments  \* what env may be

ASSUME TrackerAssumption ==
    /\ Sources \subseteq Clients
    /\ Environments \subseteq [workers : Nat \ {0}, slowOpen : BOOLEAN,
                               lateUdp : BOOLEAN, opens : [Clients -> Nat]]

VARIABLES env,       \* never changes: the number of worker threads, may a notice
                     \* overtake OpenSource's last step, may a client open
                     \* before its UDP heartbeat arrives; and a bound: how
                     \* often each client opens the file
          link,      \* per client: its connection to the server
          chan,      \* per client: its channel object for the file
          peers,     \* per client: the peers that channel knows
          opens,     \* per client: how often it opened the file
          requests,  \* per client: what the server has yet to handle
          notices,   \* per client: what it has yet to receive
          clients,   \* server: the users in its table of clients
          udp,       \* server: those whose UDP heartbeat arrived
          users,     \* server: the users of the channel
          sources,   \* server: those that are its sources
          asked,     \* server: per link, the half done OnGetPeers
          closing    \* server: the links with a half done LinkClose

clientVars == <<link, chan, peers, opens>>
serverVars == <<clients, udp, users, sources>>
handlerVars == <<asked, closing>>
vars == <<env, clientVars, requests, notices, serverVars, handlerVars>>

Request == {"LOGIN_CHANNEL", "LOGOUT_CHANNEL", "GETPEERS"}
Notice == [kind : {"GETPEERS_RET", "PEERLOGIN", "PEERLOGOUT"},
           list : SUBSET Clients]

(* A client has yet to connect, or has come and gone.                      *)
Init == /\ env \in Environments
        /\ link \in [Clients -> {"none", "lost"}]
        /\ chan = [c \in Clients |-> "closed"]
        /\ peers = [c \in Clients |-> {}]
        /\ opens = [c \in Clients |-> 0]
        /\ requests = [c \in Clients |-> <<>>]
        /\ notices = [c \in Clients |-> <<>>]
        /\ clients = {}
        /\ udp = {}
        /\ users = {}
        /\ sources = {}
        /\ asked = [c \in Clients |-> <<>>]
        /\ closing = {}
-----------------------------------------------------------------------------
(***************************************************************************)
(* The client.                                                             *)
(***************************************************************************)

(* The connection is accepted, CONNECT handled and answered.               *)
Connect(c) ==
    /\ link[c] = "none"
    /\ link' = [link EXCEPT ![c] = "up"]
    /\ clients' = clients \cup {c}
    /\ UNCHANGED <<chan, peers, opens, requests, notices, udp, users, sources,
                   handlerVars>>

(* OpenSource destroys the channel the process may have for the file,      *)
(* whose destructor logs out, and makes a new one, which asks to log in    *)
(* and for the peers before OpenInsert enters it in the channel table.     *)
OpenRequests(c) ==
    IF chan[c] = "open" THEN <<"LOGOUT_CHANNEL", "LOGIN_CHANNEL", "GETPEERS">>
                        ELSE <<"LOGIN_CHANNEL", "GETPEERS">>

OpenSource(c) ==
    /\ link[c] = "up"
    /\ chan[c] # "opening"
    /\ opens[c] < env.opens[c]
    /\ env.lateUdp \/ c \in udp
    /\ chan' = [chan EXCEPT ![c] = "opening"]
    /\ peers' = [peers EXCEPT ![c] = {}]
    /\ opens' = [opens EXCEPT ![c] = @ + 1]
    /\ requests' = [requests EXCEPT ![c] = @ \o OpenRequests(c)]
    /\ UNCHANGED <<link, notices, serverVars, handlerVars>>

OpenInsert(c) ==
    /\ chan[c] = "opening"
    /\ chan' = [chan EXCEPT ![c] = "open"]
    /\ UNCHANGED <<link, peers, opens, requests, notices, serverVars,
                   handlerVars>>

(* Mutant of CloseSource: the destructor does not log out.                 *)
CloseSourceSilent(c) ==
    /\ chan[c] = "open"
    /\ chan' = [chan EXCEPT ![c] = "closed"]
    /\ peers' = [peers EXCEPT ![c] = {}]
    /\ UNCHANGED <<link, opens, requests, notices, serverVars, handlerVars>>

CloseSource(c) ==
    /\ chan[c] = "open"
    /\ chan' = [chan EXCEPT ![c] = "closed"]
    /\ peers' = [peers EXCEPT ![c] = {}]
    /\ requests' = [requests EXCEPT ![c] = Append(@, "LOGOUT_CHANNEL")]
    /\ UNCHANGED <<link, opens, notices, serverVars, handlerVars>>

(* The process ends or crashes; what it had not yet got through is lost.   *)
Exit(c) ==
    /\ link[c] = "up"
    /\ link' = [link EXCEPT ![c] = "lost"]
    /\ chan' = [chan EXCEPT ![c] = "closed"]
    /\ peers' = [peers EXCEPT ![c] = {}]
    /\ requests' = [requests EXCEPT ![c] = <<>>]
    /\ notices' = [notices EXCEPT ![c] = <<>>]
    /\ UNCHANGED <<opens, serverVars, handlerVars>>

(* The TCP thread takes the next notice and looks the channel up.  A       *)
(* notice that finds no channel is dropped.                                *)
Receive(c, kinds) ==
    /\ notices[c] # <<>>
    /\ Head(notices[c]).kind \in kinds
    /\ env.slowOpen \/ chan[c] # "opening"
    /\ notices' = [notices EXCEPT ![c] = Tail(@)]
    /\ UNCHANGED <<link, chan, opens, requests, serverVars, handlerVars>>

OnPeersAdded(c) ==
    /\ Receive(c, {"GETPEERS_RET", "PEERLOGIN"})
    /\ peers' = IF chan[c] = "open"
                THEN [peers EXCEPT ![c] = @ \cup Head(notices[c]).list]
                ELSE peers

OnPeerLogout(c) ==
    /\ Receive(c, {"PEERLOGOUT"})
    /\ peers' = [peers EXCEPT ![c] = @ \ Head(notices[c]).list]
-----------------------------------------------------------------------------
(***************************************************************************)
(* The server.                                                             *)
(***************************************************************************)

(* The links whose handler is between two of its steps.                    *)
Busy == closing \cup {c \in Clients : asked[c] # <<>>}

FreeWorker(c) == /\ c \notin Busy
                 /\ Cardinality(Busy) < env.workers

(* LinkClose keeps the lock of the channel table to its end, the only one  *)
(* to hold it from one step to the next.                                   *)
ChannelsUnlocked == closing = {}

(* A link's next request, taken by a free thread.  Every handler begins    *)
(* with the lock of the channel table.                                     *)
TakeRequest(c, r) ==
    /\ requests[c] # <<>>
    /\ Head(requests[c]) = r
    /\ FreeWorker(c)
    /\ ChannelsUnlocked
    /\ requests' = [requests EXCEPT ![c] = Tail(@)]

(* The sending thread passes a notice on to everyone in "to" whose link is *)
(* up; for the others sendData fails.                                      *)
Push(to, n) ==
    notices' = [c \in Clients |-> IF c \in to /\ link[c] = "up"
                                  THEN Append(notices[c], n)
                                  ELSE notices[c]]

(* NotifyLoginChannel and NotifyLogoutChannel: to the other users of the   *)
(* channel, when the server still has the user himself and them.           *)
Notify(c, others, kind) ==
    Push(IF c \in clients THEN (others \ {c}) \cap clients ELSE {},
         [kind |-> kind, list |-> {c}])

OnUdpHeartbeat(c) ==
    /\ link[c] = "up"
    /\ c \in clients \ udp
    /\ udp' = udp \cup {c}
    /\ UNCHANGED <<clientVars, requests, notices, clients, users, sources,
                   handlerVars>>

(* Mutant of OnLoginChannel: the others are not told.                      *)
OnLoginChannelUntold(c) ==
    /\ TakeRequest(c, "LOGIN_CHANNEL")
    /\ users' = users \cup {c}
    /\ sources' = sources \cup ({c} \cap Sources)
    /\ UNCHANGED <<notices, clientVars, clients, udp, handlerVars>>

(* The channel comes to be with its first user and gets the new one.       *)
OnLoginChannel(c) ==
    /\ TakeRequest(c, "LOGIN_CHANNEL")
    /\ users' = users \cup {c}
    /\ sources' = sources \cup ({c} \cap Sources)
    /\ Notify(c, users, "PEERLOGIN")
    /\ UNCHANGED <<clientVars, clients, udp, handlerVars>>

(* Mutant of Leave: nobody is told.                                        *)
LeaveUntold(c) ==
    /\ sources' = sources \ {c}
    /\ users' = IF sources' = {} THEN {} ELSE users \ {c}
    /\ UNCHANGED notices

(* Mutant of Leave: UserLogout forgets that the user was a source.         *)
LeaveStillSource(c) ==
    /\ UNCHANGED sources
    /\ users' = IF sources' = {} THEN {} ELSE users \ {c}
    /\ Notify(c, users, "PEERLOGOUT")

(* A user leaves: the others are told, and a channel without a source is   *)
(* removed, with every user it still has.  So there is a channel exactly   *)
(* when there are users.                                                   *)
Leave(c) ==
    /\ sources' = sources \ {c}
    /\ users' = IF sources' = {} THEN {} ELSE users \ {c}
    /\ Notify(c, users, "PEERLOGOUT")

OnLogoutChannel(c) ==
    /\ TakeRequest(c, "LOGOUT_CHANNEL")
    /\ IF users # {} THEN Leave(c) ELSE UNCHANGED <<users, sources, notices>>
    /\ UNCHANGED <<clientVars, clients, udp, handlerVars>>

(* The first half of OnGetPeers notes the users, under the channel table's *)
(* lock; without a channel there is no second half.                        *)
OnGetPeers(c) ==
    /\ TakeRequest(c, "GETPEERS")
    /\ asked' = IF users # {} THEN [asked EXCEPT ![c] = <<users \ {c}>>]
                              ELSE asked
    /\ UNCHANGED <<clientVars, notices, serverVars, closing>>

(* The second answers with those who are still clients and can work; a     *)
(* source gets no sources.                                                 *)
IsCanWork(c) == c \in clients \cap udp

(* Mutant of PeerList: nobody gets sources.                                *)
PeerListNoSource(c) == {d \in Head(asked[c]) \ {c} : 
                           IsCanWork(d) /\ d \notin Sources}

PeerList(c) == {d \in Head(asked[c]) \ {c} : 
                   IsCanWork(d) /\ ~(c \in Sources /\ d \in Sources)}

AnswerGetPeers(c) ==
    /\ asked[c] # <<>>
    /\ asked' = [asked EXCEPT ![c] = <<>>]
    /\ Push({c} \cap clients, [kind |-> "GETPEERS_RET", list |-> PeerList(c)])
    /\ UNCHANGED <<clientVars, requests, serverVars, closing>>

(* LinkClose: first the user leaves the channel, then the table of         *)
(* clients, and between the two a second half of OnGetPeers still finds    *)
(* him.                                                                    *)
LinkClose(c) ==
    /\ link[c] = "lost"
    /\ c \in clients
    /\ FreeWorker(c)
    /\ ChannelsUnlocked
    /\ closing' = closing \cup {c}
    /\ IF c \in users THEN Leave(c) ELSE UNCHANGED <<users, sources, notices>>
    /\ UNCHANGED <<clientVars, requests, clients, udp, asked>>

RemoveClient(c) ==
    /\ c \in closing
    /\ closing' = closing \ {c}
    /\ clients' = clients \ {c}
    /\ udp' = udp \ {c}
    /\ UNCHANGED <<clientVars, requests, notices, users, sources, asked>>
-----------------------------------------------------------------------------
Next == /\ UNCHANGED env
        /\ \E c \in Clients :
              \/ Connect(c) \/ OpenSource(c) \/ OpenInsert(c) \/ CloseSource(c)
              \/ Exit(c) \/ OnPeersAdded(c) \/ OnPeerLogout(c)
              \/ OnUdpHeartbeat(c) \/ OnLoginChannel(c) \/ OnLogoutChannel(c)
              \/ OnGetPeers(c) \/ AnswerGetPeers(c)
              \/ LinkClose(c) \/ RemoveClient(c)

Spec == Init /\ [][Next]_vars
-----------------------------------------------------------------------------
(* The type invariant.                                                     *)
TypeOK == /\ env \in Environments
          /\ link \in [Clients -> {"none", "up", "lost"}]
          /\ chan \in [Clients -> {"closed", "opening", "open"}]
          /\ peers \in [Clients -> SUBSET Clients]
          /\ opens \in [Clients -> Nat]
          /\ requests \in [Clients -> Seq(Request)]
          /\ notices \in [Clients -> Seq(Notice)]
          /\ clients \subseteq Clients
          /\ udp \subseteq clients
          /\ sources \subseteq users \cap Sources
          /\ users \subseteq clients
          /\ asked \in [Clients -> {<<>>} \cup {<<S>> : S \in SUBSET Clients}]
          /\ closing \subseteq clients

(* Nothing is under way: every request handled, every notice received.     *)
Settled == /\ \A c \in Clients : /\ requests[c] = <<>>
                                 /\ notices[c] = <<>>
                                 /\ chan[c] # "opening"
                                 /\ link[c] = "lost" => c \notin clients
           /\ Busy = {}

(* Once everything is handled, whoever the server counts among the users   *)
(* of the channel really has it open: logging out, reopening and dying in  *)
(* the middle of either leave no user behind (Channel::UserLogout,         *)
(* ClientMgr::LinkClose).                                                  *)
UsersHaveItOpen == Settled => \A c \in users : chan[c] = "open"

(* Any two users of the channel have heard of each other, but for two      *)
(* sources: the later to log in finds the earlier in its list of peers and *)
(* is announced to him, in whatever order the server's threads handle      *)
(* their requests, unless a heartbeat is late or a notice overtakes        *)
(* OpenSource (ClientMgr::OnLoginChannel, OnGetPeers).                     *)
UsersMeet ==
    Settled /\ ~env.lateUdp /\ ~env.slowOpen =>
        \A c, d \in users : c # d /\ ~{c, d} \subseteq Sources => d \in peers[c]

(* Even when a heartbeat is late, of any two users at least one knows the  *)
(* other: no interleaving makes a pair of users miss each other.           *)
NoPairMissed ==
    Settled /\ ~env.slowOpen =>
        \A c, d \in users : c # d => d \in peers[c] \/ c \in peers[d]

(* A user's list holds nobody who has left the channel: everyone who knew  *)
(* him was told (NotifyLogoutChannel, ClientMgr.cpp:240).                  *)
NoGhosts == Settled => \A c \in users : peers[c] \subseteq users

(* One worker thread is enough for that, as nothing comes between the      *)
(* halves of OnGetPeers and of LinkClose, and one opening: a channel that  *)
(* is removed on the way from one opening to the next takes its users with *)
(* it untold (ClientMgr.cpp:246).                                          *)
NoGhostsOfOneWorker ==
    env.workers = 1 /\ (\A c \in Clients : opens[c] <= 1) => NoGhosts
=============================================================================
