------------------------------- MODULE Roster -------------------------------
(***************************************************************************)
(* What the order server promises those who have a file open, without      *)
(* links, queues and messages: a user who comes or goes is known to have   *)
(* done so to every other user at that moment, and whoever asks gets the   *)
(* users that were noted down for him, those of them that can be named.    *)
(***************************************************************************)
EXTENDS FiniteSets

CONSTANTS Clients, Sources

VARIABLES users,    \* the users of the channel
          sources,  \* its sources
          named,    \* the clients that may be named to others
          noted,    \* per client: the users it is to be told of
          listens,  \* the clients that have the file open
          knows     \* per client: whom it knows

vars == <<users, sources, named, noted, listens, knows>>

Init == /\ users = {} /\ sources = {} /\ named = {} /\ listens = {}
        /\ noted = [c \in Clients |-> {}]
        /\ knows = [c \in Clients |-> {}]

(* A client opens the file, or opens it again, and may start anew.         *)
Listen(c) == /\ listens' = listens \cup {c}
             /\ \E rest \in SUBSET knows[c] : knows' = [knows EXCEPT ![c] = rest]
             /\ UNCHANGED <<users, sources, named, noted>>

(* A client closes the file, or has it closed, and forgets.                *)
Forget(c) == /\ listens' = listens \ {c}
             /\ \E rest \in SUBSET knows[c] : knows' = [knows EXCEPT ![c] = rest]
             /\ UNCHANGED <<users, sources, named, noted>>

(* A user comes.  Every other user who listens knows at once.              *)
Others(c) == users \ {c}

Login(c) ==
    /\ users' = users \cup {c}
    /\ sources' = sources \cup ({c} \cap Sources)
    /\ \E deaf \in SUBSET (Others(c) \ listens) :
          knows' = [d \in Clients |-> IF d \in Others(c) \ deaf
                                      THEN knows[d] \cup {c} ELSE knows[d]]
    /\ UNCHANGED <<named, noted, listens>>

(* A user goes, and with the last source everybody.                        *)
Leave(c) ==
    /\ sources' = sources \ {c}
    /\ users' = IF sources' = {} THEN {} ELSE users \ {c}
    /\ \E deaf \in SUBSET (Others(c) \ listens) :
          knows' = [d \in Clients |-> IF d \in Others(c) \ deaf
                                      THEN knows[d] \ {c} ELSE knows[d]]
    /\ UNCHANGED <<named, noted, listens>>

(* A client asks: the other users are noted down, and told him later.      *)
Ask(c) == /\ noted' = [noted EXCEPT ![c] = Others(c)]
          /\ UNCHANGED <<users, sources, named, listens, knows>>

List(c) == {d \in (noted[c] \cap named) \ {c} : ~({c, d} \subseteq Sources)}

Answer(c) ==
    /\ noted' = [noted EXCEPT ![c] = {}]
    /\ \E list \in {List(c)} \cup (IF c \in listens THEN {} ELSE {{}}) :
          knows' = [knows EXCEPT ![c] = @ \cup list]
    /\ UNCHANGED <<users, sources, named, listens>>

(* A client can be named from its first heartbeat to the end of its link.  *)
Name(c) == /\ named' = named \cup {c}
           /\ UNCHANGED <<users, sources, noted, listens, knows>>

Unname(c) == /\ named' = named \ {c}
             /\ UNCHANGED <<users, sources, noted, listens, knows>>

Next == \E c \in Clients :
           \/ Listen(c) \/ Forget(c) \/ Login(c) \/ Leave(c)
           \/ Ask(c) \/ Answer(c) \/ Name(c) \/ Unname(c)

Spec == Init /\ [][Next]_vars
=============================================================================
