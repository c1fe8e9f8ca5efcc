----------------------------- MODULE MCTransfer -----------------------------
(***************************************************************************)
(* Instances of P2PTransfer for TLC.                                       *)
(***************************************************************************)
EXTENDS P2PTransfer

\* The reader asks for the whole file, moves on, and moves to its end.
MovingReads == {<<0, NumBlocks>>, <<NumBlocks - 1, 0>>, <<NumBlocks, 0>>}

\* The reader that asks for the whole file.
WholeFile == {<<0, NumBlocks>>}

\* The tracker reports nobody as gone who runs; TLC has not the time for more.
Gone == \A n \in Node : peers[n] \cap up \subseteq peers'[n]

\* The state the tracker brings about when nobody leaves: all know each other.
MetInit ==
    /\ tab = [n \in Viewer |-> [b \in Block |-> "ABSENT"]]
    /\ age = [n \in Viewer |-> [b \in Block |-> 0]]
    /\ buf = [n \in Viewer |-> [b \in Block |-> Garbage]]
    /\ peers = [n \in Node |-> Node \ {n}]
    /\ areas = [n \in Node |-> [p \in Node |-> {}]]
    /\ need = [n \in Node |-> [p \in Node |-> {}]]
    /\ qage = [n \in Viewer |-> 0]
    /\ sage = [n \in Viewer |-> 0]
    /\ up = Node
    /\ net = {}

MetSpec == MetInit /\ [][Next /\ Gone]_vars

\* The viewer that joins.
new == CHOOSE n \in Viewer : \A k \in Viewer : n <= k

\* A viewer joins, whom every other viewer has left: it knows of them, and
\* that they had the whole file, and has yet to meet the source.
JoinInit ==
    /\ tab = [n \in Viewer |-> [b \in Block |-> "ABSENT"]]
    /\ age = [n \in Viewer |-> [b \in Block |-> 0]]
    /\ buf = [n \in Viewer |-> [b \in Block |-> Garbage]]
    /\ peers = [n \in Node |-> IF n = new THEN Viewer \ {new} ELSE Node \ {n}]
    /\ areas = [n \in Node |-> [p \in Node |->
                  IF n = new /\ p \in Viewer \ {new} THEN Block ELSE {}]]
    /\ need = [n \in Node |-> [p \in Node |-> {}]]
    /\ qage = [n \in Viewer |-> 0]
    /\ sage = [n \in Viewer |-> 0]
    /\ up = Source \cup {new}
    /\ net = {}

JoinSpec == JoinInit /\ [][Next /\ Gone]_vars

\* The smallest viewer has just joined; every other one has had the whole
\* file and is gone.  Either the viewer never met them; or it met them, was
\* told what they had and got all but the last block, and the tracker has not
\* noticed yet that they left.
GoneInit ==
    \E met \in {Viewer \ {new}, {}} :
        LET has == [n \in Viewer |->
                      IF n # new THEN Block
                      ELSE IF met # {} THEN Block \ {NumBlocks - 1} ELSE {}]
        IN  /\ tab = [n \in Viewer |-> [b \in Block |->
                        IF b \in has[n] THEN "ARRIVED" ELSE "ABSENT"]]
            /\ age = [n \in Viewer |-> [b \in Block |-> 0]]
            /\ buf = [n \in Viewer |-> [b \in Block |->
                        IF b \in has[n] THEN b ELSE Garbage]]
            /\ peers = [n \in Node |-> (met \cup Source \cup {new}) \ {n}]
            /\ areas = [n \in Node |-> [p \in Node |->
                          IF n = new /\ p \in met THEN Block ELSE {}]]
            /\ need = [n \in Node |-> [p \in Node |-> {}]]
            /\ qage = [n \in Viewer |-> 0]
            /\ sage = [n \in Viewer |-> 0]
            /\ up = Source \cup {new}
            /\ net = {}

\* Nor does it name anybody who has left: the queries to him, again and
\* again, would fill the few places that NetCap leaves.
Current == \A n \in Node : peers'[n] \ peers[n] \subseteq up

GoneSpec == GoneInit /\ [][Next /\ Gone /\ Current]_vars /\ Fairness(Source \cup {new})

=============================================================================
