------------------------------ MODULE BlockStore ----------------------------
(***************************************************************************)
(* What the transfer of a file promises to the readers, with no peers, no  *)
(* datagrams and no clock: each reader has a store of the blocks of the    *)
(* file; asking for blocks makes them wanted, a wanted block arrives once, *)
(* with the contents it has in the file, and stays until the reader moves  *)
(* away from it.                                                           *)
(***************************************************************************)
EXTENDS Integers

CONSTANTS Reader, NumBlocks, Window, Reads, Missing, Wanted

VARIABLE store  \* store[n][b]: Missing, Wanted, or the contents of block b

Block == 0 .. (NumBlocks - 1)

\* The blocks that survive a reader's move to block first: all, near the
\* start of the file; else Window blocks behind it and those it asks for.
Kept(first, num) ==
    IF first > Window THEN {b \in Block : first - Window <= b /\ b <= first + num}
                      ELSE Block

Read(n, first, num) ==
    store' = [store EXCEPT ![n] =
        [b \in Block |->
            LET old == IF b \in Kept(first, num) THEN store[n][b] ELSE Missing
            IN  IF b \in first .. (first + num - 1) /\ old = Missing
                THEN Wanted ELSE old]]

Arrive(n, b) ==
    /\ store[n][b] = Wanted
    /\ store' = [store EXCEPT ![n][b] = b]

Init == store = [n \in Reader |-> [b \in Block |-> Missing]]

Next == \E n \in Reader :
            \/ \E r \in Reads : Read(n, r[1], r[2])
            \/ \E b \in Block : Arrive(n, b)

SafeSpec == Init /\ [][Next]_store

\* The promise of progress: what stays wanted arrives.
Spec == SafeSpec /\ \A n \in Reader, b \in Block : WF_store(Arrive(n, b))

=============================================================================
