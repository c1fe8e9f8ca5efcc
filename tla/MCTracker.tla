----------------------------- MODULE MCTracker -----------------------------
(***************************************************************************)
(* Instances of Tracker for TLC: one source and two readers.               *)
(***************************************************************************)
EXTENDS Tracker, TLC

Environment(workers, late, bound) ==
    [workers |-> workers, slowOpen |-> FALSE, lateUdp |-> late, opens |-> bound]

Once == [c \in Clients |-> 1]

\* The source and one of the readers open the file up to twice.
Twice == {[c \in Clients |-> IF c \in Sources \cup {r} THEN 2 ELSE 0] :
             r \in Clients \ Sources}

\* All three once, or two of them twice; heartbeats late or in
\* time, notices that overtake OpenSource or not.
Several == {Environment(w, FALSE, Once) : w \in {1, 2}}
             \cup {Environment(2, TRUE, f) : f \in Twice}
             \cup {[Environment(1, TRUE, f) EXCEPT !.slowOpen = TRUE] :
                      f \in Twice}

TwoWorkers == {Environment(2, FALSE, Once)}

\* Who does not open the file in this run has been there before.
MCInit == /\ Init
          /\ \A c \in Clients : link[c] = "lost" <=> env.opens[c] = 0

MCSpec == MCInit /\ [][Next]_vars

\* Readers are interchangeable.
ReaderSymmetry == Permutations(Clients \ Sources)
=============================================================================
