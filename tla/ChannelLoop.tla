----------------------------- MODULE ChannelLoop ----------------------------
(***************************************************************************)
(* CChannelMgr::Loop over the channels one client downloads, and the two   *)
(* clocks it runs on.  QueryExistBlocks and UpdateTimeOutStatus keep the   *)
(* time of their last run in a static local variable: one variable for the *)
(* whole process, not one for each channel.  The channel that Loop visits  *)
(* first finds the interval elapsed and resets the clock for all others.   *)
(*                                                                         *)
(* Each channel has the source of its file as its only peer.  Loop holds   *)
(* the lock of the channel manager from the first channel to the last, so  *)
(* only the clock moves in between.                                        *)
(***************************************************************************)
EXTENDS P2PPacketMgr

CONSTANTS
    Channel,        \* the IDs OpenSource gave to the channels
    Closing,        \* the channels that the user may close
    QueryInterval,  \* P2P_QUERYBLOCK_INTERVAL, in ticks
    SweepInterval   \* the 1000 ms between two sweeps, in ticks

ASSUME LoopAssumption ==
    /\ Channel \subseteq Nat \ {0}
    /\ IsFiniteSet(Channel)
    /\ Channel # {}
    /\ Closing \subseteq Channel
    /\ QueryInterval \in Nat
    /\ SweepInterval \in Nat

Idle == 0   \* Loop is not running

VARIABLES
    open,   \* the channels in the map of the channel manager
    at,     \* the channel Loop comes to next, or Idle
    tab,    \* tab[c]: block table of channel c
    age,    \* age[c][b]: ticks since b was requested (0 unless REQUESTED)
    known,  \* the channels that know the areas of their source
    query,  \* the channels whose GETBLOCK_AREA is on its way or answered
    asked,  \* asked[c]: the blocks whose request is on its way or answered
    qage,   \* ticks since the static dwTime of QueryExistBlocks was set
    sage    \* ticks since the static dwTime of UpdateTimeOutStatus was set

vars == <<open, at, tab, age, known, query, asked, qage, sage>>

First(S) == IF S = {} THEN Idle ELSE CHOOSE c \in S : \A d \in S : c <= d

-----------------------------------------------------------------------------

\* The user opens all channels and asks each one for its whole file.
Init ==
    /\ open = Channel
    /\ at = Idle
    /\ tab = [c \in Channel |-> InsertShouldBlock([b \in Block |-> "ABSENT"], 0, NumBlocks)]
    /\ age = [c \in Channel |-> [b \in Block |-> 0]]
    /\ known = {}
    /\ query = {}
    /\ asked = [c \in Channel |-> {}]
    /\ qage = 0
    /\ sage = 0

\* The UDP thread has drained its socket and enters Loop.
EnterLoop ==
    /\ at = Idle
    /\ at' = First(open)
    /\ UNCHANGED <<open, tab, age, known, query, asked, qage, sage>>

\* CChannel::Loop of channel c.  SendHeartbeat and SendPeerNeedBlock touch
\* neither clock nor table.
Loop(c) ==
    /\ at = c
    /\ LET run == IF c \in known THEN GetShouldBlock(tab[c]) ELSE {}
           all == {b \in run : \A s \in run : b < s + RequestMax}
           made == UpdatePacketStatus(tab[c], all)
           asOf == [b \in Block |-> IF b \in all THEN 0 ELSE age[c][b]]
           swept == IF sage > SweepInterval THEN UpdateTimeOutStatus(made, asOf)
                                            ELSE made
       IN  /\ tab' = [tab EXCEPT ![c] = swept]
           /\ age' = [age EXCEPT ![c] =
                        [b \in Block |-> IF swept[b] = "REQUESTED" THEN asOf[b] ELSE 0]]
           /\ asked' = [asked EXCEPT ![c] = @ \cup all]
    /\ query' = IF qage > QueryInterval THEN query \cup {c} ELSE query
    /\ qage' = IF qage > QueryInterval THEN 0 ELSE qage
    /\ sage' = IF sage > SweepInterval THEN 0 ELSE sage
    /\ at' = First({d \in open : d > c})
    /\ UNCHANGED <<open, known>>

\* The source's reply to GETBLOCK_AREA arrives.
OnGetBlockAreaRet(c) ==
    /\ at = Idle
    /\ c \in open \cap query
    /\ known' = known \cup {c}
    /\ query' = query \ {c}
    /\ UNCHANGED <<open, at, tab, age, asked, qage, sage>>

\* The source's answer to a request for block b arrives.
OnGetSegmentRet(c, b) ==
    /\ at = Idle
    /\ c \in open /\ b \in asked[c]
    /\ tab' = IF PacketArrived(tab[c], b) THEN [tab EXCEPT ![c][b] = "ARRIVED"]
                                          ELSE tab
    /\ age' = IF PacketArrived(tab[c], b) THEN [age EXCEPT ![c][b] = 0] ELSE age
    /\ asked' = [asked EXCEPT ![c] = @ \ {b}]
    /\ UNCHANGED <<open, at, known, query, qage, sage>>

Lose ==
    /\ at = Idle
    /\ \E c \in Channel :
          \/ /\ c \in query
             /\ query' = query \ {c}
             /\ UNCHANGED asked
          \/ \E b \in asked[c] : /\ asked' = [asked EXCEPT ![c] = @ \ {b}]
                                 /\ UNCHANGED query
    /\ UNCHANGED <<open, at, tab, age, known, qage, sage>>

\* Mutant of CloseSource: the channel is removed without the manager's lock.
CloseSourceUnlocked(c) ==
    /\ c \in open \cap Closing
    /\ open' = open \ {c}
    /\ UNCHANGED <<at, tab, age, known, query, asked, qage, sage>>

\* CP2PNetwork::CloseSource waits for the lock Loop holds.
CloseSource(c) ==
    /\ at = Idle
    /\ c \in open \cap Closing
    /\ open' = open \ {c}
    /\ UNCHANGED <<at, tab, age, known, query, asked, qage, sage>>

\* Ages saturate, see P2PPacketMgr.
Older(a, limit) == IF a > limit THEN a ELSE a + 1

Tick ==
    /\ age' = [c \in Channel |-> [b \in Block |->
                 IF tab[c][b] = "REQUESTED" THEN Older(age[c][b], RequestTimeout)
                                            ELSE age[c][b]]]
    /\ qage' = Older(qage, QueryInterval)
    /\ sage' = Older(sage, SweepInterval)
    /\ UNCHANGED <<open, at, tab, known, query, asked>>

Next ==
    \/ EnterLoop
    \/ \E c \in Channel : Loop(c) \/ OnGetBlockAreaRet(c) \/ CloseSource(c)
    \/ \E c \in Channel, b \in Block : OnGetSegmentRet(c, b)
    \/ Lose
    \/ Tick

\* The UDP thread runs; again and again the clock moves between two passes of
\* Loop, and not only in the middle of one; and each source is reachable:
\* answers get through, and not always after the timeout.
Fairness ==
    /\ SF_vars(Tick /\ at = Idle)
    /\ SF_vars(EnterLoop)
    /\ \A c \in Channel :
        /\ WF_vars(Loop(c))
        /\ SF_vars(OnGetBlockAreaRet(c))
        /\ \A b \in Block : SF_vars(OnGetSegmentRet(c, b) /\ tab[c][b] = "REQUESTED")

Spec == Init /\ [][Next]_vars

FairSpec == Spec /\ Fairness

-----------------------------------------------------------------------------
(* Properties *)

\* Every variable has its type; Loop only visits channels that are open.
TypeOK ==
    /\ open \subseteq Channel
    /\ at \in open \cup {Idle}
    /\ tab \in [Channel -> [Block -> Status]]
    /\ age \in [Channel -> [Block -> Age]]
    /\ known \subseteq Channel
    /\ query \subseteq Channel
    /\ asked \in [Channel -> SUBSET Block]
    /\ qage \in 0 .. (QueryInterval + 1)
    /\ sage \in 0 .. (SweepInterval + 1)

Wants(c) == c \in open /\ \E b \in Block : tab[c][b] # "ARRIVED"

\* The channel Loop visits first gets its whole file (or is closed): its
\* queries are repeated and its lost requests are made again.
FirstChannelIsServed ==
    \A c \in Channel : <>[](c = First(open)) => <>~Wants(c)

\* Stated by the comment on UpdateTimeOutStatus (requests that timed out are
\* updated so that they can be made again): a request of any channel that is
\* not answered does not stay outstanding for ever.
TimedOutIsRetried ==
    \A c \in Channel : \A b \in Block :
        c \in open /\ tab[c][b] = "REQUESTED"
            ~> c \notin open \/ tab[c][b] # "REQUESTED"

\* A request is not made twice within its timeout, and what has arrived is
\* not requested again, whichever channel reset the clocks.
NoEarlyRetry ==
    [][\A c \in Channel : \A b \in Block :
          tab[c][b] # "NONE" /\ tab'[c][b] = "NONE" =>
              tab[c][b] = "REQUESTED" /\ age[c][b] > RequestTimeout]_vars

=============================================================================
