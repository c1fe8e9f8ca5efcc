-------------------------- MODULE ChannelLoop_proofs ------------------------
(***************************************************************************)
(* Theorems about ChannelLoop, for any number of channels, any file and    *)
(* any timeouts.                                                           *)
(***************************************************************************)
EXTENDS ChannelLoop, WellFoundedInduction, TLAPS

\* Loop goes on with an open channel, or with none.
LEMMA FirstIsOpen ==
    ASSUME NEW S \in SUBSET Channel
    PROVE  First(S) \in S \cup {Idle}
  <1>1. ASSUME S # {}
        PROVE  \E c \in S : \A d \in S : c <= d
    <2>1. S \subseteq Nat
      BY LoopAssumption
    <2>2. PICK c \in S : \A d \in S : ~ (<<d, c>> \in OpToRel(<, Nat))
      BY <1>1, <2>1, WFMin, NatLessThanWellFounded
    <2>3. \A d \in S : ~ (d < c)
      BY <2>1, <2>2 DEF OpToRel
    <2> QED
      BY <2>1, <2>3
  <1> QED
    BY <1>1 DEF First

\* The table and the ages of a channel after one pass of Loop.
Pass(c) ==
    \E all \in SUBSET Block :
        LET made == UpdatePacketStatus(tab[c], all)
            asOf == [b \in Block |-> IF b \in all THEN 0 ELSE age[c][b]]
        IN  \E swept \in {made, UpdateTimeOutStatus(made, asOf)} :
              /\ tab' = [tab EXCEPT ![c] = swept]
              /\ age' = [age EXCEPT ![c] =
                           [b \in Block |-> IF swept[b] = "REQUESTED"
                                            THEN asOf[b] ELSE 0]]
              /\ asked' = [asked EXCEPT ![c] = @ \cup all]

LEMMA LoopIsPass ==
    ASSUME NEW c \in Channel, Loop(c)
    PROVE  Pass(c)
  <1> DEFINE run == IF c \in known THEN GetShouldBlock(tab[c]) ELSE {}
             all == {b \in run : \A s \in run : b < s + RequestMax}
  <1>1. all \in SUBSET Block
    BY DEF GetShouldBlock, BlocksIn
  <1> QED
    BY <1>1 DEF Loop, Pass

-----------------------------------------------------------------------------
(* Type correctness *)

\* A pass keeps the types of what it changes.
LEMMA PassType ==
    ASSUME TypeOK, NEW c \in Channel, Pass(c)
    PROVE  /\ tab' \in [Channel -> [Block -> Status]]
           /\ age' \in [Channel -> [Block -> Age]]
           /\ asked' \in [Channel -> SUBSET Block]
  <1>1. PICK all \in SUBSET Block :
           LET made == UpdatePacketStatus(tab[c], all)
               asOf == [b \in Block |-> IF b \in all THEN 0 ELSE age[c][b]]
           IN  \E swept \in {made, UpdateTimeOutStatus(made, asOf)} :
              /\ tab' = [tab EXCEPT ![c] = swept]
              /\ age' = [age EXCEPT ![c] =
                           [b \in Block |-> IF swept[b] = "REQUESTED"
                                            THEN asOf[b] ELSE 0]]
              /\ asked' = [asked EXCEPT ![c] = @ \cup all]
    BY DEF Pass
  <1> DEFINE made == UpdatePacketStatus(tab[c], all)
             asOf == [b \in Block |-> IF b \in all THEN 0 ELSE age[c][b]]
  <1>2. PICK swept \in {made, UpdateTimeOutStatus(made, asOf)} :
              /\ tab' = [tab EXCEPT ![c] = swept]
              /\ age' = [age EXCEPT ![c] =
                           [b \in Block |-> IF swept[b] = "REQUESTED"
                                            THEN asOf[b] ELSE 0]]
              /\ asked' = [asked EXCEPT ![c] = @ \cup all]
    BY <1>1
  <1>3. tab[c] \in [Block -> Status] /\ age[c] \in [Block -> Age]
    BY DEF TypeOK
  <1>4. made \in [Block -> Status]
    BY <1>3 DEF UpdatePacketStatus, Status
  <1>5. UpdateTimeOutStatus(made, asOf) \in [Block -> Status]
    BY <1>4 DEF UpdateTimeOutStatus, Status
  <1>6. asOf \in [Block -> Age]
    BY <1>3, PacketAssumption DEF Age
  <1>7. [b \in Block |-> IF swept[b] = "REQUESTED" THEN asOf[b] ELSE 0]
           \in [Block -> Age]
    BY <1>6, PacketAssumption DEF Age
  <1> HIDE DEF made, asOf
  <1> QED
    BY <1>2, <1>4, <1>5, <1>7 DEF TypeOK

\* Every variable keeps its type, and Loop is only ever at an open channel:
\* nobody closes a channel under it, as CloseSource needs the lock Loop holds.
THEOREM TypeCorrect == Spec => []TypeOK
  <1>1. Init => TypeOK
    BY PacketAssumption, LoopAssumption
    DEF Init, TypeOK, InsertShouldBlock, Status, Age, Idle
  <1>2. TypeOK /\ [Next]_vars => TypeOK'
    <2> SUFFICES ASSUME TypeOK, [Next]_vars PROVE TypeOK'
      OBVIOUS
    <2>1. CASE EnterLoop
      BY <2>1, FirstIsOpen DEF EnterLoop, TypeOK
    <2>2. ASSUME NEW c \in Channel, Loop(c) PROVE TypeOK'
      <3>1. /\ tab' \in [Channel -> [Block -> Status]]
            /\ age' \in [Channel -> [Block -> Age]]
            /\ asked' \in [Channel -> SUBSET Block]
        BY <2>2, LoopIsPass, PassType
      <3>2. at' \in open' \cup {Idle}
        <4>1. {d \in open : d > c} \in SUBSET Channel
          BY DEF TypeOK
        <4> QED
          BY <2>2, <4>1, FirstIsOpen DEF Loop
      <3>3. /\ open' = open /\ known' = known
            /\ query' = IF qage > QueryInterval THEN query \cup {c} ELSE query
            /\ qage' = IF qage > QueryInterval THEN 0 ELSE qage
            /\ sage' = IF sage > SweepInterval THEN 0 ELSE sage
        BY <2>2 DEF Loop
      <3> QED
        BY <3>1, <3>2, <3>3, LoopAssumption DEF TypeOK
    <2>3. ASSUME NEW c \in Channel, OnGetBlockAreaRet(c) PROVE TypeOK'
      BY <2>3 DEF OnGetBlockAreaRet, TypeOK
    <2>4. ASSUME NEW c \in Channel, CloseSource(c) PROVE TypeOK'
      BY <2>4 DEF CloseSource, TypeOK
    <2>5. ASSUME NEW c \in Channel, NEW b \in Block, OnGetSegmentRet(c, b)
          PROVE  TypeOK'
      <3>1. \A S, v : \A f \in [Channel -> [Block -> S]] :
               v \in S => [f EXCEPT ![c][b] = v] \in [Channel -> [Block -> S]]
        OBVIOUS
      <3>2. tab' \in [Channel -> [Block -> Status]]
        BY <2>5, <3>1 DEF OnGetSegmentRet, TypeOK, Status
      <3>3. age' \in [Channel -> [Block -> Age]]
        <4>1. 0 \in Age
          BY PacketAssumption DEF Age
        <4> QED
          BY <2>5, <3>1, <4>1 DEF OnGetSegmentRet, TypeOK
      <3> QED
        BY <2>5, <3>2, <3>3 DEF OnGetSegmentRet, TypeOK
    <2>6. CASE Lose
      BY <2>6 DEF Lose, TypeOK
    <2>7. CASE Tick
      <3>1. \A a \in Age : Older(a, RequestTimeout) \in Age
        BY PacketAssumption DEF Older, Age
      <3>2. age' \in [Channel -> [Block -> Age]]
        BY <2>7, <3>1 DEF Tick, TypeOK
      <3>3. /\ qage' \in 0 .. (QueryInterval + 1)
            /\ sage' \in 0 .. (SweepInterval + 1)
        BY <2>7, LoopAssumption DEF Tick, TypeOK, Older
      <3> QED
        BY <2>7, <3>2, <3>3 DEF Tick, TypeOK
    <2>8. CASE UNCHANGED vars
      BY <2>8 DEF vars, TypeOK
    <2> QED
      BY <2>1, <2>2, <2>3, <2>4, <2>5, <2>6, <2>7, <2>8 DEF Next
  <1> QED
    BY <1>1, <1>2, PTL DEF Spec

-----------------------------------------------------------------------------
(* No request before its time *)

\* What a pass sets back to NONE was outstanding for longer than the timeout:
\* the block a pass has just asked for is too young for the sweep after it.
LEMMA PassRetries ==
    ASSUME TypeOK, NEW c \in Channel, Pass(c), NEW d \in Channel, NEW b \in Block,
           tab[d][b] # "NONE", tab'[d][b] = "NONE"
    PROVE  tab[d][b] = "REQUESTED" /\ age[d][b] > RequestTimeout
  <1>1. PICK all \in SUBSET Block :
           LET made == UpdatePacketStatus(tab[c], all)
               asOf == [x \in Block |-> IF x \in all THEN 0 ELSE age[c][x]]
           IN  \E swept \in {made, UpdateTimeOutStatus(made, asOf)} :
                 tab' = [tab EXCEPT ![c] = swept]
    BY DEF Pass
  <1> DEFINE made == UpdatePacketStatus(tab[c], all)
             asOf == [x \in Block |-> IF x \in all THEN 0 ELSE age[c][x]]
  <1>2. PICK swept \in {made, UpdateTimeOutStatus(made, asOf)} :
              tab' = [tab EXCEPT ![c] = swept]
    BY <1>1
  <1>3. d = c /\ swept[b] = "NONE"
    BY <1>2 DEF TypeOK
  <1>4. made[b] # "NONE"
    BY <1>3 DEF UpdatePacketStatus
  <1>5. made[b] = "REQUESTED" /\ asOf[b] > RequestTimeout
    BY <1>2, <1>3, <1>4 DEF UpdateTimeOutStatus
  <1>6. b \notin all
    BY <1>5, PacketAssumption
  <1> QED
    BY <1>3, <1>5, <1>6 DEF UpdatePacketStatus

\* No request of any channel is made again before it has timed out, though
\* all channels share the clock of the sweep: NoEarlyRetry, for any number of
\* channels.
THEOREM NoEarlyRetryHolds == Spec => NoEarlyRetry
  <1> DEFINE Retry(c, b) == tab[c][b] # "NONE" /\ tab'[c][b] = "NONE" =>
                              tab[c][b] = "REQUESTED" /\ age[c][b] > RequestTimeout
  <1>1. TypeOK /\ [Next]_vars => [\A c \in Channel : \A b \in Block : Retry(c, b)]_vars
    <2> SUFFICES ASSUME TypeOK, Next, NEW c \in Channel, NEW b \in Block,
                        tab[c][b] # "NONE", tab'[c][b] = "NONE"
                 PROVE  tab[c][b] = "REQUESTED" /\ age[c][b] > RequestTimeout
      OBVIOUS
    <2>1. ASSUME NEW d \in Channel, Loop(d)
          PROVE  tab[c][b] = "REQUESTED" /\ age[c][b] > RequestTimeout
      BY <2>1, LoopIsPass, PassRetries
    <2>2. ASSUME NEW d \in Channel, NEW x \in Block, OnGetSegmentRet(d, x)
          PROVE  FALSE
      <3>1. tab' = tab \/ tab' = [tab EXCEPT ![d][x] = "ARRIVED"]
        BY <2>2 DEF OnGetSegmentRet
      <3> QED
        BY <3>1 DEF TypeOK
    <2>3. ASSUME tab' = tab PROVE FALSE
      BY <2>3
    <2> QED
      BY <2>1, <2>2, <2>3
      DEF Next, EnterLoop, OnGetBlockAreaRet, CloseSource, Lose, Tick
  <1> QED
    BY <1>1, TypeCorrect, PTL DEF Spec, NoEarlyRetry

=============================================================================
