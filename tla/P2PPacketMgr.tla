---------------------------- MODULE P2PPacketMgr ----------------------------
(***************************************************************************)
(* The block table of a downloading channel: class CP2PPacketMgr of        *)
(* P2PNetwork.  A table is a pair of functions over the blocks of the      *)
(* file: its status (a block that has no entry in m_map is "ABSENT") and   *)
(* the age of its last request, in ticks, saturated just above the         *)
(* timeout.  Every operation of the class runs under its lock, and every   *)
(* caller holds the lock of the channel manager, so each is one operator.  *)
(***************************************************************************)
EXTENDS Integers, FiniteSets

CONSTANTS
    NumBlocks,      \* blocks of the file, ceil(size / UDP_PACKET_LENGTH)
    RequestMax,     \* P2P_TIMEREQUEST_MAX_NUM: most blocks in one request
    RequestTimeout, \* UDP_REQUEST_TIMEOUT, in ticks
    AreasMax        \* most areas that fit in one GETBLOCK_AREA_RET

ASSUME PacketAssumption ==
    /\ NumBlocks \in Nat \ {0}
    /\ RequestMax \in Nat \ {0}
    /\ RequestTimeout \in Nat
    /\ AreasMax \in Nat \ {0}

Block == 0 .. (NumBlocks - 1)

Status == {"ABSENT", "NONE", "REQUESTED", "ARRIVED"}

\* Ages saturate: a request older than the timeout is simply "old".
Age == 0 .. (RequestTimeout + 1)

BlocksIn(t, s) == {b \in Block : t[b] = s}

-----------------------------------------------------------------------------

\* Mutant of RemoveBlock: the interval half open, the last block dropped too.
RemoveOneMore(t, first, last) ==
    [b \in Block |-> IF b < first \/ b >= last THEN "ABSENT" ELSE t[b]]

\* Every block outside the closed interval loses its entry.
RemoveBlock(t, first, last) ==
    [b \in Block |-> IF b < first \/ b > last THEN "ABSENT" ELSE t[b]]

\* Mutants of InsertShouldBlock: a loop that runs once too often; one that
\* does not look whether the block has its entry already.
InsertOneMore(t, first, num) ==
    [b \in Block \cup {first + num} |->
        IF b \notin Block \/ (b \in first .. (first + num) /\ t[b] = "ABSENT")
        THEN "NONE" ELSE t[b]]
InsertAgain(t, first, num) ==
    [b \in Block |-> IF b \in first .. (first + num - 1) THEN "NONE" ELSE t[b]]

\* Blocks without an entry get one, with nothing requested yet.
InsertShouldBlock(t, first, num) ==
    [b \in Block |-> IF b \in first .. (first + num - 1) /\ t[b] = "ABSENT"
                     THEN "NONE" ELSE t[b]]

\* Only an answer somebody still waits for is stored: one that comes after
\* its timeout, or a second time, is dropped.
PacketArrived(t, b) == b \in Block /\ t[b] = "REQUESTED"

\* Mutants of UpdateTimeOutStatus: no look at the age; a sweep never done.
SweepAll(t, a) ==
    [b \in Block |-> IF t[b] = "REQUESTED" THEN "NONE" ELSE t[b]]
SweepNothing(t, a) == t

\* The sweep: requests older than the timeout may be made again.
UpdateTimeOutStatus(t, a) ==
    [b \in Block |-> IF t[b] = "REQUESTED" /\ a[b] > RequestTimeout
                     THEN "NONE" ELSE t[b]]

\* The first run of consecutive blocks with nothing requested, of at most
\* 8 * RequestMax blocks; empty when there is none.
GetShouldBlock(t) ==
    {b \in BlocksIn(t, "NONE") :
        \E s \in BlocksIn(t, "NONE") :
            /\ \A x \in BlocksIn(t, "NONE") : s <= x
            /\ b < s + RequestMax * 8
            /\ \A x \in s .. b : t[x] = "NONE"}

\* UpdatePacketStatus(mapRequests, PACKET_STATUS_REQUESTED): unconditional.
UpdatePacketStatus(t, requested) ==
    [b \in Block |-> IF b \in requested /\ t[b] # "ABSENT"
                     THEN "REQUESTED" ELSE t[b]]

\* Mutant of GetExistBlockAreas: the end of an area is the block behind it.
AreasOneMore(t) ==
    LET have == BlocksIn(t, "ARRIVED")
    IN  {r \in have \X (1 .. NumBlocks) :
            /\ r[1] .. (r[2] - 1) \subseteq have
            /\ r[1] - 1 \notin have
            /\ r[2] \notin have /\ r[1] < r[2]}

\* Another: an area that reaches the end of the file is never closed.
AreasNotLast(t) ==
    LET have == BlocksIn(t, "ARRIVED")
    IN  {r \in have \X have :
            /\ r[1] <= r[2]
            /\ r[1] .. r[2] \subseteq have
            /\ r[1] - 1 \notin have
            /\ r[2] + 1 \in Block \ have}

\* Maximal runs of arrived blocks, as closed intervals <<first, last>>.
GetExistBlockAreas(t) ==
    LET have == BlocksIn(t, "ARRIVED")
    IN  {r \in have \X have :
            /\ r[1] <= r[2]
            /\ r[1] .. r[2] \subseteq have
            /\ r[1] - 1 \notin have
            /\ r[2] + 1 \notin have}

\* The areas that one reply carries: the highest ones are cut off.
FitInReply(areas) ==
    {r \in areas : Cardinality({q \in areas : q[1] < r[1]}) < AreasMax}

Covered(areas) == UNION {r[1] .. r[2] : r \in areas}

\* The list starts at the entry of the first block of the range: without
\* that entry it is empty, whatever else of the range has arrived.
GetExistBlockList(t, range) ==
    {b \in range : /\ t[b] = "ARRIVED"
                   /\ \E s \in range : t[s] # "ABSENT" /\ \A x \in range : s <= x}

=============================================================================
