------------------------------ MODULE HttpStream ------------------------------
(***************************************************************************)
(* The local HTTP service: a player asks P2PService over HTTP for a file,  *)
(* from some position on, and gets it out of a channel of P2PNetwork as    *)
(* its blocks arrive.  Each connection has a thread and a handler          *)
(* (HttpSocketHandler); the handlers share the channels, the counter their *)
(* ids come from and the counter of sends, both static.                    *)
(*                                                                         *)
(* A unit of data is a block.  What arrives in a channel is the promise of *)
(* BlockStore: a wanted block, with the contents it has in the file.       *)
(* A connection carries one request, as the answer says (Connection:       *)
(* close), and the request names the size of its file, as players' pages   *)
(* do; it may lack the hash or the node name.  GET /monitor.js is left out.*)
(***************************************************************************)
EXTENDS Integers, Sequences, FiniteSets

CONSTANTS Conn,          \* connections
          File,          \* files a player may ask for (filehash)
          NumBlocks,     \* blocks of each file
          SendMax,       \* most blocks in one send (1440 bytes)
          Ahead,         \* REQUEST_MAX_SIZE, in blocks
          Start,         \* positions a player may ask from
          Window,        \* 10000: blocks kept behind the reader
          Environments,  \* [race : may OpenSource run on two threads at a
                         \*  time, files : the files asked for]
          None

ASSUME StreamAssumption ==
    /\ NumBlocks \in Nat \ {0} /\ SendMax \in Nat \ {0}
    /\ Ahead \in Nat /\ Ahead >= 3 * SendMax /\ Window \in Nat
    /\ Start \subseteq Nat /\ IsFiniteSet(Conn)
    /\ Environments \subseteq [race : BOOLEAN, files : SUBSET File]

Blocks == INSTANCE P2PPacketMgr
              WITH RequestMax <- 1, RequestTimeout <- 0, AreasMax <- 1

VARIABLES env,     \* the environment, one of Environments
          chans,   \* m_channelMgr: per id None or [file, tab]
          dwCount, \* of OpenSource: the last id
          nCount,  \* of onSend: sends since the last request
          sock,    \* per connection: "new", "open", "closed" or "gone"
          pc,      \* where its handler is: "ready" and, without a channel,
                   \* "bare" being _cansend
          ask,     \* what its player has asked for: [file, start] or None;
                   \* the file is None where the node name is missing
          key,     \* the id it is about to insert a channel under
          id,      \* _channelId
          noSent, noToSend,  \* _status
          got      \* what the player has got: <<file, block>> pairs

opening == <<chans, dwCount, pc, key, id>>
sending == <<nCount, noSent, noToSend, got>>
vars == <<env, chans, dwCount, nCount, sock, pc, ask, key, id,
          noSent, noToSend, got>>

Id == 1 .. Cardinality(Conn)
Channel == [file : File, tab : [Blocks!Block -> Blocks!Status]]
ASSUME NoneAssumption == None \notin Channel

ChannelsOf(f) == {i \in Id : chans[i] # None /\ chans[i].file = f}

Init == /\ env \in Environments
        /\ chans = [i \in Id |-> None]
        /\ dwCount = 0 /\ nCount = 0
        /\ sock = [c \in Conn |-> "new"]
        /\ pc = [c \in Conn |-> "fresh"]
        /\ ask = [c \in Conn |-> None]
        /\ key = [c \in Conn |-> 0]
        /\ id = [c \in Conn |-> 0]
        /\ noSent = [c \in Conn |-> 0]
        /\ noToSend = [c \in Conn |-> 0]
        /\ got = [c \in Conn |-> <<>>]

-----------------------------------------------------------------------------
(* Mutant of Requested: what is behind the reader is not kept.             *)
RequestedOnly(tab, first) ==
    IF first > NumBlocks THEN tab
    ELSE LET num == IF first + Ahead > NumBlocks THEN NumBlocks - first ELSE Ahead
         IN  Blocks!InsertShouldBlock(
                IF first > Window THEN Blocks!RemoveBlock(tab, first, first + num)
                                  ELSE tab, first, num)

(* RequestSegment of the channel with id i, if it is still there: blocks   *)
(* first .. first + Ahead - 1 within the file.                             *)
Requested(tab, first) ==
    IF first > NumBlocks THEN tab
    ELSE LET num == IF first + Ahead > NumBlocks THEN NumBlocks - first ELSE Ahead
             kept == IF first > Window
                     THEN Blocks!RemoveBlock(tab, first - Window, first + num)
                     ELSE tab
         IN  Blocks!InsertShouldBlock(kept, first, num)
RequestSegment(cs, i, first) ==
    [j \in Id |-> IF j = i /\ cs[j] # None
                  THEN [cs[j] EXCEPT !.tab = Requested(@, first)] ELSE cs[j]]

(* ReadSegment: the arrived blocks from first on, at most num of them.     *)
ReadSegment(i, first, num) ==
    {b \in first .. (first + num - 1) :
        /\ i \in Id /\ chans[i] # None
        /\ first .. b \subseteq Blocks!BlocksIn(chans[i].tab, "ARRIVED")}

-----------------------------------------------------------------------------
(* Mutant of RangeStart: the start of the range as it comes.               *)
RangeAsAsked(s) == s

(* The start of a range, not behind the end of the file (setRangeStart).   *)
RangeStart(s) == IF s < NumBlocks THEN s ELSE NumBlocks

(* A player connects and sends its request: ServerSocketHandler::onConnect *)
(* and onReceive up to OpenSource.                                         *)
onReceive(c) ==
    /\ sock[c] = "new"
    /\ sock' = [sock EXCEPT ![c] = "open"]
    /\ \E f \in env.files \cup {None}, s \in Start :
          /\ ask' = [ask EXCEPT ![c] = [file |-> f, start |-> RangeStart(s)]]
          /\ noToSend' = [noToSend EXCEPT ![c] = NumBlocks - RangeStart(s)]
    /\ pc' = [pc EXCEPT ![c] = "remove"]
    /\ UNCHANGED <<env, chans, dwCount, nCount, key, id, noSent, got>>

(* A request without a file hash (process_recv), or only a part of one: as *)
(* nothing is to be sent, onSend closes the socket.                        *)
Refuse(c) == /\ sock[c] = "new"
             /\ sock' = [sock EXCEPT ![c] = "closed"]
             /\ UNCHANGED <<env, opening, ask, sending>>

(* OpenSource, step by step: it takes a channel of the same file away (its *)
(* destructor closes it), counts, enters the new one, and returns what the *)
(* counter is then.                                                        *)
OpenRemove(c) ==
    /\ pc[c] = "remove" /\ ask[c].file # None
    /\ ~env.race => \A d \in Conn : pc[d] \in {"fresh", "remove", "ready", "bare"}
    /\ chans' = [i \in Id |-> IF /\ i \in ChannelsOf(ask[c].file)
                                 /\ \A j \in ChannelsOf(ask[c].file) : i <= j
                              THEN None ELSE chans[i]]
    /\ pc' = [pc EXCEPT ![c] = "count"]
    /\ UNCHANGED <<env, dwCount, nCount, sock, ask, key, id,
                   noSent, noToSend, got>>

(* Without a node name it opens nothing: process_media has no channel to   *)
(* ask, and onSend none to read from.                                      *)
OpenFails(c) == /\ pc[c] = "remove" /\ ask[c].file = None
                /\ pc' = [pc EXCEPT ![c] = "bare"]
                /\ UNCHANGED <<env, chans, dwCount, nCount, sock, ask, key, id,
                               sending>>

(* ++dwCount without a lock: it reads here and writes in OpenInsert.       *)
OpenCount(c) == /\ pc[c] = "count"
                /\ key' = [key EXCEPT ![c] = dwCount + 1]
                /\ pc' = [pc EXCEPT ![c] = "insert"]
                /\ UNCHANGED <<env, chans, dwCount, nCount, sock, ask, id, sending>>

(* CKPtrMap::Insert leaves an entry with the same key alone.               *)
OpenInsert(c) ==
    /\ pc[c] = "insert"
    /\ dwCount' = key[c]
    /\ chans' = [chans EXCEPT ![key[c]] =
                    IF @ # None THEN @
                    ELSE [file |-> ask[c].file,
                          tab |-> [b \in Blocks!Block |-> "ABSENT"]]]
    /\ pc' = [pc EXCEPT ![c] = "return"]
    /\ UNCHANGED <<env, nCount, sock, ask, key, id, sending>>

(* Back in process_media: the first request, the header, _cansend.         *)
OpenReturn(c) ==
    /\ pc[c] = "return"
    /\ id' = [id EXCEPT ![c] = dwCount]
    /\ chans' = RequestSegment(chans, dwCount, ask[c].start)
    /\ pc' = [pc EXCEPT ![c] = "ready"]
    /\ UNCHANGED <<env, dwCount, nCount, sock, ask, key, sending>>

(* onSend, with the socket taking k of the blocks that were read.  Every   *)
(* second send of any connection asks for the data ahead.                  *)
Position(c) == ask[c].start + noSent[c]
Wish(c) == IF noToSend[c] > SendMax THEN SendMax ELSE noToSend[c]
HasRead(c) == ReadSegment(id[c], Position(c), Wish(c))

AskAhead(c) == IF nCount = 1 THEN RequestSegment(chans, id[c], Position(c)) ELSE chans

Send(c, k, counted, after) ==
    /\ sock[c] = "open" /\ pc[c] = "ready" /\ noToSend[c] # 0
    /\ HasRead(c) # {} /\ k <= Cardinality(HasRead(c))
    /\ noSent' = [noSent EXCEPT ![c] = @ + counted]
    /\ noToSend' = [noToSend EXCEPT ![c] = @ - counted]
    /\ got' = [got EXCEPT ![c] = @ \o
                  [i \in 1 .. k |-> <<chans[id[c]].file, Position(c) + i - 1>>]]
    /\ nCount' = (nCount + 1) % 2
    /\ chans' = after
    /\ UNCHANGED <<env, dwCount, sock, pc, ask, key, id>>

(* Mutants of onSend: what the socket did not take is lost; nothing is     *)
(* ever asked for again.                                                   *)
onSendAll(c, k) == Send(c, k, Cardinality(HasRead(c)), AskAhead(c))
onSendOnly(c, k) == Send(c, k, k, chans)

onSend(c, k) == Send(c, k, k, AskAhead(c))

(* Everything is sent, or nothing was to be: onSend closes the socket.     *)
Finish(c) == /\ sock[c] = "open" /\ pc[c] \in {"ready", "bare"} /\ noToSend[c] = 0
             /\ sock' = [sock EXCEPT ![c] = "closed"]
             /\ UNCHANGED <<env, opening, ask, sending>>

(* The player goes: HttpSocketHandler::onConnect, readable without data,   *)
(* or a send that fails.                                                   *)
onConnect(c) == /\ sock[c] = "open" /\ pc[c] \in {"ready", "bare"}
                /\ sock' = [sock EXCEPT ![c] = "closed"]
                /\ UNCHANGED <<env, opening, ask, sending>>

(* Mutants of cleanup: all channels of the file are closed; none is.       *)
cleanupFile(c) == /\ sock[c] = "closed"
                  /\ sock' = [sock EXCEPT ![c] = "gone"]
                  /\ chans' = [i \in Id |->
                        IF ask[c] # None /\ i \in ChannelsOf(ask[c].file)
                        THEN None ELSE chans[i]]
                  /\ UNCHANGED <<env, dwCount, pc, ask, key, id, sending>>
cleanupOnly(c) == /\ sock[c] = "closed"
                  /\ sock' = [sock EXCEPT ![c] = "gone"]
                  /\ UNCHANGED <<env, opening, ask, sending>>

(* The server thread deletes the handler of a closed socket, which closes  *)
(* its channel (~HttpSocketHandler, CloseSource).                          *)
cleanup(c) == /\ sock[c] = "closed"
              /\ sock' = [sock EXCEPT ![c] = "gone"]
              /\ chans' = [i \in Id |-> IF i = id[c] THEN None ELSE chans[i]]
              /\ UNCHANGED <<env, dwCount, pc, ask, key, id, sending>>

(* A wanted block arrives (BlockStore!Arrive).                             *)
Arrive(i, b) ==
    /\ chans[i] # None
    /\ chans[i].tab[b] = "NONE"
    /\ chans' = [chans EXCEPT ![i].tab[b] = "ARRIVED"]
    /\ UNCHANGED <<env, dwCount, nCount, sock, pc, ask, key, id,
                   noSent, noToSend, got>>

Next == \/ \E c \in Conn :
              \/ onReceive(c) \/ Refuse(c)
              \/ OpenRemove(c) \/ OpenFails(c) \/ OpenCount(c) \/ OpenInsert(c)
              \/ OpenReturn(c) \/ Finish(c) \/ onConnect(c) \/ cleanup(c)
              \/ \E k \in 0 .. SendMax : onSend(c, k)
        \/ \E i \in Id, b \in Blocks!Block : Arrive(i, b)

SafeSpec == Init /\ [][Next]_vars

(* Threads run, a player that stays takes data, wanted blocks arrive.      *)
Fairness ==
    /\ \A c \in Conn :
          /\ WF_vars(OpenRemove(c)) /\ WF_vars(OpenFails(c)) /\ WF_vars(OpenCount(c))
          /\ WF_vars(OpenInsert(c)) /\ WF_vars(OpenReturn(c))
          /\ WF_vars(Finish(c)) /\ WF_vars(cleanup(c))
          /\ WF_vars(\E k \in 1 .. SendMax : onSend(c, k))
    /\ \A i \in Id, b \in Blocks!Block : WF_vars(Arrive(i, b))

Spec == SafeSpec /\ Fairness

-----------------------------------------------------------------------------
(* The type invariant: only a ready handler has an id, one that opens has  *)
(* a request for a file, and what is sent and what is left to send, which  *)
(* is never negative, add up to the range (TransferStatus).                *)
TypeOK ==
    /\ env \in Environments
    /\ chans \in [Id -> Channel \cup {None}]
    /\ dwCount \in {0} \cup Id /\ nCount \in {0, 1}
    /\ sock \in [Conn -> {"new", "open", "closed", "gone"}]
    /\ pc \in [Conn -> {"fresh", "remove", "count", "insert", "return",
                        "ready", "bare"}]
    /\ key \in [Conn -> {0} \cup Id] /\ id \in [Conn -> {0} \cup Id]
    /\ noSent \in [Conn -> 0 .. NumBlocks] /\ noToSend \in [Conn -> 0 .. NumBlocks]
    /\ ask \in [Conn -> [file : File \cup {None}, start : 0 .. NumBlocks] \cup {None}]
    /\ got \in [Conn -> Seq(File \X Nat)]
    /\ \A c \in Conn :
          /\ sock[c] = "new" => pc[c] = "fresh"
          /\ pc[c] = "fresh" => sock[c] # "open"
          /\ pc[c] \notin {"fresh", "ready", "bare"} => sock[c] = "open"
          /\ pc[c] # "ready" => id[c] = 0
          /\ pc[c] # "fresh" =>
                /\ ask[c] \in [file : env.files \cup {None}, start : 0 .. NumBlocks]
                /\ noToSend[c] = NumBlocks - ask[c].start - noSent[c]
          /\ pc[c] \in {"count", "insert", "return", "ready"} =>
                ask[c].file \in env.files

(* A player gets blocks from where it has asked, in order and without a    *)
(* gap, whatever the socket takes at a time and whichever other players    *)
(* open, close and send; and as long as openings do not overlap they are   *)
(* blocks of the file it has asked for (HttpSocketHandler::onSend).        *)
InOrder ==
    \A c \in Conn : \A i \in DOMAIN got[c] :
        /\ got[c][i][2] = ask[c].start + i - 1
        /\ ~env.race => got[c][i][1] = ask[c].file

(* The connection that has opened its file last: the others of this file   *)
(* have older channels or none yet.                                        *)
Latest(c) == /\ pc[c] = "ready"
             /\ \A d \in Conn \ {c} :
                   pc[d] \notin {"fresh", "remove"} /\ ask[d].file = ask[c].file
                       => pc[d] = "ready" /\ id[d] < id[c]

(* A player that seeks opens its file again before the old connection is   *)
(* cleaned up: neither this nor what other players do takes the channel of *)
(* the connection that opened last (CloseSource by id).                    *)
LatestHasChannel ==
    ~env.race => \A c \in Conn :
        Latest(c) /\ sock[c] \in {"open", "closed"} =>
            id[c] \in ChannelsOf(ask[c].file)

(* And no channel is left behind: each belongs to a handler that will      *)
(* close it, and no file has two.                                          *)
NoChannelLeftBehind ==
    ~env.race => \A i \in Id : chans[i] # None =>
        /\ \A j \in ChannelsOf(chans[i].file) : j = i
        /\ \E c \in Conn : /\ sock[c] \in {"open", "closed"}
                           /\ \/ pc[c] = "ready" /\ id[c] = i
                              \/ pc[c] = "return" /\ key[c] = i

(* To the players the channels are readers of BlockStore, in which missing *)
(* blocks are -1 and wanted ones -2: a step that changes a channel, but    *)
(* does not close it, is the arrival of a wanted block, which is all that  *)
(* P2PTransfer promises its readers, or a read within the file, which is   *)
(* all that it takes them to do (TransferAssumption; RequestSegment).      *)
Shown(tab, b) == CASE tab[b] = "ABSENT" -> -1 [] tab[b] = "ARRIVED" -> b
                   [] OTHER -> -2
Seen == [i \in Id |-> [b \in Blocks!Block |->
           IF chans[i] = None THEN -1 ELSE Shown(chans[i].tab, b)]]
InFile == {r \in (0 .. NumBlocks) \X (0 .. NumBlocks) : r[1] + r[2] <= NumBlocks}

Store == INSTANCE BlockStore
            WITH Reader <- Id, Reads <- InFile, Missing <- -1, Wanted <- -2,
                 store <- Seen

KeepsToStore ==
    [][\A i \in Id : chans[i] # None /\ chans'[i] \notin {None, chans[i]} =>
          \/ \E b \in Store!Block : Store!Arrive(i, b)
          \/ \E r \in InFile : Store!Read(i, r[1], r[2])]_chans

(* A player that stays with the latest connection to its file gets all of  *)
(* it, and one that has asked for a range at or behind the end of the file *)
(* is not kept waiting for data (HttpSocketHandler::onSend).  This takes   *)
(* that only one file is being played, as the sends of two players share   *)
(* one counter, and a request that opens a channel.                        *)
Waits(c) == /\ ~env.race /\ Cardinality(env.files) = 1
            /\ sock[c] = "open" /\ ask[c].file # None
StreamEnds == \A c \in Conn :
    Waits(c) ~> (sock[c] # "open" \/ (pc[c] = "ready" /\ ~Latest(c)))

=============================================================================
