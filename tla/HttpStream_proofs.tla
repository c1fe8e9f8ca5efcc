-------------------------- MODULE HttpStream_proofs --------------------------
(***************************************************************************)
(* Theorems on the local HTTP service, for any number of connections and   *)
(* files: its invariants.                                                  *)
(***************************************************************************)
EXTENDS HttpStream, FiniteSetTheorems, TLAPS

USE DEF Id

\* Where a handler may be.
PC == {"fresh", "remove", "count", "insert", "return", "ready", "bare"}
USE DEF PC

\* The connections that have taken a number, and those that are taking one.
Counted == {c \in Conn : pc[c] \in {"insert", "return", "ready"}}
Opening == {c \in Conn : pc[c] \in {"count", "insert", "return"}}
IsThere(i) == i \in Id /\ chans[i] # None

\* No more numbers are given than connections have asked for one.
CountOK == /\ dwCount <= Cardinality(Counted)
           /\ \A c \in Conn : key[c] <= Cardinality(Counted)

GotOK == \A c \in Conn :
    /\ Len(got[c]) = noSent[c]
    /\ pc[c] # "ready" => noSent[c] = 0

\* While openings do not overlap: how the counter, the ids and the channels
\* hang together.
Numbered ==
    /\ \A c, d \in Opening : c = d
    /\ \A c \in Conn :
          /\ pc[c] = "insert" => key[c] = dwCount + 1
          /\ pc[c] = "return" => key[c] = dwCount /\ dwCount # 0
          /\ pc[c] = "ready" => id[c] \in 1 .. dwCount
    /\ \A c, d \in Conn :
          /\ pc[c] = "ready" /\ pc[d] = "ready" /\ id[c] = id[d] => c = d
          /\ pc[c] = "ready" /\ pc[d] = "return" => id[c] < dwCount

Owns(c, i) == /\ sock[c] \in {"open", "closed"}
              /\ ask[c].file = chans[i].file
              /\ \/ pc[c] = "ready" /\ id[c] = i
                 \/ pc[c] = "return" /\ key[c] = i

Owned == \A i \in Id : chans[i] # None =>
            i <= dwCount /\ \E c \in Conn : Owns(c, i)

OnePerFile == \A i, j \in Id :
    chans[i] # None /\ chans[j] # None /\ chans[i].file = chans[j].file => i = j

Cleared == \A c \in Conn :
    /\ pc[c] \in {"count", "insert"} =>
          \A i \in Id : chans[i] # None => chans[i].file # ask[c].file
    /\ pc[c] = "return" =>
          dwCount \in Id /\ chans[dwCount] # None /\ chans[dwCount].file = ask[c].file

LatestHas == \A c \in Conn :
    Latest(c) /\ sock[c] \in {"open", "closed"} =>
        id[c] \in Id /\ chans[id[c]] # None /\ chans[id[c]].file = ask[c].file

Serial == Numbered /\ Owned /\ OnePerFile /\ Cleared /\ LatestHas

Basic == TypeOK /\ CountOK /\ GotOK
Inv == Basic /\ InOrder /\ (~env.race => Serial)

-----------------------------------------------------------------------------
LEMMA Sizes ==
    /\ Cardinality(Conn) \in Nat
    /\ \A S \in SUBSET Conn : Cardinality(S) \in 0 .. Cardinality(Conn)
<1>1. \A S \in SUBSET Conn : IsFiniteSet(S) /\ Cardinality(S) <= Cardinality(Conn)
  BY FS_Subset, StreamAssumption
<1>2. QED
  BY <1>1, FS_CardinalityType, StreamAssumption

LEMMA InitInv == Init => Inv
<1> SUFFICES ASSUME Init PROVE Inv
  OBVIOUS
<1>1. TypeOK
  BY StreamAssumption DEF Init, TypeOK
<1>2. Cardinality(Counted) \in Nat
  BY Sizes DEF Counted
<1>3. CountOK
  BY <1>2 DEF Init, CountOK
<1>4. GotOK /\ InOrder
  BY DEF Init, GotOK, InOrder
<1>5. Numbered /\ Owned /\ OnePerFile /\ Cleared /\ LatestHas
  BY DEF Init, Numbered, Opening, Owned, OnePerFile, Cleared, LatestHas, Latest
<1>6. QED
  BY <1>1, <1>3, <1>4, <1>5 DEF Inv, Basic, Serial

-----------------------------------------------------------------------------
(* RequestSegment changes no more than a table.                            *)
LEMMA RequestedType ==
    ASSUME NEW tab \in [Blocks!Block -> Blocks!Status], NEW first \in Nat
    PROVE  Requested(tab, first) \in [Blocks!Block -> Blocks!Status]
<1>1. \A t \in [Blocks!Block -> Blocks!Status] : \A a, b :
          Blocks!RemoveBlock(t, a, b) \in [Blocks!Block -> Blocks!Status]
  BY DEF Blocks!RemoveBlock, Blocks!Status
<1>2. \A t \in [Blocks!Block -> Blocks!Status] : \A a, b :
          Blocks!InsertShouldBlock(t, a, b) \in [Blocks!Block -> Blocks!Status]
  BY DEF Blocks!InsertShouldBlock, Blocks!Status
<1>3. QED
  BY <1>1, <1>2 DEF Requested

SameFiles(cs, ds) ==
    /\ ds \in [Id -> Channel \cup {None}]
    /\ \A i \in Id : /\ ds[i] = None <=> cs[i] = None
                     /\ cs[i] # None => ds[i].file = cs[i].file

LEMMA RequestSame ==
    ASSUME NEW cs \in [Id -> Channel \cup {None}], NEW i, NEW first \in Nat
    PROVE  SameFiles(cs, RequestSegment(cs, i, first))
<1> DEFINE ds == RequestSegment(cs, i, first)
<1>1. \A j \in Id : ds[j] = IF j = i /\ cs[j] # None
                            THEN [cs[j] EXCEPT !.tab = Requested(@, first)] ELSE cs[j]
  BY DEF RequestSegment
<1>2. \A j \in Id : cs[j] # None =>
          [cs[j] EXCEPT !.tab = Requested(@, first)] \in Channel
  <2> SUFFICES ASSUME NEW j \in Id, cs[j] # None
               PROVE  [cs[j] EXCEPT !.tab = Requested(@, first)] \in Channel
    OBVIOUS
  <2>1. cs[j] \in Channel
    OBVIOUS
  <2>2. /\ cs[j].file \in File
        /\ cs[j].tab \in [Blocks!Block -> Blocks!Status]
    BY <2>1 DEF Channel
  <2>3. Requested(cs[j].tab, first) \in [Blocks!Block -> Blocks!Status]
    BY <2>2, RequestedType
  <2>4. QED
    BY <2>1, <2>2, <2>3 DEF Channel
<1>3. \A j \in Id : ds[j] \in Channel \cup {None}
  BY <1>1, <1>2
<1>4. ds = [j \in Id |-> ds[j]]
  BY DEF RequestSegment
<1>5. \A j \in Id : ds[j] = None <=> cs[j] = None
  BY <1>1, <1>2, NoneAssumption
<1>6. \A j \in Id : cs[j] # None => ds[j].file = cs[j].file
  BY <1>1 DEF Channel
<1>7. QED
  BY <1>3, <1>4, <1>5, <1>6 DEF SameFiles

(* Such a step of the channels leaves the numbering alone, when nothing    *)
(* else that it speaks of changes.                                         *)
LEMMA SameSerial ==
    ASSUME Basic, Serial, SameFiles(chans, chans'),
           UNCHANGED <<dwCount, sock, pc, ask, key, id>>
    PROVE  Serial'
<1>1. Numbered'
  BY DEF Serial, Numbered, Opening
<1>2. Owned'
  BY DEF Serial, Owned, Owns, SameFiles
<1>3. OnePerFile'
  BY DEF Serial, OnePerFile, SameFiles
<1>4. Cleared'
  BY DEF Serial, Cleared, SameFiles
<1>5. LatestHas'
  BY DEF Serial, LatestHas, Latest, SameFiles
<1>6. QED
  BY <1>1, <1>2, <1>3, <1>4, <1>5 DEF Serial

(* What is read for a connection is in a channel, and no more than it has  *)
(* left to send.                                                           *)
LEMMA ReadBound ==
    ASSUME Basic, NEW c \in Conn, pc[c] = "ready", noToSend[c] # 0,
           HasRead(c) # {}
    PROVE  /\ Position(c) \in Nat
           /\ id[c] \in Id /\ chans[id[c]] # None
           /\ Cardinality(HasRead(c)) \in Nat
           /\ noSent[c] + Cardinality(HasRead(c)) <= NumBlocks
           /\ Cardinality(HasRead(c)) <= noToSend[c]
<1> DEFINE p == Position(c)
           w == Wish(c)
<1>1. /\ ask[c].start \in Nat /\ noSent[c] \in Nat /\ noToSend[c] \in Nat
      /\ noToSend[c] = NumBlocks - ask[c].start - noSent[c]
  <2>1. noSent[c] \in 0 .. NumBlocks /\ noToSend[c] \in 0 .. NumBlocks
    BY DEF Basic, TypeOK
  <2>2. ask[c] \in [file : env.files \cup {None}, start : 0 .. NumBlocks]
    BY DEF Basic, TypeOK
  <2>3. ask[c].start \in 0 .. NumBlocks
    BY <2>2
  <2>4. noToSend[c] = NumBlocks - ask[c].start - noSent[c]
    BY DEF Basic, TypeOK
  <2>5. QED
    BY <2>1, <2>3, <2>4, StreamAssumption
<1>2. p \in Nat /\ w \in Nat
  BY <1>1, StreamAssumption DEF Position, Wish
<1>3. \A b \in HasRead(c) : /\ b \in p .. (p + w - 1)
                            /\ id[c] \in Id /\ chans[id[c]] # None
                            /\ p .. b \subseteq 0 .. (NumBlocks - 1)
  BY DEF HasRead, ReadSegment, Blocks!BlocksIn, Blocks!Block
<1>4. PICK b \in HasRead(c) : TRUE
  OBVIOUS
<1>5. p \in p .. b
  BY <1>2, <1>3, <1>4
<1>6. p < NumBlocks
  BY <1>3, <1>4, <1>5, StreamAssumption
<1>7. w <= noToSend[c]
  BY <1>1, <1>6, StreamAssumption DEF Position, Wish
<1>8. HasRead(c) \in SUBSET (p .. (p + w - 1))
  BY <1>3
<1>9. IsFiniteSet(p .. (p + w - 1)) /\ Cardinality(p .. (p + w - 1)) = w
  <2>1. p \in Int /\ p + w - 1 \in Int
    BY <1>2
  <2>2. QED
    BY <2>1, <1>2, FS_Interval
<1>10. IsFiniteSet(HasRead(c)) /\ Cardinality(HasRead(c)) <= w
  BY <1>8, <1>9, FS_Subset
<1>11. Cardinality(HasRead(c)) \in Nat
  BY <1>10, FS_CardinalityType
<1>12. QED
  <2>1. Cardinality(HasRead(c)) <= noToSend[c]
    BY <1>1, <1>2, <1>7, <1>10, <1>11
  <2>2. noSent[c] + Cardinality(HasRead(c)) <= NumBlocks
    BY <1>1, <1>11, <2>1, StreamAssumption
  <2>3. QED
    BY <1>2, <1>3, <1>4, <1>11, <2>1, <2>2

-----------------------------------------------------------------------------
(* The steps.  Those that open a file, first.                              *)
LEMMA ReceiveInv ==
    ASSUME Inv, NEW c \in Conn, onReceive(c) PROVE Inv'
<1>1. pc[c] = "fresh" /\ noSent[c] = 0 /\ DOMAIN got[c] = {}
  <2>1. pc[c] = "fresh" /\ noSent[c] = 0 /\ Len(got[c]) = 0
    BY DEF Inv, Basic, TypeOK, GotOK, onReceive
  <2>2. got[c] \in Seq(File \X Nat)
    BY DEF Inv, Basic, TypeOK
  <2>3. QED
    BY <2>1, <2>2
<1>2. PICK f \in env.files \cup {None}, s \in Start :
          /\ ask' = [ask EXCEPT ![c] = [file |-> f, start |-> RangeStart(s)]]
          /\ noToSend' = [noToSend EXCEPT ![c] = NumBlocks - RangeStart(s)]
  BY DEF onReceive
<1>3. TypeOK'
  <2>1. f \in File \cup {None} /\ RangeStart(s) \in 0 .. NumBlocks
    BY StreamAssumption DEF Inv, Basic, TypeOK, RangeStart
  <2>2. ask' \in [Conn -> [file : File \cup {None}, start : 0 .. NumBlocks] \cup {None}]
    BY <1>2, <2>1 DEF Inv, Basic, TypeOK
  <2>3. noToSend' \in [Conn -> 0 .. NumBlocks]
    BY <1>2, <2>1, StreamAssumption DEF Inv, Basic, TypeOK
  <2>4. NumBlocks - RangeStart(s) = NumBlocks - RangeStart(s) - 0
    BY <2>1, StreamAssumption
  <2>5. UNCHANGED <<env, chans, dwCount, nCount, key, id, noSent, got>>
        /\ sock' = [sock EXCEPT ![c] = "open"] /\ pc' = [pc EXCEPT ![c] = "remove"]
    BY DEF onReceive
  <2>6. QED
    BY <1>1, <1>2, <2>1, <2>2, <2>3, <2>4, <2>5 DEF Inv, Basic, TypeOK
<1>4. CountOK'
  <2>1. Counted' = Counted
    BY <1>1 DEF Counted, onReceive, Inv, Basic, TypeOK
  <2>2. QED
    BY <2>1 DEF CountOK, onReceive, Inv, Basic
<1>5. GotOK'
  BY <1>1 DEF GotOK, onReceive, Inv, Basic, TypeOK
<1>6. InOrder'
  BY <1>1, <1>2 DEF InOrder, onReceive, Inv, Basic, TypeOK
<1>7. ASSUME ~env.race PROVE Serial'
  <2>1. Serial
    BY <1>7 DEF Inv
  <2>2. pc' = [pc EXCEPT ![c] = "remove"] /\ sock' = [sock EXCEPT ![c] = "open"]
    BY DEF onReceive
  <2>3. UNCHANGED <<chans, dwCount, key, id>>
    BY DEF onReceive
  <2>4. /\ pc \in [Conn -> PC] /\ sock[c] = "new"
        /\ sock \in [Conn -> {"new", "open", "closed", "gone"}]
        /\ \A d \in Conn : d # c => ask'[d] = ask[d]
    BY <1>2 DEF Inv, Basic, TypeOK, onReceive
  <2>5. Numbered'
    BY <1>1, <2>1, <2>2, <2>3, <2>4 DEF Serial, Numbered, Opening
  <2>6. Owned'
    BY <1>1, <2>1, <2>2, <2>3, <2>4 DEF Serial, Owned, Owns
  <2>7. OnePerFile'
    BY <2>1, <2>3 DEF Serial, OnePerFile
  <2>8. Cleared'
    BY <1>1, <2>1, <2>2, <2>3, <2>4 DEF Serial, Cleared
  <2>9. LatestHas'
    BY <1>1, <2>1, <2>2, <2>3, <2>4 DEF Serial, LatestHas, Latest
  <2>10. QED
    BY <2>5, <2>6, <2>7, <2>8, <2>9 DEF Serial
<1>8. env' = env
  BY DEF onReceive
<1>9. QED
  BY <1>3, <1>4, <1>5, <1>6, <1>7, <1>8 DEF Inv, Basic

(* A connection that is refused has no channel and opens none.             *)
LEMMA RefuseInv ==
    ASSUME Inv, NEW c \in Conn, Refuse(c) PROVE Inv'
<1>1. /\ pc[c] = "fresh" /\ sock' = [sock EXCEPT ![c] = "closed"]
      /\ UNCHANGED <<env, chans, dwCount, nCount, pc, ask, key, id,
                     noSent, noToSend, got>>
  BY DEF Refuse, opening, sending, Inv, Basic, TypeOK
<1>2. sock \in [Conn -> {"new", "open", "closed", "gone"}]
  BY DEF Inv, Basic, TypeOK
<1>3. TypeOK'
  BY <1>1 DEF Inv, Basic, TypeOK
<1>4. CountOK' /\ GotOK' /\ InOrder'
  <2>1. Counted' = Counted
    BY <1>1 DEF Counted
  <2>2. QED
    BY <1>1, <2>1 DEF CountOK, GotOK, InOrder, Inv, Basic
<1>5. ASSUME ~env.race PROVE Serial'
  <2>1. Serial
    BY <1>5 DEF Inv
  <2>2. Numbered' /\ OnePerFile' /\ Cleared'
    BY <1>1, <2>1 DEF Serial, Numbered, Opening, OnePerFile, Cleared
  <2>3. Owned'
    BY <1>1, <1>2, <2>1 DEF Serial, Owned, Owns
  <2>4. LatestHas'
    BY <1>1, <1>2, <2>1 DEF Serial, LatestHas, Latest
  <2>5. QED
    BY <2>2, <2>3, <2>4 DEF Serial
<1>6. QED
  BY <1>1, <1>3, <1>4, <1>5 DEF Inv, Basic

(* Nor has one whose request lacks the node name.                          *)
LEMMA FailsInv ==
    ASSUME Inv, NEW c \in Conn, OpenFails(c) PROVE Inv'
<1>1. /\ pc[c] = "remove" /\ pc' = [pc EXCEPT ![c] = "bare"] /\ ask[c].file = None
      /\ UNCHANGED <<env, chans, dwCount, nCount, sock, ask, key, id,
                     noSent, noToSend, got>>
  BY DEF OpenFails, sending
<1>2. pc \in [Conn -> PC]
  BY DEF Inv, Basic, TypeOK
<1>3. TypeOK'
  BY <1>1 DEF Inv, Basic, TypeOK
<1>4. CountOK' /\ GotOK' /\ InOrder'
  <2>1. Counted' = Counted
    BY <1>1, <1>2 DEF Counted
  <2>2. QED
    BY <1>1, <1>2, <2>1 DEF CountOK, GotOK, InOrder, Inv, Basic
<1>5. ASSUME ~env.race PROVE Serial'
  <2>1. Serial
    BY <1>5 DEF Inv
  <2>2. Numbered'
    BY <1>1, <1>2, <2>1 DEF Serial, Numbered, Opening
  <2>3. OnePerFile' /\ Cleared'
    BY <1>1, <1>2, <2>1 DEF Serial, OnePerFile, Cleared
  <2>4. Owned'
    BY <1>1, <1>2, <2>1 DEF Serial, Owned, Owns
  <2>5. LatestHas'
    <3> SUFFICES ASSUME NEW d \in Conn, Latest(d)', sock'[d] \in {"open", "closed"}
                 PROVE  id'[d] \in Id /\ chans'[id'[d]] # None
                        /\ chans'[id'[d]].file = ask'[d].file
      BY DEF LatestHas
    <3>1. d # c /\ pc[d] = "ready" /\ Latest(d)
      BY <1>1, <1>2 DEF Latest
    <3>2. QED
      BY <1>1, <2>1, <3>1 DEF Serial, LatestHas
  <2>6. QED
    BY <2>2, <2>3, <2>4, <2>5 DEF Serial
<1>6. QED
  BY <1>1, <1>3, <1>4, <1>5 DEF Inv, Basic

(* While openings do not overlap OpenRemove takes the only channel of the  *)
(* file away.  Whoever had it is not the latest any more.                  *)
LEMMA RemoveInv ==
    ASSUME Inv, NEW c \in Conn, OpenRemove(c) PROVE Inv'
<1> DEFINE f == ask[c].file
<1>1. /\ pc[c] = "remove" /\ pc' = [pc EXCEPT ![c] = "count"] /\ ask[c].file # None
      /\ UNCHANGED <<env, dwCount, nCount, sock, ask, key, id,
                     noSent, noToSend, got>>
  BY DEF OpenRemove
<1>2. \A i \in Id : chans'[i] = chans[i] \/ chans'[i] = None
  BY DEF OpenRemove
<1>3. TypeOK'
  <2>1. chans' \in [Id -> Channel \cup {None}]
    BY DEF Inv, Basic, TypeOK, OpenRemove
  <2>2. QED
    BY <1>1, <2>1 DEF Inv, Basic, TypeOK
<1>4. CountOK'
  <2>1. Counted' = Counted
    BY <1>1 DEF Counted, Inv, Basic, TypeOK
  <2>2. QED
    BY <1>1, <2>1 DEF CountOK, Inv, Basic
<1>5. GotOK' /\ InOrder'
  BY <1>1 DEF GotOK, InOrder, Inv, Basic, TypeOK
<1>6. ASSUME ~env.race PROVE Serial'
  <2>1. Serial
    BY <1>6 DEF Inv
  <2>2. \A d \in Conn : pc[d] \in {"fresh", "remove", "ready", "bare"}
    BY <1>6 DEF OpenRemove
  <2>3. pc \in [Conn -> PC]
    BY DEF Inv, Basic, TypeOK
  <2>4. \A i \in Id : i \in ChannelsOf(f) => \A j \in ChannelsOf(f) : i = j
    BY <2>1 DEF Serial, OnePerFile, ChannelsOf
  <2>5. \A i \in Id : chans'[i] = IF i \in ChannelsOf(f) THEN None ELSE chans[i]
    <3>1. \A i \in Id : i \in ChannelsOf(f) => \A j \in ChannelsOf(f) : i <= j
      BY <2>4, Sizes
    <3>2. QED
      BY <3>1 DEF OpenRemove
  <2>6. Numbered'
    BY <1>1, <2>1, <2>2, <2>3 DEF Serial, Numbered, Opening
  <2>7. Owned'
    BY <1>1, <1>2, <2>1, <2>3 DEF Serial, Owned, Owns
  <2>8. OnePerFile'
    BY <1>2, <2>1 DEF Serial, OnePerFile
  <2>9. Cleared'
    BY <1>1, <2>2, <2>3, <2>5 DEF Cleared, ChannelsOf
  <2>10. LatestHas'
    <3> SUFFICES ASSUME NEW d \in Conn, Latest(d)', sock'[d] \in {"open", "closed"}
                 PROVE  id'[d] \in Id /\ chans'[id'[d]] # None
                        /\ chans'[id'[d]].file = ask'[d].file
      BY DEF LatestHas
    <3>1. d # c /\ pc[d] = "ready"
      BY <1>1, <2>3 DEF Latest
    <3>2. ask[d].file # f
      BY <1>1, <2>3, <3>1 DEF Latest
    <3>3. Latest(d)
      BY <1>1, <2>3, <3>1 DEF Latest
    <3>4. id[d] \in Id /\ chans[id[d]] # None /\ chans[id[d]].file = ask[d].file
      BY <1>1, <2>1, <3>3 DEF Serial, LatestHas
    <3>5. chans'[id[d]] = chans[id[d]]
      BY <2>5, <3>2, <3>4 DEF ChannelsOf
    <3>6. QED
      BY <1>1, <3>4, <3>5
  <2>11. QED
    BY <2>6, <2>7, <2>8, <2>9, <2>10 DEF Serial
<1>7. QED
  BY <1>1, <1>3, <1>4, <1>5, <1>6 DEF Inv, Basic

(* The number taken is one more than the last, of which there are no more  *)
(* than connections that have taken one: it is a number of Id.             *)
LEMMA CountInv ==
    ASSUME Inv, NEW c \in Conn, OpenCount(c) PROVE Inv'
<1>1. /\ pc[c] = "count" /\ pc' = [pc EXCEPT ![c] = "insert"]
      /\ key' = [key EXCEPT ![c] = dwCount + 1]
      /\ UNCHANGED <<env, chans, dwCount, nCount, sock, ask, id,
                     noSent, noToSend, got>>
  BY DEF OpenCount, sending
<1>2. pc \in [Conn -> PC]
      /\ dwCount \in {0} \cup Id /\ key \in [Conn -> {0} \cup Id]
  BY DEF Inv, Basic, TypeOK
<1>3. /\ Cardinality(Counted') = Cardinality(Counted) + 1
      /\ Cardinality(Counted') \in 0 .. Cardinality(Conn)
      /\ Cardinality(Counted) \in Nat
  <2>1. Counted' = Counted \cup {c} /\ c \notin Counted
    BY <1>1, <1>2 DEF Counted
  <2>2. Counted' \in SUBSET Conn /\ Counted \in SUBSET Conn
    BY DEF Counted
  <2>3. IsFiniteSet(Counted)
    BY <2>2, FS_Subset, StreamAssumption
  <2>4. Cardinality(Counted') = Cardinality(Counted) + 1
    BY <2>1, <2>3, FS_AddElement
  <2>5. QED
    BY <2>2, <2>4, Sizes
<1>4. dwCount + 1 \in Id /\ dwCount + 1 <= Cardinality(Counted')
  BY <1>2, <1>3, Sizes DEF Inv, Basic, CountOK
<1>5. TypeOK'
  BY <1>1, <1>4 DEF Inv, Basic, TypeOK
<1>6. CountOK'
  <2>1. dwCount' <= Cardinality(Counted')
    BY <1>1, <1>2, <1>3, <1>4, Sizes
  <2>2. ASSUME NEW d \in Conn PROVE key'[d] <= Cardinality(Counted')
    <3>1. CASE d = c
      BY <1>1, <1>2, <1>4, <3>1
    <3>2. CASE d # c
      BY <1>1, <1>2, <1>3, <3>2, Sizes DEF Inv, Basic, CountOK
    <3>3. QED
      BY <3>1, <3>2
  <2>3. QED
    BY <2>1, <2>2 DEF CountOK
<1>7. GotOK' /\ InOrder'
  BY <1>1 DEF GotOK, InOrder, Inv, Basic, TypeOK
<1>8. ASSUME ~env.race PROVE Serial'
  <2>1. Serial
    BY <1>8 DEF Inv
  <2>2. Numbered'
    BY <1>1, <1>2, <2>1 DEF Serial, Numbered, Opening
  <2>3. Owned'
    BY <1>1, <1>2, <2>1 DEF Serial, Owned, Owns
  <2>4. OnePerFile'
    BY <1>1, <2>1 DEF Serial, OnePerFile
  <2>5. Cleared'
    BY <1>1, <1>2, <2>1 DEF Serial, Cleared
  <2>6. LatestHas'
    BY <1>1, <1>2, <2>1 DEF Serial, LatestHas, Latest
  <2>7. QED
    BY <2>2, <2>3, <2>4, <2>5, <2>6 DEF Serial
<1>9. QED
  BY <1>1, <1>5, <1>6, <1>7, <1>8 DEF Inv, Basic

(* The new channel goes where none is: ids in use are at most dwCount.     *)
LEMMA InsertInv ==
    ASSUME Inv, NEW c \in Conn, OpenInsert(c) PROVE Inv'
<1>1. /\ pc[c] = "insert" /\ pc' = [pc EXCEPT ![c] = "return"]
      /\ dwCount' = key[c]
      /\ UNCHANGED <<env, nCount, sock, ask, key, id, noSent, noToSend, got>>
  BY DEF OpenInsert, sending
<1> DEFINE fresh == [file |-> ask[c].file,
                     tab |-> [b \in Blocks!Block |-> "ABSENT"]]
<1>2. /\ pc \in [Conn -> PC]
      /\ dwCount \in {0} \cup Id /\ key[c] \in {0} \cup Id
      /\ chans \in [Id -> Channel \cup {None}]
      /\ sock[c] = "open"
  BY <1>1 DEF Inv, Basic, TypeOK
<1>3. fresh \in Channel
  <2>1. ask[c].file \in File
    BY <1>1, StreamAssumption DEF Inv, Basic, TypeOK
  <2>2. QED
    BY <2>1 DEF Channel, Blocks!Status
<1>4. \A i \in Id : chans'[i] = IF i = key[c] /\ chans[i] = None
                              THEN fresh ELSE chans[i]
  BY <1>2 DEF OpenInsert
<1>5. TypeOK'
  <2>1. chans' = [i \in Id |-> chans'[i]]
    BY <1>2 DEF OpenInsert
  <2>2. chans' \in [Id -> Channel \cup {None}]
    BY <1>2, <1>3, <1>4, <2>1
  <2>3. QED
    BY <1>1, <1>2, <2>2 DEF Inv, Basic, TypeOK
<1>6. CountOK'
  <2>1. Counted' = Counted
    BY <1>1, <1>2 DEF Counted
  <2>2. QED
    BY <1>1, <2>1 DEF CountOK, Inv, Basic
<1>7. GotOK' /\ InOrder'
  BY <1>1 DEF GotOK, InOrder, Inv, Basic, TypeOK
<1>8. ASSUME ~env.race PROVE Serial'
  <2>1. Serial
    BY <1>8 DEF Inv
  <2>2. key[c] = dwCount + 1 /\ key[c] \in Id
    BY <1>1, <1>2, <2>1, Sizes DEF Serial, Numbered
  <2>3. chans[key[c]] = None
    BY <1>2, <2>1, <2>2, Sizes DEF Serial, Owned
  <2>4. /\ chans'[key[c]] = fresh /\ fresh # None
        /\ \A i \in Id : i # key[c] => chans'[i] = chans[i]
    BY <1>3, <1>4, <2>2, <2>3, NoneAssumption
  <2>5. dwCount' = dwCount + 1 /\ dwCount \in Nat
    BY <1>1, <1>2, <2>2, Sizes
  <2>6. \A d \in Conn : pc[d] = "ready" => id[d] \in 1 .. dwCount
    BY <2>1 DEF Serial, Numbered
  <2>7. Numbered'
    BY <1>1, <1>2, <2>1, <2>5, <2>6 DEF Serial, Numbered, Opening
  <2>8. Owned'
    <3> SUFFICES ASSUME NEW i \in Id, chans'[i] # None
                 PROVE  i <= dwCount' /\ \E d \in Conn : Owns(d, i)'
      BY DEF Owned
    <3>1. CASE i = key[c]
      BY <1>1, <1>2, <2>2, <2>4, <2>5, <3>1, Sizes DEF Owns
    <3>2. CASE i # key[c]
      BY <1>1, <1>2, <2>1, <2>4, <2>5, <3>2, Sizes DEF Serial, Owned, Owns
    <3>3. QED
      BY <3>1, <3>2
  <2>9. OnePerFile'
    BY <1>1, <2>1, <2>4 DEF Serial, OnePerFile, Cleared
  <2>10. Cleared'
    <3>1. \A d \in Conn : pc'[d] \in {"count", "insert"} => FALSE
      BY <1>1, <1>2, <2>1 DEF Serial, Numbered, Opening
    <3>2. \A d \in Conn : pc'[d] = "return" => d = c
      BY <1>1, <1>2, <2>1 DEF Serial, Numbered, Opening
    <3>3. QED
      BY <1>1, <2>2, <2>4, <3>1, <3>2 DEF Cleared
  <2>11. LatestHas'
    <3> SUFFICES ASSUME NEW d \in Conn, Latest(d)', sock'[d] \in {"open", "closed"}
                 PROVE  id'[d] \in Id /\ chans'[id'[d]] # None
                        /\ chans'[id'[d]].file = ask'[d].file
      BY DEF LatestHas
    <3>1. d # c /\ pc[d] = "ready" /\ Latest(d)
      BY <1>1, <1>2 DEF Latest
    <3>2. id[d] \in Id /\ chans[id[d]] # None /\ chans[id[d]].file = ask[d].file
      BY <1>1, <2>1, <3>1 DEF Serial, LatestHas
    <3>3. chans'[id[d]] = chans[id[d]]
      BY <2>3, <2>4, <3>2
    <3>4. QED
      BY <1>1, <3>2, <3>3
  <2>12. QED
    BY <2>7, <2>8, <2>9, <2>10, <2>11 DEF Serial
<1>9. QED
  BY <1>1, <1>5, <1>6, <1>7, <1>8 DEF Inv, Basic

(* The id returned is the one of the channel entered; it is the highest.   *)
LEMMA ReturnInv ==
    ASSUME Inv, NEW c \in Conn, OpenReturn(c) PROVE Inv'
<1>1. /\ pc[c] = "return" /\ pc' = [pc EXCEPT ![c] = "ready"]
      /\ id' = [id EXCEPT ![c] = dwCount]
      /\ UNCHANGED <<env, dwCount, nCount, sock, ask, key, noSent, noToSend, got>>
  BY DEF OpenReturn, sending
<1>2. /\ pc \in [Conn -> PC]
      /\ id \in [Conn -> {0} \cup Id] /\ dwCount \in {0} \cup Id
      /\ chans \in [Id -> Channel \cup {None}]
      /\ ask[c].start \in Nat
  BY <1>1, StreamAssumption DEF Inv, Basic, TypeOK
<1>3. SameFiles(chans, chans')
  BY <1>2, RequestSame DEF OpenReturn
<1>4. TypeOK'
  BY <1>1, <1>2, <1>3 DEF Inv, Basic, TypeOK, SameFiles
<1>5. CountOK'
  <2>1. Counted' = Counted
    BY <1>1, <1>2 DEF Counted
  <2>2. QED
    BY <1>1, <2>1 DEF CountOK, Inv, Basic
<1>6. GotOK' /\ InOrder'
  BY <1>1, <1>2 DEF GotOK, InOrder, Inv, Basic
<1>7. ASSUME ~env.race PROVE Serial'
  <2>1. Serial
    BY <1>7 DEF Inv
  <2>2. /\ key[c] = dwCount /\ dwCount \in Id
        /\ \A d \in Conn : pc[d] = "ready" =>
               d # c /\ id[d] \in 1 .. dwCount /\ id[d] < dwCount
    BY <1>1, <1>2, <2>1 DEF Serial, Numbered
  <2>3. Numbered'
    <3>1. \A d, e \in Conn : d \in Opening' /\ e \in Opening' => FALSE
      BY <1>1, <1>2, <2>1 DEF Serial, Numbered, Opening
    <3>2. \A d \in Conn : pc'[d] \in {"insert", "return"} => FALSE
      BY <3>1 DEF Opening
    <3>3. \A d \in Conn : pc'[d] = "ready" => id'[d] \in 1 .. dwCount'
      BY <1>1, <1>2, <2>2, Sizes
    <3>4. \A d, e \in Conn :
              pc'[d] = "ready" /\ pc'[e] = "ready" /\ id'[d] = id'[e] => d = e
      BY <1>1, <1>2, <2>1, <2>2, Sizes DEF Serial, Numbered
    <3>5. Opening' \subseteq Conn
      BY DEF Opening
    <3>6. QED
      BY <3>1, <3>2, <3>3, <3>4, <3>5 DEF Numbered
  <2>4. Owned'
    BY <1>1, <1>2, <1>3, <2>1, <2>2 DEF Serial, Owned, Owns, SameFiles
  <2>5. OnePerFile'
    BY <1>3, <2>1 DEF Serial, OnePerFile, SameFiles
  <2>6. Cleared'
    <3>1. \A d \in Conn : pc'[d] \in {"count", "insert", "return"} => FALSE
      BY <1>1, <1>2, <2>1 DEF Serial, Numbered, Opening
    <3>2. QED
      BY <3>1 DEF Cleared
  <2>7. LatestHas'
    <3> SUFFICES ASSUME NEW d \in Conn, Latest(d)', sock'[d] \in {"open", "closed"}
                 PROVE  id'[d] \in Id /\ chans'[id'[d]] # None
                        /\ chans'[id'[d]].file = ask'[d].file
      BY DEF LatestHas
    <3>1. CASE d = c
      BY <1>1, <1>2, <1>3, <2>1, <2>2, <3>1 DEF Serial, Cleared, SameFiles
    <3>2. CASE d # c
      <4>1. pc[d] = "ready" /\ id'[d] = id[d]
        BY <1>1, <1>2, <3>2 DEF Latest
      <4>2. ask[c].file # ask[d].file
        <5> SUFFICES ASSUME ask[c].file = ask[d].file PROVE FALSE
          OBVIOUS
        <5>1. id'[c] < id'[d]
          BY <1>1, <1>2, <3>2 DEF Latest
        <5>2. QED
          BY <1>1, <1>2, <2>2, <4>1, <5>1, Sizes
      <4>3. Latest(d)
        BY <1>1, <1>2, <3>2, <4>1, <4>2 DEF Latest
      <4>4. QED
        BY <1>1, <1>3, <2>1, <4>1, <4>3 DEF Serial, LatestHas, SameFiles
    <3>3. QED
      BY <3>1, <3>2
  <2>8. QED
    BY <2>3, <2>4, <2>5, <2>6, <2>7 DEF Serial
<1>8. QED
  BY <1>1, <1>4, <1>5, <1>6, <1>7 DEF Inv, Basic

-----------------------------------------------------------------------------
(* What is sent continues what the player has got, out of its own channel. *)
LEMMA SendInv ==
    ASSUME Inv, NEW c \in Conn, NEW k \in 0 .. SendMax, onSend(c, k) PROVE Inv'
<1> DEFINE more == [i \in 1 .. k |-> <<chans[id[c]].file, Position(c) + i - 1>>]
<1>1. /\ pc[c] = "ready" /\ noToSend[c] # 0 /\ HasRead(c) # {}
      /\ k <= Cardinality(HasRead(c))
      /\ noSent' = [noSent EXCEPT ![c] = @ + k]
      /\ noToSend' = [noToSend EXCEPT ![c] = @ - k]
      /\ got' = [got EXCEPT ![c] = @ \o more]
      /\ nCount' = (nCount + 1) % 2
      /\ chans' = AskAhead(c)
      /\ UNCHANGED <<env, dwCount, sock, pc, ask, key, id>>
  BY DEF onSend, Send
<1>2. /\ Position(c) \in Nat
      /\ id[c] \in Id /\ chans[id[c]] # None
      /\ Cardinality(HasRead(c)) \in Nat
      /\ noSent[c] + Cardinality(HasRead(c)) <= NumBlocks
      /\ Cardinality(HasRead(c)) <= noToSend[c]
  BY <1>1, ReadBound DEF Inv
<1>3. k \in Nat /\ noSent[c] \in Nat /\ noSent[c] + k \in 0 .. NumBlocks
  <2>1. k \in Nat /\ noSent[c] \in Nat /\ NumBlocks \in Nat
    BY StreamAssumption DEF Inv, Basic, TypeOK
  <2>2. QED
    BY <1>1, <1>2, <2>1
<1>4. chans \in [Id -> Channel \cup {None}] /\ chans[id[c]].file \in File
  <2>1. chans \in [Id -> Channel \cup {None}]
    BY DEF Inv, Basic, TypeOK
  <2>2. chans[id[c]] \in Channel
    BY <1>2, <2>1
  <2>3. QED
    BY <2>1, <2>2 DEF Channel
<1>5. SameFiles(chans, chans')
  <2>1. SameFiles(chans, chans)
    BY <1>4 DEF SameFiles
  <2>2. SameFiles(chans, RequestSegment(chans, id[c], Position(c)))
    BY <1>2, <1>4, RequestSame
  <2>3. QED
    BY <1>1, <2>1, <2>2 DEF AskAhead
<1>6. more \in Seq(File \X Nat) /\ Len(more) = k
  BY <1>2, <1>3, <1>4
<1>7. got \in [Conn -> Seq(File \X Nat)]
  BY DEF Inv, Basic, TypeOK
<1>8. /\ got' \in [Conn -> Seq(File \X Nat)]
      /\ Len(got'[c]) = Len(got[c]) + k
      /\ \A i \in DOMAIN got'[c] :
             got'[c][i] = IF i <= Len(got[c]) THEN got[c][i]
                          ELSE <<chans[id[c]].file, Position(c) + (i - Len(got[c])) - 1>>
  <2>1. got'[c] = got[c] \o more /\ got[c] \in Seq(File \X Nat)
    BY <1>1, <1>7
  <2>2. got'[c] \in Seq(File \X Nat) /\ Len(got'[c]) = Len(got[c]) + k
    BY <1>6, <2>1
  <2>3. got' \in [Conn -> Seq(File \X Nat)]
    BY <1>1, <1>7, <2>1, <2>2
  <2>4. ASSUME NEW i \in DOMAIN got'[c]
        PROVE  got'[c][i] = IF i <= Len(got[c]) THEN got[c][i]
                 ELSE <<chans[id[c]].file, Position(c) + (i - Len(got[c])) - 1>>
    <3>1. i \in 1 .. (Len(got[c]) + k)
      BY <2>2
    <3>2. CASE i <= Len(got[c])
      BY <1>6, <2>1, <3>1, <3>2
    <3>3. CASE ~(i <= Len(got[c]))
      <4>1. Len(got[c]) \in Nat
        BY <2>1
      <4>2. i - Len(got[c]) \in 1 .. k
        BY <1>3, <3>1, <3>3, <4>1
      <4>3. got'[c][i] = more[i - Len(got[c])]
        BY <1>6, <2>1, <3>1, <3>3, <4>1
      <4>4. QED
        BY <3>3, <4>2, <4>3
    <3>4. QED
      BY <3>2, <3>3
  <2>5. QED
    BY <2>2, <2>3, <2>4
<1>9. TypeOK'
  <2>1. chans' \in [Id -> Channel \cup {None}]
    BY <1>5 DEF SameFiles
  <2>2. noSent' \in [Conn -> 0 .. NumBlocks] /\ noToSend' \in [Conn -> 0 .. NumBlocks]
    <3>1. /\ noSent \in [Conn -> 0 .. NumBlocks]
          /\ noToSend \in [Conn -> 0 .. NumBlocks]
      BY DEF Inv, Basic, TypeOK
    <3>2. /\ k \in Nat /\ k <= noToSend[c] /\ noSent[c] + k <= NumBlocks
      BY <1>1, <1>2, <1>3, <3>1, StreamAssumption
    <3>3. /\ noSent[c] + k \in 0 .. NumBlocks /\ noToSend[c] - k \in 0 .. NumBlocks
      BY <3>1, <3>2, StreamAssumption
    <3>4. QED
      BY <1>1, <3>1, <3>3
  <2>3. nCount' \in {0, 1}
    BY <1>1 DEF Inv, Basic, TypeOK
  <2>4. ASSUME NEW d \in Conn, pc[d] # "fresh"
        PROVE  noToSend'[d] = NumBlocks - ask[d].start - noSent'[d]
    <3>1. /\ noToSend[d] = NumBlocks - ask[d].start - noSent[d]
          /\ noToSend[d] \in Int /\ noSent[d] \in Nat
          /\ ask[d].start \in 0 .. NumBlocks
      BY <2>4, StreamAssumption DEF Inv, Basic, TypeOK
    <3>2. ask[d].start \in Nat /\ NumBlocks \in Nat
      BY <3>1, StreamAssumption
    <3>3. CASE d = c
      BY <1>1, <1>3, <3>1, <3>2, <3>3 DEF Inv, Basic, TypeOK
    <3>4. CASE d # c
      BY <1>1, <3>1, <3>4 DEF Inv, Basic, TypeOK
    <3>5. QED
      BY <3>3, <3>4
  <2>5. QED
    BY <1>1, <1>8, <2>1, <2>2, <2>3, <2>4 DEF Inv, Basic, TypeOK
<1>10. CountOK'
  <2>1. Counted' = Counted
    BY <1>1 DEF Counted
  <2>2. QED
    BY <1>1, <2>1 DEF CountOK, Inv, Basic
<1>11. GotOK'
  BY <1>1, <1>3, <1>7, <1>8 DEF GotOK, Inv, Basic, TypeOK
<1>12. Position(c) = ask[c].start + noSent[c] /\ Len(got[c]) = noSent[c]
       /\ ask[c].start \in Nat
  BY <1>1, StreamAssumption DEF Position, Inv, Basic, TypeOK, GotOK
<1>13. ASSUME ~env.race PROVE chans[id[c]].file = ask[c].file
  <2>1. Serial
    BY <1>13 DEF Inv
  <2>2. PICK d \in Conn : Owns(d, id[c])
    BY <1>2, <2>1 DEF Serial, Owned
  <2>3. pc[d] = "return" => key[d] # id[c]
    BY <1>1, <2>1, <1>2, Sizes DEF Serial, Numbered
  <2>4. d = c
    BY <1>1, <2>1, <2>2, <2>3 DEF Serial, Numbered, Owns
  <2>5. QED
    BY <2>2, <2>4 DEF Owns
<1>14. InOrder'
  <2> SUFFICES ASSUME NEW d \in Conn, NEW i \in DOMAIN got'[d]
               PROVE  /\ got'[d][i][2] = ask[d].start + i - 1
                      /\ ~env.race => got'[d][i][1] = ask[d].file
    BY <1>1 DEF InOrder
  <2>1. CASE d # c
    BY <1>1, <1>7, <2>1 DEF Inv, InOrder
  <2>2. CASE d = c /\ i <= Len(got[c])
    <3>1. i \in DOMAIN got[c] /\ got'[c][i] = got[c][i]
      BY <1>3, <1>7, <1>8, <2>2
    <3>2. QED
      BY <2>2, <3>1 DEF Inv, InOrder
  <2>3. CASE d = c /\ ~(i <= Len(got[c]))
    <3>1. i \in Nat
      BY <1>8, <2>3
    <3>2. got'[c][i] = <<chans[id[c]].file, Position(c) + (i - Len(got[c])) - 1>>
      BY <1>8, <2>3
    <3>3. got'[d][i][2] = ask[d].start + i - 1
      <4>1. Position(c) + (i - Len(got[c])) - 1 = ask[c].start + i - 1
        <5>1. \A a, n, j \in Nat : (a + n) + (j - n) - 1 = a + j - 1
          OBVIOUS
        <5>2. Position(c) + (i - Len(got[c])) - 1
                  = (ask[c].start + noSent[c]) + (i - noSent[c]) - 1
          BY <1>12
        <5>3. QED
          BY <1>3, <1>12, <3>1, <5>1, <5>2
      <4>2. got'[c][i][2] = Position(c) + (i - Len(got[c])) - 1
        BY <3>2
      <4>3. QED
        BY <2>3, <4>1, <4>2
    <3>4. QED
      BY <1>13, <2>3, <3>2, <3>3
  <2>4. QED
    BY <2>1, <2>2, <2>3
<1>15. ~env.race => Serial'
  BY <1>1, <1>5, SameSerial DEF Inv
<1>16. QED
  BY <1>1, <1>9, <1>10, <1>11, <1>14, <1>15 DEF Inv, Basic

(* A connection that is closed still owns its channel.                     *)
LEMMA CloseInv ==
    ASSUME Inv, NEW c \in Conn, Finish(c) \/ onConnect(c) PROVE Inv'
<1>1. /\ pc[c] \in {"ready", "bare"} /\ sock[c] = "open"
      /\ sock' = [sock EXCEPT ![c] = "closed"]
      /\ UNCHANGED <<env, chans, dwCount, nCount, pc, ask, key, id,
                     noSent, noToSend, got>>
  BY DEF Finish, onConnect, opening, sending
<1>2. sock \in [Conn -> {"new", "open", "closed", "gone"}]
  BY DEF Inv, Basic, TypeOK
<1>3. TypeOK'
  BY <1>1 DEF Inv, Basic, TypeOK
<1>4. CountOK' /\ GotOK' /\ InOrder'
  <2>1. Counted' = Counted
    BY <1>1 DEF Counted
  <2>2. QED
    BY <1>1, <2>1 DEF CountOK, GotOK, InOrder, Inv, Basic
<1>5. ASSUME ~env.race PROVE Serial'
  <2>1. Serial
    BY <1>5 DEF Inv
  <2>2. Numbered' /\ OnePerFile' /\ Cleared'
    BY <1>1, <2>1 DEF Serial, Numbered, Opening, OnePerFile, Cleared
  <2>3. Owned'
    BY <1>1, <1>2, <2>1 DEF Serial, Owned, Owns
  <2>4. LatestHas'
    BY <1>1, <1>2, <2>1 DEF Serial, LatestHas, Latest
  <2>5. QED
    BY <2>2, <2>3, <2>4 DEF Serial
<1>6. QED
  BY <1>1, <1>3, <1>4, <1>5 DEF Inv, Basic

(* The channel taken away is the one of this connection: ids differ.       *)
LEMMA CleanupInv ==
    ASSUME Inv, NEW c \in Conn, cleanup(c) PROVE Inv'
<1>1. /\ sock[c] = "closed" /\ sock' = [sock EXCEPT ![c] = "gone"]
      /\ UNCHANGED <<env, dwCount, nCount, pc, ask, key, id, noSent, noToSend, got>>
  BY DEF cleanup, sending
<1>2. \A i \in Id : chans'[i] = IF i = id[c] THEN None ELSE chans[i]
  BY DEF cleanup
<1>3. /\ sock \in [Conn -> {"new", "open", "closed", "gone"}]
      /\ pc[c] \notin {"insert", "return"}
      /\ pc[c] # "ready" => id[c] \notin Id
  <2>1. sock \in [Conn -> {"new", "open", "closed", "gone"}]
    BY DEF Inv, Basic, TypeOK
  <2>2. pc[c] \in {"fresh", "ready", "bare"}
    BY <1>1 DEF Inv, Basic, TypeOK
  <2>3. pc[c] # "ready" => id[c] = 0
    BY DEF Inv, Basic, TypeOK
  <2>4. 0 \notin Id
    BY Sizes DEF Id
  <2>5. QED
    BY <2>1, <2>2, <2>3, <2>4
<1>4. TypeOK'
  <2>1. chans' \in [Id -> Channel \cup {None}]
    BY DEF cleanup, Inv, Basic, TypeOK
  <2>2. QED
    BY <1>1, <1>3, <2>1 DEF Inv, Basic, TypeOK
<1>5. CountOK' /\ GotOK' /\ InOrder'
  <2>1. Counted' = Counted
    BY <1>1 DEF Counted
  <2>2. QED
    BY <1>1, <2>1 DEF CountOK, GotOK, InOrder, Inv, Basic
<1>6. ASSUME ~env.race PROVE Serial'
  <2>1. Serial
    BY <1>6 DEF Inv
  <2>2. Numbered'
    BY <1>1, <2>1 DEF Serial, Numbered, Opening
  <2>3. Owned'
    <3> SUFFICES ASSUME NEW i \in Id, chans'[i] # None
                 PROVE  i <= dwCount' /\ \E d \in Conn : Owns(d, i)'
      BY DEF Owned
    <3>1. i # id[c] /\ chans'[i] = chans[i] /\ chans[i] # None
      BY <1>2
    <3>2. PICK d \in Conn : Owns(d, i)
      BY <2>1, <3>1 DEF Serial, Owned
    <3>3. d # c
      BY <1>3, <3>1, <3>2 DEF Owns
    <3>4. Owns(d, i)'
      BY <1>1, <1>3, <3>1, <3>2, <3>3 DEF Owns
    <3>5. QED
      BY <1>1, <2>1, <3>1, <3>4 DEF Serial, Owned
  <2>4. OnePerFile'
    BY <1>2, <2>1 DEF Serial, OnePerFile
  <2>5. Cleared'
    <3>1. \A d \in Conn : pc[c] = "ready" /\ pc[d] = "return" => id[c] < dwCount
      BY <1>3, <2>1 DEF Serial, Numbered
    <3>2. \A d \in Conn : pc[d] = "return" => id[c] # dwCount
      BY <1>3, <2>1, <3>1, Sizes DEF Inv, Basic, TypeOK, Serial, Cleared
    <3>3. QED
      BY <1>1, <1>2, <2>1, <3>2 DEF Serial, Cleared
  <2>6. LatestHas'
    <3> SUFFICES ASSUME NEW d \in Conn, Latest(d)', sock'[d] \in {"open", "closed"}
                 PROVE  id'[d] \in Id /\ chans'[id'[d]] # None
                        /\ chans'[id'[d]].file = ask'[d].file
      BY DEF LatestHas
    <3>1. d # c /\ sock[d] \in {"open", "closed"} /\ Latest(d) /\ pc[d] = "ready"
      BY <1>1, <1>3 DEF Latest
    <3>2. id[d] \in Id /\ chans[id[d]] # None /\ chans[id[d]].file = ask[d].file
      BY <2>1, <3>1 DEF Serial, LatestHas
    <3>3. id[d] # id[c]
      BY <1>3, <2>1, <3>1, <3>2 DEF Serial, Numbered
    <3>4. QED
      BY <1>1, <1>2, <3>2, <3>3
  <2>7. QED
    BY <2>2, <2>3, <2>4, <2>5, <2>6 DEF Serial
<1>7. QED
  BY <1>1, <1>4, <1>5, <1>6 DEF Inv, Basic

LEMMA ArriveInv ==
    ASSUME Inv, NEW i \in Id, NEW b \in Blocks!Block, Arrive(i, b) PROVE Inv'
<1>1. UNCHANGED <<env, dwCount, nCount, sock, pc, ask, key, id,
                  noSent, noToSend, got>>
  BY DEF Arrive
<1>2. SameFiles(chans, chans')
  <2>1. chans \in [Id -> Channel \cup {None}] /\ chans[i] # None
    BY DEF Inv, Basic, TypeOK, Arrive
  <2>2. chans[i] \in Channel
    BY <2>1
  <2>3. /\ chans[i].file \in File
        /\ chans[i].tab \in [Blocks!Block -> Blocks!Status]
    BY <2>2 DEF Channel
  <2> DEFINE new == [chans[i] EXCEPT !.tab = [chans[i].tab EXCEPT ![b] = "ARRIVED"]]
  <2>4. [chans[i].tab EXCEPT ![b] = "ARRIVED"] \in [Blocks!Block -> Blocks!Status]
    BY <2>3 DEF Blocks!Status
  <2>5. new \in Channel /\ new.file = chans[i].file
    BY <2>2, <2>3, <2>4 DEF Channel
  <2>6. chans' = [chans EXCEPT ![i] = new]
    BY DEF Arrive
  <2>7. QED
    BY <2>1, <2>5, <2>6, NoneAssumption DEF SameFiles
<1>3. TypeOK'
  BY <1>1, <1>2 DEF Inv, Basic, TypeOK, SameFiles
<1>4. CountOK' /\ GotOK' /\ InOrder'
  <2>1. Counted' = Counted
    BY <1>1 DEF Counted
  <2>2. QED
    BY <1>1, <2>1 DEF CountOK, GotOK, InOrder, Inv, Basic
<1>5. ~env.race => Serial'
  BY <1>1, <1>2, SameSerial DEF Inv
<1>6. QED
  BY <1>1, <1>3, <1>4, <1>5 DEF Inv, Basic

LEMMA NextInv == Inv /\ [Next]_vars => Inv'
<1> SUFFICES ASSUME Inv, [Next]_vars PROVE Inv'
  OBVIOUS
<1>1. CASE UNCHANGED vars
  <2>1. Basic' /\ InOrder'
    BY <1>1 DEF vars, Inv, Basic, TypeOK, CountOK, Counted, GotOK, InOrder
  <2>2. ~env.race => Serial'
    BY <1>1 DEF vars, Inv, Serial, Numbered, Opening, Owned, Owns, OnePerFile,
                Cleared, LatestHas, Latest
  <2>3. QED
    BY <1>1, <2>1, <2>2 DEF vars, Inv
<1>2. ASSUME NEW c \in Conn,
             \/ onReceive(c) \/ Refuse(c)
             \/ OpenRemove(c) \/ OpenFails(c) \/ OpenCount(c) \/ OpenInsert(c)
             \/ OpenReturn(c) \/ Finish(c) \/ onConnect(c) \/ cleanup(c)
             \/ \E k \in 0 .. SendMax : onSend(c, k)
      PROVE  Inv'
  BY <1>2, ReceiveInv, RefuseInv, RemoveInv, FailsInv, CountInv, InsertInv,
     ReturnInv, SendInv, CloseInv, CleanupInv
<1>3. ASSUME NEW i \in Id, NEW b \in Blocks!Block, Arrive(i, b) PROVE Inv'
  BY <1>3, ArriveInv
<1>4. QED
  BY <1>1, <1>2, <1>3 DEF Next

LEMMA SpecInv == Spec => []Inv
BY InitInv, NextInv, PTL DEF Spec, SafeSpec

-----------------------------------------------------------------------------
(* The types hold for any number of connections: OpenSource never gives    *)
(* more numbers than there are connections, even when openings overlap;    *)
(* and what is left to send is never negative, wherever the ranges that    *)
(* are asked for start and however much of a read the socket takes.        *)
THEOREM TypeCorrect == Spec => []TypeOK
<1>1. Inv => TypeOK
  BY DEF Inv, Basic
<1>2. QED
  BY <1>1, SpecInv, PTL

(* A player gets the blocks from where it has asked, in order and without  *)
(* a gap, and of its own file when openings do not overlap: onSend counts  *)
(* what the socket has taken, and ids are of one connection each.          *)
THEOREM InOrderHolds == Spec => []InOrder
<1>1. Inv => InOrder
  BY DEF Inv
<1>2. QED
  BY <1>1, SpecInv, PTL

(* The connection that opened its file last has its channel until it is    *)
(* cleaned up, whatever the others do.                                     *)
THEOREM LatestHasChannelHolds == Spec => []LatestHasChannel
<1>1. Inv => LatestHasChannel
  BY DEF Inv, Serial, LatestHas, LatestHasChannel, ChannelsOf
<1>2. QED
  BY <1>1, SpecInv, PTL

(* Every channel belongs to a handler that will close it; no file has two. *)
THEOREM NoChannelLeftBehindHolds == Spec => []NoChannelLeftBehind
<1>1. Inv => NoChannelLeftBehind
  BY DEF Inv, Serial, Owned, Owns, OnePerFile, NoChannelLeftBehind, ChannelsOf
<1>2. QED
  BY <1>1, SpecInv, PTL

-----------------------------------------------------------------------------
LEMMA StoreBlock == Store!Block = Blocks!Block /\ Blocks!Block \subseteq Nat
  BY StreamAssumption DEF Store!Block, Blocks!Block

(* What RequestSegment does to a table is a read of the store.             *)
LEMMA RequestedShown ==
    ASSUME NEW tab \in [Blocks!Block -> Blocks!Status],
           NEW first \in 0 .. NumBlocks, NEW num \in Nat,
           num = IF first + Ahead > NumBlocks THEN NumBlocks - first ELSE Ahead,
           NEW b \in Blocks!Block
    PROVE  LET old == IF b \in Store!Kept(first, num) THEN Shown(tab, b) ELSE -1
           IN  Shown(Requested(tab, first), b) =
                  IF b \in first .. (first + num - 1) /\ old = -1 THEN -2 ELSE old
<1> DEFINE kept == first > Window => first - Window <= b /\ b <= first + num
           t == IF first > Window
                THEN Blocks!RemoveBlock(tab, first - Window, first + num) ELSE tab
           old == IF b \in Store!Kept(first, num) THEN Shown(tab, b) ELSE -1
<1>1. b \in Nat /\ first \in Nat /\ Window \in Nat /\ NumBlocks \in Nat
  BY StoreBlock, StreamAssumption
<1>2. b \in Store!Kept(first, num) <=> kept
  BY <1>1, StoreBlock DEF Store!Kept
<1>3. t[b] = IF kept THEN tab[b] ELSE "ABSENT"
  BY <1>1 DEF Blocks!RemoveBlock
<1>4. Requested(tab, first) = Blocks!InsertShouldBlock(t, first, num)
  BY <1>1 DEF Requested
<1> HIDE DEF t, kept
<1>5. Requested(tab, first)[b] =
         IF b \in first .. (first + num - 1) /\ t[b] = "ABSENT" THEN "NONE" ELSE t[b]
  BY <1>4 DEF Blocks!InsertShouldBlock
<1>6. old = -1 <=> t[b] = "ABSENT"
  BY <1>1, <1>2, <1>3 DEF Shown
<1>7. CASE b \in first .. (first + num - 1) /\ old = -1
  <2>1. Requested(tab, first)[b] = "NONE"
    BY <1>5, <1>6, <1>7
  <2>2. QED
    BY <2>1, <1>7 DEF Shown
<1>8. CASE ~(b \in first .. (first + num - 1) /\ old = -1)
  <2>1. Requested(tab, first)[b] = IF kept THEN tab[b] ELSE "ABSENT"
    BY <1>3, <1>5, <1>6, <1>8
  <2>2. Shown(Requested(tab, first), b) = old
    BY <2>1, <1>2 DEF Shown
  <2>3. QED
    BY <2>2, <1>8
<1>9. QED
  BY <1>7, <1>8

(* It reads within the file, or not at all.                                *)
LEMMA RequestReads ==
    ASSUME TypeOK, NEW i \in Id, chans[i] # None, NEW first \in Nat,
           chans' = RequestSegment(chans, i, first), chans' # chans
    PROVE  \E r \in InFile : Store!Read(i, r[1], r[2])
<1> DEFINE num == IF first + Ahead > NumBlocks THEN NumBlocks - first ELSE Ahead
           After == [b \in Blocks!Block |->
              LET old == IF b \in Store!Kept(first, num) THEN Seen[i][b] ELSE -1
              IN  IF b \in first .. (first + num - 1) /\ old = -1 THEN -2 ELSE old]
<1>1. /\ chans[i] \in Channel /\ chans[i].tab \in [Blocks!Block -> Blocks!Status]
      /\ chans = [j \in Id |-> chans[j]]
  <2>1. chans \in [Id -> Channel \cup {None}]
    BY DEF TypeOK
  <2>2. chans[i] \in Channel
    BY <2>1
  <2>3. QED
    BY <2>1, <2>2 DEF Channel
<1>2. \A j \in Id : chans'[j] = IF j = i
                     THEN [chans[j] EXCEPT !.tab = Requested(@, first)] ELSE chans[j]
  BY DEF RequestSegment
<1>3. first \in 0 .. NumBlocks
  <2>1. SUFFICES ASSUME first > NumBlocks PROVE FALSE
    BY StreamAssumption
  <2>2. [chans[i] EXCEPT !.tab = Requested(@, first)] = chans[i]
    BY <2>1, <1>1 DEF Requested, Channel
  <2>3. chans' = [j \in Id |-> chans[j]]
    BY <1>2, <2>2 DEF RequestSegment
  <2>4. QED
    BY <1>1, <2>3
<1>4. num \in Nat /\ <<first, num>> \in InFile
  BY <1>3, StreamAssumption DEF InFile
<1>5. chans'[i] # None /\ chans'[i].tab = Requested(chans[i].tab, first)
  <2>1. chans'[i] = [chans[i] EXCEPT !.tab = Requested(@, first)]
    BY <1>2
  <2>2. chans'[i].tab = Requested(chans[i].tab, first)
    BY <2>1, <1>1 DEF Channel
  <2>3. chans'[i] \in Channel
    BY <2>1, <1>1, RequestedType DEF Channel
  <2>4. QED
    BY <2>2, <2>3, NoneAssumption
<1> HIDE DEF num
<1>6. \A b \in Blocks!Block : Seen'[i][b] = After[b]
  <2> SUFFICES ASSUME NEW b \in Blocks!Block PROVE Seen'[i][b] = After[b]
    OBVIOUS
  <2>1. Seen[i][b] = Shown(chans[i].tab, b)
    BY DEF Seen
  <2>2. Seen'[i][b] = Shown(Requested(chans[i].tab, first), b)
    BY <1>5 DEF Seen
  <2>3. QED
    BY <2>1, <2>2, <1>1, <1>3, <1>4, RequestedShown DEF num
<1>7. Seen' = [Seen EXCEPT ![i] = After]
  <2> HIDE DEF After
  <2>1. Seen'[i] = [b \in Blocks!Block |-> After[b]]
    BY <1>6 DEF Seen
  <2>2. [b \in Blocks!Block |-> After[b]] = After
    BY DEF After
  <2>3. \A j \in Id : j # i => Seen'[j] = Seen[j]
    BY <1>2 DEF Seen
  <2>4. Seen = [j \in Id |-> Seen[j]] /\ Seen' = [j \in Id |-> Seen'[j]]
    BY DEF Seen
  <2> HIDE DEF Seen
  <2>5. QED
    BY <2>1, <2>2, <2>3, <2>4
<1>8. Store!Read(i, first, num)
  BY <1>7, StoreBlock DEF Store!Read, Seen
<1>9. QED
  BY <1>4, <1>8

LEMMA ArriveArrives ==
    ASSUME TypeOK, NEW i \in Id, NEW b \in Blocks!Block, Arrive(i, b)
    PROVE  Store!Arrive(i, b)
<1>1. /\ chans[i] \in Channel /\ chans[i].tab \in [Blocks!Block -> Blocks!Status]
      /\ chans[i] # None /\ chans[i].tab[b] = "NONE"
  BY DEF Arrive, TypeOK, Channel
<1>2. \A j \in Id : chans'[j] = IF j = i
                     THEN [chans[j] EXCEPT !.tab[b] = "ARRIVED"] ELSE chans[j]
  BY DEF Arrive, TypeOK
<1>3. chans'[i] # None /\ chans'[i].tab = [chans[i].tab EXCEPT ![b] = "ARRIVED"]
  <2>1. chans'[i] = [chans[i] EXCEPT !.tab[b] = "ARRIVED"]
    BY <1>2
  <2>2. chans'[i].tab = [chans[i].tab EXCEPT ![b] = "ARRIVED"]
    BY <2>1, <1>1 DEF Channel
  <2>3. chans'[i] \in Channel
    BY <2>1, <1>1 DEF Channel, Blocks!Status
  <2>4. QED
    BY <2>2, <2>3, NoneAssumption
<1>4. Seen[i][b] = -2
  BY <1>1 DEF Seen, Shown
<1>5. \A x \in Blocks!Block : Seen'[i][x] = IF x = b THEN b ELSE Seen[i][x]
  BY <1>1, <1>3 DEF Seen, Shown
<1>6. Seen'[i] = [Seen[i] EXCEPT ![b] = b]
  BY <1>5 DEF Seen
<1>7. Seen' = [Seen EXCEPT ![i][b] = b]
  <2>1. \A j \in Id : j # i => Seen'[j] = Seen[j]
    BY <1>2 DEF Seen
  <2>2. Seen = [j \in Id |-> Seen[j]] /\ Seen' = [j \in Id |-> Seen'[j]]
    BY DEF Seen
  <2> HIDE DEF Seen
  <2>3. QED
    BY <2>1, <2>2, <1>6
<1>8. QED
  BY <1>4, <1>7 DEF Store!Arrive, Seen

(* The service and the transfer fit: what players do to a channel is a     *)
(* read within the file or the arrival of a wanted block, for any window   *)
(* and any range asked for (CChannel::RequestSegment).                     *)
THEOREM KeepsToStoreHolds == Spec => KeepsToStore
<1>1. ASSUME TypeOK, [Next]_vars, NEW i \in Id, chans[i] # None,
             chans'[i] \notin {None, chans[i]}
      PROVE  \/ \E b \in Store!Block : Store!Arrive(i, b)
             \/ \E r \in InFile : Store!Read(i, r[1], r[2])
  <2> DEFINE Goal == \/ \E b \in Store!Block : Store!Arrive(i, b)
                     \/ \E r \in InFile : Store!Read(i, r[1], r[2])
  <2>1. ASSUME NEW j, NEW first \in Nat, chans' = RequestSegment(chans, j, first)
        PROVE  Goal
    <3>1. j = i
      BY <1>1, <2>1 DEF RequestSegment
    <3>2. QED
      BY <1>1, <2>1, <3>1, RequestReads
  <2>2. ASSUME NEW c \in Conn, OpenRemove(c) \/ cleanup(c)
        PROVE  Goal
    BY <1>1, <2>2 DEF OpenRemove, cleanup
  <2>3. ASSUME NEW c \in Conn, OpenInsert(c)
        PROVE  Goal
    BY <1>1, <2>3 DEF OpenInsert, TypeOK
  <2>4. ASSUME NEW c \in Conn, OpenReturn(c)
        PROVE  Goal
    <3>1. ask[c].start \in Nat
      BY <1>1, <2>4, StreamAssumption DEF OpenReturn, TypeOK
    <3>2. QED
      BY <2>1, <2>4, <3>1 DEF OpenReturn
  <2>5. ASSUME NEW c \in Conn, NEW k \in 0 .. SendMax, onSend(c, k)
        PROVE  Goal
    <3>1. Position(c) \in Nat
      <4>1. pc[c] = "ready" /\ noSent[c] \in Nat
        BY <1>1, <2>5, StreamAssumption DEF onSend, Send, TypeOK
      <4>2. ask[c].start \in Nat
        BY <1>1, <4>1, StreamAssumption DEF TypeOK
      <4>3. QED
        BY <4>1, <4>2 DEF Position
    <3>2. chans' = chans \/ chans' = RequestSegment(chans, id[c], Position(c))
      BY <2>5 DEF onSend, Send, AskAhead
    <3>3. QED
      BY <1>1, <2>1, <3>1, <3>2
  <2>6. ASSUME NEW j \in Id, NEW b \in Blocks!Block, Arrive(j, b)
        PROVE  Goal
    <3>1. j = i
      BY <1>1, <2>6 DEF Arrive, TypeOK
    <3>2. QED
      BY <1>1, <2>6, <3>1, ArriveArrives, StoreBlock
  <2>7. CASE chans' = chans
    BY <1>1, <2>7
  <2>8. QED
    BY <1>1, <2>2, <2>3, <2>4, <2>5, <2>6, <2>7
    DEF Next, vars, onReceive, Refuse, OpenFails, OpenCount, Finish, onConnect, opening
<1>2. TypeOK /\ [Next]_vars =>
         [\A i \in Id : chans[i] # None /\ chans'[i] \notin {None, chans[i]} =>
            \/ \E b \in Store!Block : Store!Arrive(i, b)
            \/ \E r \in InFile : Store!Read(i, r[1], r[2])]_chans
  BY <1>1
<1>3. QED
  BY <1>2, TypeCorrect, PTL DEF Spec, SafeSpec, KeepsToStore
=============================================================================
