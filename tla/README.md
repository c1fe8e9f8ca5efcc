# p2pcenter in TLA+

p2pcenter is a file sharing network for Windows. Clients (`P2PNetwork`, a DLL)
fetch the blocks of a file from one another over UDP; an order server
(`P2POrderServer`) tells them over TCP who else has the file open; a service on
each client (`P2PService`) hands the file to media players over local HTTP.
This directory models the parts of it that decide whether a reader gets his
file, checks the models with TLC and proves their most important properties with
TLAPS. Paths are relative to the repository's `src/`; `N/` stands for
`source/P2PNetwork/`, `S/` for `source/P2POrderServer/` and `P/` for
`source/P2PService/`.

## 1. The system

### Components

| part | source | state | operations | modelled in |
|---|---|---|---|---|
| block table | `N/P2PPacketMgr`, `N/P2PPacket` | per wanted block: status, time of the last request, buffer | insert, arrive, sweep of timeouts, drop, areas, list | `P2PPacketMgr` |
| peer table | `N/P2PPeerMgr`, `N/P2PPeer` | per peer: its areas, the blocks it asked for, addresses, traffic | query areas, share a run of blocks out, queue answers, handshake | `P2PTransfer` |
| channel, channel manager | `N/Channel`, `N/ChannelMgr` | the open files of a process | `Loop`, UDP handlers, `RequestSegment`, `ReadSegment`, `AddPeer`, `DeletePeer` | `P2PTransfer`, `ChannelLoop`, `HttpStream` |
| UDP thread | `N/UdpClient` | list of commands to send | drain the socket, `Loop`, send; start and stop | `P2PTransfer`, `ChannelLoop`, `ClientLife` |
| client session | `N/P2PNetwork`, `N/P2PApp` | the TCP link, user and session id, list of requests | connect, release, `OpenSource`, `CloseSource`, handle notices | `Tracker`, `ClientLife`, `HttpStream` |
| clients and channels of the server | `S/ClientMgr`, `S/Channel`, `S/Client` | the table of clients; per channel its users and sources | login, logout, peers, lost link, heartbeat, shoot-to | `Tracker`, `OrderLocks` |
| server application | `S/OrderApp`, `S/UdpServer` | list of answers to send | dispatch, sending thread | `Tracker`, `OrderLocks` |
| chat rooms | `S/VideoChatServer` | users, streams, subscriptions | log in and out, subscribe, deliver | `VideoChat`, `ChatRoom` |
| local HTTP service | `P/` | per connection: channel, blocks sent; is the client connected | open, read or wait, request ahead, clean up; connect again | `HttpStream`, `ClientLife` |
| thread library | `common/thread` | thread handle, stop event | start, wait for stop | `ClientLife` |
| containers | `common/misc` | a locked map | insert, remove | where a key in use matters: `HttpStream`, `VideoChat` |
| wire formats | `source/P2PCommon` | none | create and parse commands | what the models need: truncated areas, checksum |
| upload cache | `N/CacheFile` | blocks read from disk, with a time to live | read, push, delete the old | no |
| database, HTML pages | `S/MSSQLStore`, `S/ChannelMgr` | mirror of the channel table | insert, delete, write pages | only under which lock: `OrderLocks` |
| publishing client | `source/P2POrderClient` | the files of a database table | open and close sources in a loop | no, as `OpenSource` and `CloseSource` |
| transfer monitor, configuration, browser control, player window | `N/TransMonitor*`, `N/Config`, `P2PWebAX`, `P2PIEClient` | | | no: user interface and reporting |
| strings, sockets, files, database access | `common/misc`, `network`, `io`, `log`, `database` | | | no: text processing and wrappers |
| libtorrent, zlib, jrtplib, MySQL | `Bittorrent`, `inc/jrtp`, `database/mysql` | | | no: third party; the program's own code calls libtorrent nowhere |

### How they interact

A client process has a service thread (`P/P2PService.cpp`: once a second it
looks whether the client is connected, and if not, releases the network object
and connects with a new one), a thread and a handler per HTTP connection, and
in the network object a sending thread for requests and a UDP thread
(`CUdpClient::ThreadProcMain`: drain the socket, run the handlers, call
`CChannelMgr::Loop`, send). The TCP library calls `OnConnected`,
`OnDisconnected` and `OnReceivedData` on a thread of its own. They share
`g_pNetwork` and the channel table and hold its lock, `GetCritSec()` of the
channel manager, from their first look at a channel to their last: every
handler and every pass of `Loop` over one channel is atomic for the others, but
for `OpenSource`, which inserts its channel after it has sent its requests and
counts its ids without a lock.

The server's library calls `onRecvData` for the commands of a link one after the
other, and for different links possibly on several threads. Three locks order
the handlers: that of the channel table, that of the table of clients, that of
the list of commands to send. What they have to say goes through this list and
one sending thread, which also refreshes the database. The chat server has one
lock only, that of its table of clients.

The order server never touches a block and a transfer never asks the server:
they meet in `AddPeer` and `DeletePeer`, which are the environment of
`P2PTransfer` and the outcome of `Tracker`. A report may be out of date when it
is read, so in `P2PTransfer` any peer may be named and any taken back at any
time. A player never sees a datagram: he meets the transfer in `RequestSegment`
and `ReadSegment`, and what he may rely on there is `BlockStore`. The interface
is checked and proved from both sides: `P2PTransfer` implements `BlockStore`
(`ImplementsStore`), and what `HttpStream` does to a channel that stays open is a
read within the file, which is what `TransferAssumption` asks of `Reads`, or an
arrival (`KeepsToStore`).

### What is hard about it, and what makes it correct

| part | hard behaviour | correct when |
|---|---|---|
| block table | late, repeated, damaged answers; timeouts racing answers; the reader jumps | an arrived block holds the file's contents and stays until the reader moves away |
| peer table | the areas of a peer are as old as its last report; one run shared out over several peers | nobody is promised what is not there; no block is asked of two peers; a gone peer does not starve the reader |
| shared clocks | the interval timers are static variables, one for all channels | every channel repeats its requests |
| tracker | logins, logouts, lost links and two-phase handlers interleave; heartbeats come late; a file is opened again | users of a channel find each other, and nobody is kept as a user or a peer after he left |
| server's locks | three locks, nested, taken by several threads | no thread waits in a circle; no table is changed while another thread uses it |
| chat rooms | subscribers that leave, are replaced, or lose their link; lists of link numbers | who has subscribed to a login gets its frames, and only logins over a link of such a one do besides |
| HTTP service | a player seeks: two connections for one file; sends in pieces; requests ahead on every second send | a player gets his data in order, the latest connection keeps its channel, none is left behind, a stream ends |
| network object | it is deleted under four kinds of threads; waits with and without timeouts; late answers | nobody outlives it, no callback finds it gone, the service tries again |

The list `hazards` of `PROJECT.json` names each of these at its line.

## 2. The modules

| module | models | state | actions |
|---|---|---|---|
| `P2PPacketMgr` | class `CP2PPacketMgr` | none (operators on tables) | |
| `P2PTransfer` | one channel on every node and the UDP network | `tab age buf` the block tables, `peers areas need` the peer tables, `qage sage` the two interval timers, `up`, `net` | `RequestSegment`, `AddPeer`, `DeletePeer`, `ViewerLoop`, `SourceLoop`, the four handlers, loss, damage, duplication, `Leave`, `Tick` |
| `BlockStore` | the abstract promise of a transfer to its readers | `store` | `Read`, `Arrive` |
| `ChannelLoop` | `CChannelMgr::Loop` over several channels of a process | the tables of the channels, where `Loop` is, the two static clocks | `EnterLoop`, `Loop`, arrivals, losses, `CloseSource`, `Tick` |
| `Tracker` | the order server and the sessions of its clients, for one file | the clients' links, channels and peer tables; queues both ways; the server's tables; half done handlers | see below |
| `Roster` | the abstract promise of the order server to those who have a file open | users, sources, who can be named, who knows whom | `Listen`, `Forget`, `Login`, `Leave`, `Ask`, `Answer`, `Name`, `Unname` |
| `OrderLocks` | the locks of every handler of the order server | per thread: the handler, the point in it, the locks held | `Begin`, `Continue`, `Return`, `Unlock`, `Enter` |
| `VideoChat` | the chat server | links, the table of clients, the lists of subscribers, sessions, what was sent last | one per handler |
| `ChatRoom` | the abstract promise of the chat server | logins, subscriptions, what ended logins left on their connections, what was sent last | `Login`, `Leave`, `Subscribe`, `Unsubscribe`, `Stream`, `Heartbeat` |
| `HttpStream` | the local HTTP service over the channels of one process | the channels and their tables, the counters, per connection: socket, place, request, id, sent and left, received | `onReceive`, `Refuse`, the four steps of `OpenSource` and its failure, `onSend`, `Finish`, `onConnect`, `cleanup`, `Arrive` |
| `ClientLife` | the life of a network object, with `CKThread` | where the service's thread is, `g_pNetwork`, the two threads and their events, the link, the waits, commands and channels | the statements of `InitModule`, `Connect` and `ReleaseModule`, the threads' loops, the library's calls |
| `MCTransfer`, `MCTracker`, `MCHttp`, `MCClientLife` | instances for TLC | | |
| `P2PTransfer_proofs`, `ChannelLoop_proofs`, `Tracker_proofs`, `TrackerPairs_proofs`, `OrderLocks_proofs`, `VideoChat_proofs`, `HttpStream_proofs`, `ClientLife_proofs` | theorems | | |

**P2PPacketMgr.** A block is `ABSENT` (no entry in `m_map`), `NONE`,
`REQUESTED` or `ARRIVED`. `Age` is the time since the last request, saturated
just above the timeout, so that the clock has finitely many values. Intervals
keep the source's ends: `RemoveBlock` takes a closed interval, an area is closed,
`GetShouldBlock` returns the first run of blocks with nothing requested and only
that one.

**P2PTransfer.** A datagram is a record; `net` is a set, which already
reorders; a datagram may stay behind when it is taken, which duplicates it. One
pass of `Loop` is one action and does everything the pass does: the queries of
areas, the walk over the peers in the order of `GetSortBySpeed` (`Walk`: where
the run of blocks continues when it reaches each peer), the update of the table,
the sweep, the queued answers. `Damage` replaces the contents of a block and
leaves the checksum; the one byte in 933 that `CalcCheckSum` does not cover
(`N/P2PApp.cpp:295`) is left out.

**ChannelLoop** narrows the transfer to one process with several channels, and
each channel to its source, because the question is about the two static
variables (`N/P2PPacketMgr.cpp:121`, `N/P2PPeerMgr.cpp:16`). The clock may move
between two channels of one pass.

**Tracker.** `OpenSource` removes an earlier channel of the process (its
destructor sends LOGOUT_CHANNEL), sends LOGIN_CHANNEL and GETPEERS, and only
then enters the new channel (`OpenInsert`). On the server, a handler that keeps
the channel table's lock throughout is one action (`OnLoginChannel`,
`OnLogoutChannel`, with all their notices); `OnGetPeers` and `LinkClose` are two
each, split where they change locks: `OnGetPeers` copies the users, and
`AnswerGetPeers` later matches the copy with the table of clients; `LinkClose`
takes the user out of the channel and tells the others, `RemoveClient` takes
him out of the table of clients. While a `LinkClose` is under way it keeps the
channel table's lock (`ChannelsUnlocked`). A channel whose last source left is
removed with the users it still has.

The variable `env`, which never changes, describes the environment rather than
the code; one run covers several. `workers` is how many threads of the TCP
library call handlers; the library is not in the repository. `lateUdp` says
whether a client may open a file before its first UDP heartbeat reached the
server. `slowOpen` says whether an answer may overtake the last step of
`OpenSource`, a few instructions against a round trip. With `slowOpen` a list
of peers can be dropped and a pair of users can miss each other; with `lateUdp`
the later of two users can lack the earlier one, which is why `NoPairMissed`
asks for one direction only. `opens` bounds how often each client opens the file.

**OrderLocks** leaves the data out and keeps what is held where. A handler is a
sequence of points, each with the locks held, the tables read and the tables
changed there, and whether the code may return from it. On the way from one
point to the next a thread drops the locks the next one does not need and then
takes the one it lacks. A point the code skips for some data is passed, and a
loop is passed through once, as each round holds and touches the same. No
handler takes a lock it holds already, so that the recursion of a critical
section plays no part. `TellsUnlocked` is the point in `LinkClose`
(`S/ClientMgr.cpp:432`) where `NotifyLogoutChannel` reads the table of clients
without its lock.

**VideoChat.** Every handler runs under one lock and is one action. Tables are
keyed by link numbers. A link may carry one login after another
(`S/VideoChatServer.cpp:162`), and the number of a closed link may return.
Logins and subscriptions are named by sessions, but the frames that are sent on
name their sender by his link number (`S/VideoChatServer.cpp:138`): `Stream`
has it so. Nothing in the repository reads that field.
`m_TargetSubscribes` and `m_dwLastActive` are written and never read, and are
left out.

**HttpStream.** The unit of data is a block. `OpenSource` is four steps,
because it uses `dwCount` without a lock: remove the file's earlier channel,
read the counter, write it and insert, read it again and return. The table of a
channel is that of `P2PPacketMgr`, whose operators are used (instance
`Blocks`). A send takes `k` of the blocks that were read, zero included. A range
that starts behind the end of the file starts at it (`RangeStart`), so that
nothing is left to send and the connection ends at once. A request without a
hash is refused by closing the socket (`Refuse`). One without a node name gets
no channel (`OpenFails`): its handler is `bare`, has nothing to read from, and
polls until its player goes, or ends at once when nothing is to be sent. `env`
says whether openings may overlap (`race`) and which files are asked for
(`files`). `nCount` is static, and shared: with two files being played, one of
two players whose sends strictly alternate never asks ahead, so `StreamEnds` is
stated for one file.

**ClientLife.** `main` is where the service's thread is; every statement of
`InitModule`, `Connect`, `ReleaseModule`, `StartThread` and `WaitForStop` that
another thread can see is a step. The UDP thread tests `g_pNetwork` and then uses
it, in two steps; if it is cleared in between, the process ends (`fault`), which
the code rules out nowhere. A command pushed while there is no connection
is dropped (`PushRequestCmd`), the LOGOUTs of a lost connection and the login of
one that is lost again at once among them. The TCP library is external: one call at a
time, none after `releaseConnection` has returned. `env.reports` says whether
`releaseConnection` itself calls `OnDisconnected`, `env.prompt` whether the
login is sent within the ten seconds that `Connect` waits for its answer.
`CreateThread` succeeds, and players are gone when the object is released.

### Abstract specifications

`BlockStore` is what a reader may rely on, without peers, datagrams or time: a
block is missing, wanted, or there with the contents it has in the file; asking
makes it wanted, and only a wanted block arrives; moving on drops what is more
than `Window` behind. `P2PTransfer` implements it under the mapping `Store`
(the property `ImplementsStore`, checked and proved). `HttpStream` uses it under
the mapping of its own channels (`KeepsToStore`, likewise).

`Roster` is the tracker without links, queues and messages: a login or a
departure is known to every other user who has the file open at the moment it
happens, and whoever asks is later told of the users noted down for him. `Tracker`
implements it whatever `env` says (`TrackerImplementsRoster`, proved): who listens
is who will not drop a notice, and whom he knows is whom he will know when the
notices in his queue are received. That a list can name one who has left since
(`NoGhosts`) is part of the promise: `Ask` and `Answer` are two steps here too.

`ChatRoom` knows logins and subscriptions, and of links only over which of them
a login came: a frame goes to exactly those who have a subscription to the login
that sends it. A subscription ends with one of the two logins or when it is taken
back; one whose owner has ended stays behind on his link, until the friend sends a
frame, and the next login over that link inherits it. `VideoChat` implements it
(`ImplementsRoom`, checked and proved): a login is an entry of the table, a
subscription a link number on a list that has an entry, one left behind a number
without. That a login inherits is what the code does, not what its comment says:
`OnlyWhoSubscribed` states the latter and is violated. `NobodyIsMissed` says
without reference to the room what subscribers rely on: each gets every frame.

## 3. The runs

| run | instance | properties | result |
|---|---|---|---|
| `transfer_safety` | a new viewer who knows a peer that is gone and has yet to meet the source; 3 blocks, 2 per request, window 1, 2 datagrams in flight | `TypeOK Integrity ArrivedIsKept OneRequestPerBlock ImplementsStore` | hold |
| `transfer_promises` | two viewers and a source, 2 blocks, 1 datagram in flight | `PromisesAreKept NoBlockSkipped ReportsFromFirst` | hold |
| `transfer_live` | a viewer, a source, 2 blocks, fair links; a gone peer that the viewer has met, with all it had, or has not | `WantedArrives` | holds |
| `loop_two_channels` | two channels, the first may be closed | `TypeOK NoEarlyRetry FirstChannelIsServed` | hold |
| `loop_starved` | two channels that stay open | `TimedOutIsRetried` | **violated** |
| `tracker` | a source, two readers; one or two threads, opening once or up to twice, heartbeats and notices late or in time | `TypeOK UsersHaveItOpen UsersMeet NoPairMissed NoGhostsOfOneWorker` | hold |
| `tracker_ghost` | the same with two threads, each opens once | `NoGhosts` | **violated** |
| `order_locks` | two worker threads, the UDP thread, the sending thread, every handler | `TypeOK NoCircle ChannelsExclusive ClientsExclusiveButLinkClose` | hold |
| `video_chat` | 3 links, which carry any number of logins, 2 users, 3 logins | `TypeOK OneLoginPerUser ImplementsRoom NobodyIsMissed` | hold |
| `video_chat_again` | the same | `OnlyWhoSubscribed` | **violated** |
| `http_stream` | 2 connections; one file, two files, overlapping openings, requests that open nothing; 4 blocks | `TypeOK InOrder LatestHasChannel NoChannelLeftBehind KeepsToStore StreamEnds` | hold |
| `client_life` | all four environments | `TypeOK NobodyLeftBehind CallsFindNetwork SendsOverConnection ConnectedMeansServed StopIsHeard TriesAgain` | hold |

### Bounds, and why they are enough

* *Blocks of a transfer.* Three blocks with requests of two make a run that does
  not fit into one request and a gap between two arrived areas. A list of areas
  too long for its datagram would take more blocks than that: what `FitInReply`
  cuts off is covered by the proofs only (`ReportsFromFirstHolds`). The reader of
  `transfer_safety` asks for the whole file, jumps to the last block with an
  empty range, and to the end of the file: both jumps pass the window of one.
* *Time.* A timeout of 0 ticks still needs one `Tick` to pass (ages are compared
  with `>`), so answers come before, at and after the timeout.
* *Network.* Two datagrams in flight let a request and a late answer, or two
  requests of one `Loop`, coexist; in the liveness run twelve are never reached.
* *Reports of the tracker.* In the runs nobody who runs is taken back (`Gone` of
  `MCTransfer`), and in the liveness run nobody who has left is named
  (`Current`): TLC has not the time for more, and the queries to the absent would
  fill the network's bound. The theorems are about `Spec`, where any peer may be
  named or taken back.
* *Viewers.* Two viewers exchange promises both ways; a third would add only
  a second peer of the same kind.
* *Clients of the tracker.* Two clients are a pair that can miss each other; the
  third one is the bystander whose login and logout fall between the halves
  of another's handlers. One reopening is enough for an old LOGOUT to meet a new
  LOGIN; more change nothing, which the theorems about `Tracker` prove for
  their properties.
* *Threads of the server.* Three locks make a circle of at most three threads;
  four threads run. The theorems have any number.
* *Links of the chat server.* A user and his replacement take two links, the
  one who watches a third; three logins fill them, or have one link carry two
  of them while the third streams to it.
* *Connections.* A player that seeks is two connections to one file, which is
  what can take a channel away; two files are two independent players. Four
  blocks and a window of two let `RemoveBlock` drop a block behind the reader; a
  range starts at the beginning, within, at the end or behind it. A request ahead of
  three blocks with sends of one keeps the ratio that matters: every second send
  asks, so the request has to cover three sends (`StreamAssumption`); in the
  code it covers more than a thousand. The safety properties are proved for all
  values, `StreamEnds` is not.
* `ClientLife` is finite as it stands: its only constant is a set of at most
  four environments, and the run has all four. TLC's answer is
  complete; the proofs say the same, and why.

Deadlock is checked in the runs of `ChannelLoop` and `OrderLocks` (some thread
of the server can always go on). It is not in the others (`CHECK_DEADLOCK FALSE`):
opens are bounded and clients that have ended stay so in `Tracker`, all links
may be closed in `VideoChat`, in `HttpStream` all players may be gone, in `ClientLife`
the process may end; in the transfer the clock can always tick, so the check
would say nothing.

### Fairness

* `ThreadsRun` (`P2PTransfer`): the UDP thread of a node comes back to `Loop`
  again and again, time passes, and the tracker's reports arrive: who runs is
  named, who does not is taken back. The thread
  (`N/UdpClient.cpp:69`) calls `Loop` when no datagram has been waiting for a
  millisecond. Nodes send from `Loop` only, a bounded number of datagrams each
  time, and answer only what was asked, so such a pause comes unless the socket
  is kept busy all the time; the assumption excludes that overload. `LinkWorks`,
  for the links between a viewer and a source only: of the datagrams sent again
  and again one gets through, and again and again not too late. This is strong
  fairness, because loss and timeouts disable the delivery in between. No link
  between two viewers is fair.
* `ChannelLoop` assumes the same of its threads, that the clock moves
  also between two passes of `Loop` and not only in the middle of one, and that
  each source is reachable.
* `HttpStream`: the handlers' threads run, a player that stays takes data (a
  send that takes something comes), and a wanted block arrives, which is what
  `WantedArrives` says of the transfer for the nodes that run. Weak fairness is
  enough.
* `ClientLife`: threads run, and nothing else; no datagram, answer, connection or
  player has to come. The UDP thread is one fair action, so that it may receive
  datagrams for ever: `TriesAgain` then rests on `g_pNetwork` being cleared
  before the thread is waited for.

### What the violated runs show

* `loop_starved`: the clock of the sweep is one static variable
  (`N/P2PPacketMgr.cpp:121`). The channel that `Loop` visits first resets it, so
  the sweep of every other channel does not find its interval elapsed, unless it
  elapses in the middle of a pass: a request that is lost there stays `REQUESTED`
  until the first channel is closed, and its block is missing as long.
  `FirstChannelIsServed` is what remains true.
  Areas are queried by the first channel only, for the same reason.
* `tracker_ghost`: between the halves of `OnGetPeers` (`S/ClientMgr.cpp:264`)
  another user logs out or loses his link: the notice that he has left is queued
  before the list that still names him, and stays unheard. The reader keeps a
  peer that is not there. With one thread (`NoGhostsOfOneWorker`) it cannot
  happen, as long as nobody opens the file twice.
* `video_chat_again`: a user subscribes and logs out, or somebody else logs in
  over his link; the link's number stays on the lists
  (`S/VideoChatServer.cpp:239`), and the next login over it is on the list of the
  friend without having subscribed. Nobody who has subscribed is missed on that
  account (`NobodyIsMissed`), and it is the only way onto a list
  (`ImplementsRoom`).

Observations without a run of their own:

* when its last source leaves, a channel is removed with its readers
  (`S/ClientMgr.cpp:246`, "to be written" says the comment below it). They are
  not told and do not log in again; a source that returns founds a channel
  without them. This is why `UsersMeet` speaks of the channel's users only and
  `NoGhostsOfOneWorker` of one opening;
* a notice on its way while the user closes the file meets `assert( pChannel )`
  (`N/P2PNetwork.cpp:251`), which does not hold then;
* `SendGetSegment` asks a source also for blocks that a peer earlier in the walk
  has, behind a gap of its areas; the comment at `N/Channel.cpp:336` has the
  source as the last resort;
* a source reports one block more than its file has (`N/ChannelMgr.cpp:248`;
  `Advertised` in the model), which does no harm, because a viewer asks only for
  blocks of its own table;
* the HTTP service polls until its player goes on a connection whose channel a
  later one has taken, and on one whose request names no node and so has opened
  no channel (`N/P2PNetwork.cpp:116`);
* the frames that the chat server sends on name the sender by his link number,
  while subscriptions name him by his session (`S/VideoChatServer.cpp:138`, `:235`);
* a login that times out leaves the service believing it is connected, unless the
  library reports the connection that is released (`N/P2PApp.cpp:62`):
  `ConnectedMeansServed` is stated for a library that does.

## 4. What is proved

For every value of the constants, from the modules' named assumptions
(`PacketAssumption`, `TransferAssumption`, `LoopAssumption`,
`TrackerAssumption`, `ThreadsAssumption`, `ChatAssumption`, `StreamAssumption`,
`EnvironmentsAssumption` and `NoneAssumption`: sizes are naturals, the file has a
block, viewers are not sources, a reader stays within the file, the threads are different ones, `None`
is no entry of a table, viewers, sources, channels of a process and connections
are finitely many) and nothing else:

| theorem | module | says |
|---|---|---|
| `TypeCorrect` | `P2PTransfer_proofs` | `Spec => []TypeOK` |
| `IntegrityHolds` | | an arrived block holds the contents of the file |
| `ArrivedIsKeptHolds` | | only the reader's own move drops an arrived block |
| `PromisesAreKeptHolds` | | what a viewer reported, queued or announced is there, while nobody drops blocks |
| `TransferImplementsStore` | | `P2PTransfer` implements `BlockStore` |
| `OneRequestPerBlockHolds` | | no request asks for a block that is outstanding, no block is asked of two peers |
| `NoBlockSkippedHolds` | | one `Loop` asks for the missing run from its beginning and without a gap |
| `ReportsFromFirstHolds` | | a report names arrived blocks only, from the first on, and all when its datagram has room |
| `TypeCorrect` | `ChannelLoop_proofs` | `Spec => []TypeOK`: among the rest, `Loop` is only ever at an open channel |
| `NoEarlyRetryHolds` | | no request of any channel is made again before its timeout |
| `TypeCorrect` | `Tracker_proofs` | `Spec => []TypeOK` |
| `UsersHaveItOpenHolds` | | once all is handled, a user has the channel open |
| `UsersMeetHolds` | `TrackerPairs_proofs` | once all is handled, two users who are not both sources know each other, when heartbeats come first |
| `NoPairMissedHolds` | | of two users at least one knows the other, however late heartbeats are |
| `NoGhostsOfOneWorkerHolds` | | with one worker and one opening nobody keeps a user who has left |
| `TrackerImplementsRoster` | | `Tracker` implements `Roster`, in every environment |
| `TypeCorrect` | `OrderLocks_proofs` | `Spec => []TypeOK`: among the rest, no two threads hold one lock |
| `NoCircleHolds` | | no set of threads waits in a circle |
| `ChannelsExclusiveHolds`, `ClientsExclusiveHolds` | | tables are used under their locks, `TellsUnlocked` excepted |
| `TypeCorrect` | `VideoChat_proofs` | `Spec => []TypeOK` |
| `OneLoginPerUserHolds` | | no two logins of a user, no two logins with one session |
| `ChatImplementsRoom` | | `VideoChat` implements `ChatRoom` |
| `NobodyIsMissedHolds` | | a frame reaches all who have subscribed |
| `TypeCorrect` | `HttpStream_proofs` | `Spec => []TypeOK`: among the rest, ids stay within the number of connections, and what is left to send is never negative |
| `InOrderHolds` | | a player gets what he asked for, in order |
| `LatestHasChannelHolds` | | the connection that opened last has its channel |
| `NoChannelLeftBehindHolds` | | every channel has a handler that will close it |
| `KeepsToStoreHolds` | | what players do to an open channel is what `BlockStore` allows |
| `TypeCorrect` | `ClientLife_proofs` | `Spec => []TypeOK` |
| `NobodyLeftBehindHolds` | | no thread is left behind by the network object |
| `CallsFindNetworkHolds` | | the library's calls find `g_pNetwork` set |
| `SendsOverConnectionHolds` | | with a prompt login nothing is sent over a released connection |
| `ConnectedMeansServedHolds` | | with a library that reports what it releases, a service that takes itself for connected is |
| `StopIsHeardHolds` | | `WaitForStop` waits for no event that nobody will set |

* **Integrity** is not inductive: an answer on its way might carry a wrong block
  with a fitting checksum. The strengthening is `AnswersMatch`: the checksum
  of every answer in flight is that of its block (`Genuine`), damaged or not. An
  answer is made from a file or an arrived block (`AnswersGenuine`), so the two
  support each other.
* **PromisesAreKept** speaks of what nodes believe, what is queued and what is
  in flight; the invariant `Promises` has the three together, as a report in
  flight becomes a belief and a request becomes a queue. `HaveGrows` is the
  monotonicity they rest on: with a window as long as the file no step takes
  an arrived block away.
* **TransferImplementsStore.** `View` is the mapped state as a function; each
  action is a `Read` (`StoreRead`), an `Arrive` (`StoreArrive`, which needs the
  invariant of `IntegrityHolds`: what arrives is the file's block) or leaves
  `View` alone.
* **OneRequestPerBlock, NoBlockSkipped** follow the walk over the peers. An
  induction along it is done by a minimal counterexample: finite sets are well
  founded under inclusion (`FS_StrictSubsetOrderingWellFounded`, `WFMin`), so of the
  candidates at which a claim fails there is one that comes first
  (`FirstCandidate`, from `LeastMember`). The claim is `WalkReaches`: wherever the
  walk stands, what the peers before it have taken is the run up to there
  (`ReachedStep`), so what the next one takes begins where they ended.
* **ReportsFromFirst.** Around every arrived block there is an area
  (`RunAround`: the least block from which on all have arrived, and the last one,
  again by `LeastMember`); an area that begins earlier has fewer areas ahead of it,
  so it fits if a later one does (`FitsFromFirst`); and reports come from
  `OnGetBlockArea` only (`ReportIsAreas`).
* **NoEarlyRetry** needs the type invariant only. A pass of `Loop` updates the
  table and then sweeps it with the ages of that moment (`LoopIsPass`), so the
  block it has just asked for is too young to be set back (`PassRetries`), however
  the channels share the clock. That `Loop` stays at an open channel rests on
  `FirstIsOpen`: the next channel in the order of the map is an open one.
* **UsersHaveItOpen** speaks of settled states only. The inductive invariant has
  two parts for each client: `Linked`, what the state of his link says about the
  tables (a client without a link has nothing under way; one that is being
  closed is no user any more), and `LoggedOut`: a client whose channel is
  closed is no user and will not become one, or a LOGOUT_CHANNEL is still in his
  queue and no LOGIN_CHANNEL behind it. When the queue is empty only the first
  is left.
* **UsersMeet, NoPairMissed, NoGhostsOfOneWorker** speak of settled states too,
  and of pairs. `Known(P, q, y)` says that a client who knows the peers `P` will
  know `y` when it has received the notices `q`: a notice queued at the end can
  only add a user who is in, or take back one who is out (`KnownAppend`), and
  receiving one changes nothing (`KnownHead`). A user that stays (`Staying`: up,
  no LOGOUT_CHANNEL under way) has its channel, by `LoggedOut`, so no notice is
  dropped. `MeetInv`: of two that stay one will know the other, and whoever
  stays will know every user or has yet to ask for him, with GETPEERS still in
  its queue (`Asks`: one follows each LOGIN_CHANNEL) or its `OnGetPeers` half done.
  `Keeps` says so of every step but a login, `LoginMeet` of logins. `GhostInv`: with
  one worker nothing is half done when somebody leaves (`FreeIsIdle`), so the
  notice that takes him back comes behind all that named him; and a client that
  opens once knows of nobody before its login (`First`).
* **TrackerImplementsRoster** uses `Known` once more: whom a client will know changes
  when a notice is queued (`KnownAppend`) and does not when it is received
  (`KnownHead`), so a login or a departure takes effect for all listeners in the
  step that queues the notices, and the receipts are stutters. One lemma per
  action; no assumption on `env` is needed, as a client that may drop a notice
  (`Listens`) may miss it in `Roster` too.
* **NoCircle.** `GoodHandler` is checked for every handler on its own: each point
  holds the locks of what it touches (`GoodPoint`), and on the way from each
  point to the next at most one lock is missing, one that is higher than all
  those kept (`Takes`). The invariant carries this to the threads: one that waits
  wants a lock higher than all it holds (`WaitsUp`). In any set of threads the
  one that wants the highest lock waits for none of them. That tables are
  exclusive follows from `GoodPoint` and from locks being held by one thread
  (`UnderLock`).
* **ChatImplementsRoom.** The lists hold link numbers, the room pairs of
  sessions; `PairsAre`, `WantsAre` and, for the numbers without an entry,
  `StaleAre` turn one into the other, which takes the type invariant and
  `OneLoginPerUser`'s second half (sessions are different). Each handler then is
  an action of the room (`LoginRefines`, `SubscribeRefines`, ...). `EndsAre` says
  what becomes of both sets when some logins end, which logins and departures
  have in common: the numbers of those who end are left behind on the lists of
  those who stay, and a login takes over those of its link.
* **NobodyIsMissed**: a subscription between two logins that
  both stay is kept by every handler but the one that takes it back
  (`StayersKeep`), and `Stream` looks at every number on the list, whichever of
  them it erases (`FrameReaches`).
* **InOrder, LatestHasChannel, NoChannelLeftBehind** are parts of one invariant.
  `CountOK` bounds the counter by the connections that have taken a number,
  with overlapping openings too. Without them, `Serial` says how the counter,
  the ids and the channels hang together: at most one opening is under way,
  ids of ready handlers are different and at most the counter (`Numbered`); a
  channel has an owner, who asked for its file (`Owned`); a file has one channel
  (`OnePerFile`) and none while it is being opened anew (`Cleared`); the latest
  connection has its own (`LatestHas`). `cleanup` takes only the channel of the
  connection that is gone because ids differ; what `onSend` reads comes from its
  own channel for the same reason.
* **TypeCorrect of HttpStream.** That what is left to send is never negative rests
  on `RangeStart` and on `ReadBound`: no more is read for a connection than it has
  left to send, so whatever part of it the socket takes can be subtracted.
* **KeepsToStore.** Only `RequestSegment` and arrivals change a channel that stays
  open. `RequestSegment` drops what is more than `Window` behind and inserts a run
  that ends with the file at the latest, or does nothing behind its end: a `Read`
  (`RequestReads`).
* **ClientLife.** Its invariant `Inv` says for each place of the service's thread
  what it may find there: the object and `g_pNetwork` (`NetworkInv`), the state of
  the link (`LinkInv`), what is about to be sent (`SendInv`), and for each of the
  two threads whether there is a handle, whether it was told to stop and whether
  its event is set (`ThreadInv`). The five properties read off what they need;
  preservation goes statement by statement.

Only model-checked: the liveness properties (`WantedArrives`,
`FirstChannelIsServed`, `StreamEnds`, `TriesAgain`; fairness is out of the
prover's reach). Every other property of a passing run is proved.

Only proved, as a property of no run: `TrackerImplementsRoster`. TLC finds no
error on the instance of `tracker`, but needs several times as long as for the
other properties together.

## 5. What is not modelled

* *Hole punching, handshakes and addresses* (`OnReqShootTo`, `OnHandshake`):
  which of two peers can reach the other decides how soon a transfer works, and
  is the environment of `LinkWorks`. `OnReqShootTo` changes no table of the
  server; its locks are in `OrderLocks`. `OnClose` is there too and nowhere
  else: no client sends CLOSE.
* *The upload cache*: the block a source sends is the file's with it or without.
* *Stopping the web server*: `HttpServer::stop` goes through the library's list of
  handlers while `cleanup` may be deleting one of it, and a handler's thread
  gets half a second to end (`P/Socket/ServerSocketHandler.h:97`,
  `P/Socket/Thread.cpp:103`). Nothing in the code states a bound on a handler's
  step, so there is no property to check; `ClientLife` takes players to be gone.
* *Failures of `CreateThread`*, and a thread whose `Init` fails and never
  sets its stop event (`common/thread/KThread.h:105`): neither thread of the
  network object overrides `Init`, and the default one succeeds.
* *Timers and event threads* of the thread library: the program uses none.
* *Timeouts of the chat server*: the handler that would end idle logins is empty.
* *Commands CANCEL, EXIT and CLOSE between peers and the statistics handlers*:
  nobody sends the former, the latter are empty.
* *32-bit wrap* of `GetTickCount` and of offsets beyond 4 GB; `atoi` of lengths
  beyond 2 GB.
* *Byte layouts* of commands, and what is cut off when one does not fit its
  buffer, but for the list of areas.
* The parts marked "no" in section 1: wrappers of system calls and of database
  libraries, user interface, text processing, and third-party code (libtorrent
  and zlib, twice, are most of the repository's lines).

## 6. What is left

1. *Composition*: `P2PTransfer` with `Roster` in place of free `AddPeer` and
   `DeletePeer`. The safety theorems hold with any reports, so this would only
   strengthen what `ThreadsRun` assumes of them.
2. *Handshake and hole punching* on top of `Tracker`.
3. *Upload cache* (`CacheFile`) and the *arithmetic of offsets* modulo 2^32, as
   operators against a reference definition.
4. *Stopping the web server*, once a bound on a handler's step is known.
