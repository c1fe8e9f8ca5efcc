------------------------- MODULE ClientLife_proofs -------------------------
(***************************************************************************)
(* Proofs about ClientLife, whatever the library reports and however long  *)
(* the login takes: nobody outlives the network object, the calls of the   *)
(* library find it, a stop is always heard, and what the service believes  *)
(* of its connection holds.                                                *)
(*                                                                         *)
(* The inductive invariant Inv says for every place of the service's       *)
(* thread what it may find there: the object, the connection, its threads  *)
(* and what they are about to send.                                        *)
(***************************************************************************)
EXTENDS ClientLife, TLAPS

(* ReleaseModule from ClearNetwork on, and before InitModule.              *)
Torn == {"create", "udpstop", "udpwait", "udpjoin", "appstop", "appwait",
         "appjoin", "release", "clear", "delete"}

NetworkInv == /\ obj <=> main # "create"
              /\ g <=> main \notin Torn
              /\ chans => main \in {"idle", "flush"}
              /\ adding => chans

(* InitModule and Connect, up to connectServer and up to the answer.       *)
Starting == {"udpstart", "udpreset", "connect"}
Connecting == {"waitconnect", "connected?", "appstart", "appreset", "waitauth",
               "drop"}

LinkInv ==
    /\ client <=> link # "none" \/ main \in {"null", "clear"}
    /\ main \in Starting \cup {"create", "null", "clear", "delete"} => link = "none"
    /\ main \in Connecting => link # "none"
    /\ link \in {"opening", "up", "asked"} => main \in Connecting
    /\ main \in Starting => ~evAuth
    /\ evAuth => link \in {"none", "served", "down"}
    /\ env.reports /\ isConnected => link \in {"up", "asked", "served"}

(* Where the service's thread may have a thread t, and must have one; where*)
(* it has told it to stop.                                                 *)
Created == [udp |-> "udpreset", app |-> "appreset"]
NoThread == [udp |-> {"create", "udpstart", "udpjoin", "appstop", "appwait",
                      "appjoin", "release", "clear", "delete"},
             app |-> Starting \cup {"create", "waitconnect", "connected?",
                      "appstart", "appjoin", "release", "clear", "delete"}]
HasThread == [udp |-> {"udpreset", "connect", "waitconnect", "connected?",
                       "appstart", "appreset", "waitauth"},
              app |-> {"appreset", "waitauth"}]
Stopping == [udp |-> {"create", "udpwait", "udpjoin", "appstop", "appwait",
                      "appjoin", "release", "clear", "delete"},
             app |-> {"create", "appwait", "appjoin", "release", "clear",
                      "delete"}]

ThreadInv(t) ==
    /\ thr[t] \in {"done", "exit"} => wantStop[t]
    /\ hThread[t] /\ thr[t] = "none" => wantStop[t]
    /\ ~hThread[t] /\ thr[t] # "none" => thr[t] = "exit" /\ main = Joining[t]
    /\ wantStop[t] => main \in Stopping[t]
    /\ hThread[t] /\ evStop[t] => thr[t] \in {"exit", "none"} \/ main = Created[t]
    /\ hThread[t] /\ thr[t] \in {"exit", "none"} => evStop[t]
    /\ main \in NoThread[t] => ~hThread[t]
    /\ main \in HasThread[t] \/ (main = "idle" /\ link # "none") => hThread[t]

(* Commands wait, or are sent, over a connection.                          *)
SendInv ==
    /\ main \in Starting \cup {"waitconnect", "connected?", "appstart", "appreset"}
          => ~cmds
    /\ env.prompt => /\ main \in {"drop", "null"} => thr["app"] # "send" /\ ~cmds
                     /\ thr["app"] = "send" => link # "none"

Inv == /\ TypeOK /\ thr = [t \in Thread |-> thr[t]]
       /\ NetworkInv /\ LinkInv /\ SendInv
       /\ \A t \in Thread : ThreadInv(t)

-----------------------------------------------------------------------------
LEMMA Two == \A t \in Thread : t = "udp" \/ t = "app"
  BY DEF Thread

LEMMA Tables ==
    /\ Joining["udp"] = "udpjoin" /\ Joining["app"] = "appjoin"
    /\ Created["udp"] = "udpreset" /\ Created["app"] = "appreset"
  BY DEF Joining, Created

LEMMA InitInv == Init => Inv
<1> SUFFICES ASSUME Init PROVE Inv
  OBVIOUS
<1>1. TypeOK
  BY EnvironmentsAssumption DEF Init, TypeOK, Thread
<1>2. NetworkInv /\ LinkInv /\ SendInv
  BY DEF Init, NetworkInv, LinkInv, SendInv, Torn, Starting, Connecting, Thread
<1>3. ASSUME NEW t \in Thread PROVE ThreadInv(t)
  BY Two DEF Init, ThreadInv, Stopping, HasThread, NoThread, Created, Joining, Starting
<1>4. QED
  BY <1>1, <1>2, <1>3 DEF Inv, Init

(* There are commands in the list, or there are none.                      *)
LEMMA Pushed == ASSUME TypeOK PROVE PushRequestCmd \in BOOLEAN
  BY DEF TypeOK, PushRequestCmd

-----------------------------------------------------------------------------
(* The steps of the service's thread, each with one step per part of the   *)
(* invariant.                                                              *)
LEMMA OnCheckTimerInv ==
    ASSUME Inv, OnCheckTimer
    PROVE  Inv'
<1> USE Tables DEF Inv, OnCheckTimer, network, threads, tcp, channels
<1>1. NetworkInv'
  BY DEF NetworkInv, Torn
<1>2. LinkInv'
  BY DEF LinkInv, NetworkInv, TypeOK, Starting, Connecting
<1>3. SendInv'
  BY DEF SendInv, Starting
<1>4. ASSUME NEW t \in Thread PROVE ThreadInv(t)'
  BY DEF ThreadInv, Stopping, HasThread, NoThread, Starting, TypeOK,
         NetworkInv, LinkInv, Connecting, Torn, Thread
<1>5. TypeOK' /\ (thr = [t \in Thread |-> thr[t]])'
  BY DEF TypeOK, Thread
<1>6. QED
  BY <1>1, <1>2, <1>3, <1>4, <1>5

LEMMA CreateInv ==
    ASSUME Inv, Create
    PROVE  Inv'
<1> USE Tables DEF Inv, Create, channels
<1>1. NetworkInv'
  BY DEF NetworkInv, Torn
<1>2. LinkInv'
  BY DEF LinkInv, Starting, Connecting
<1>3. SendInv'
  BY DEF SendInv
<1>4. ASSUME NEW t \in Thread PROVE ThreadInv(t)'
  BY DEF ThreadInv, Stopping, HasThread, NoThread, Starting, LinkInv,
         Connecting, Thread
<1>5. TypeOK' /\ (thr = [t \in Thread |-> thr[t]])'
  BY DEF TypeOK, Thread
<1>6. QED
  BY <1>1, <1>2, <1>3, <1>4, <1>5

LEMMA StartInv ==
    ASSUME Inv, Start
    PROVE  Inv'
<1> USE Tables DEF Inv, Start, StartThread, network, tcp, channels
<1>1. NetworkInv'
  BY DEF NetworkInv, Torn
<1>2. LinkInv'
  BY DEF LinkInv, Starting, Connecting
<1>3. SendInv'
  BY DEF SendInv, LinkInv, TypeOK, Starting, Connecting, ThreadInv,
         NoThread, Thread
<1>4. ASSUME NEW t \in Thread PROVE ThreadInv(t)'
  BY DEF ThreadInv, Stopping, HasThread, NoThread, Starting, Thread, TypeOK
<1>5. TypeOK' /\ (thr = [t \in Thread |-> thr[t]])'
  <2>1. ({isConnected, obj, g, client, connected, evConnect, evAuth, cmds, chans,
          adding} \subseteq BOOLEAN)'
    BY Pushed DEF TypeOK
  <2>2. ({hThread, evStop, wantStop} \subseteq [Thread -> BOOLEAN])'
    <3>1. /\ hThread \in [Thread -> BOOLEAN] /\ evStop \in [Thread -> BOOLEAN]
          /\ wantStop \in [Thread -> BOOLEAN]
      BY DEF TypeOK
    <3>2. hThread' \in [Thread -> BOOLEAN]
      BY <3>1
    <3>3. evStop' \in [Thread -> BOOLEAN]
      BY <3>1
    <3>4. wantStop' \in [Thread -> BOOLEAN]
      BY <3>1
    <3>5. QED
      BY <3>2, <3>3, <3>4
  <2>3. (\A t \in Thread : thr[t] # "none" /\ ~hThread[t] =>
                             thr[t] = "exit" /\ main = Joining[t])'
    BY <1>4 DEF ThreadInv
  <2>4. QED
    BY <2>1, <2>2, <2>3 DEF TypeOK, Thread
<1>6. QED
  BY <1>1, <1>2, <1>3, <1>4, <1>5

LEMMA ConnectInv ==
    ASSUME Inv, Connect
    PROVE  Inv'
<1> USE Tables DEF Inv, Connect, network, threads, channels
<1>1. NetworkInv'
  BY DEF NetworkInv, Torn
<1>2. LinkInv'
  BY DEF LinkInv, Starting, Connecting
<1>3. SendInv'
  BY DEF SendInv, Starting
<1>4. ASSUME NEW t \in Thread PROVE ThreadInv(t)'
  BY DEF ThreadInv, Stopping, HasThread, NoThread, Starting, LinkInv,
         Connecting, Thread
<1>5. TypeOK' /\ (thr = [t \in Thread |-> thr[t]])'
  <2>1. ({isConnected, obj, g, client, connected, evConnect, evAuth, cmds, chans,
          adding} \subseteq BOOLEAN)'
    BY DEF TypeOK
  <2>2. ({hThread, evStop, wantStop} \subseteq [Thread -> BOOLEAN])'
    BY DEF TypeOK
  <2>3. (\A t \in Thread : thr[t] # "none" /\ ~hThread[t] =>
                             thr[t] = "exit" /\ main = Joining[t])'
    BY <1>4 DEF ThreadInv
  <2>4. QED
    BY <2>1, <2>2, <2>3 DEF TypeOK, Thread
<1>6. QED
  BY <1>1, <1>2, <1>3, <1>4, <1>5

LEMMA WaitConnectInv ==
    ASSUME Inv, WaitConnect
    PROVE  Inv'
<1> USE Tables DEF Inv, WaitConnect, network, threads, channels
<1>1. NetworkInv'
  BY DEF NetworkInv, Torn
<1>2. LinkInv'
  BY DEF LinkInv, Starting, Connecting
<1>3. SendInv'
  BY DEF SendInv, Starting, Connecting, ThreadInv, NoThread, Thread
<1>4. ASSUME NEW t \in Thread PROVE ThreadInv(t)'
  BY DEF ThreadInv, Stopping, HasThread, NoThread, Starting, Thread
<1>5. TypeOK' /\ (thr = [t \in Thread |-> thr[t]])'
  BY DEF TypeOK, Thread
<1>6. QED
  BY <1>1, <1>2, <1>3, <1>4, <1>5

LEMMA TestConnectedInv ==
    ASSUME Inv, TestConnected
    PROVE  Inv'
<1> USE Tables DEF Inv, TestConnected, network, threads, tcp, channels
<1>1. NetworkInv'
  BY DEF NetworkInv, Torn
<1>2. LinkInv'
  BY DEF LinkInv, Starting, Connecting
<1>3. SendInv'
  BY DEF SendInv, Starting, Connecting, ThreadInv, NoThread, Thread
<1>4. ASSUME NEW t \in Thread PROVE ThreadInv(t)'
  BY DEF ThreadInv, Stopping, HasThread, NoThread, Starting, Thread
<1>5. TypeOK' /\ (thr = [t \in Thread |-> thr[t]])'
  BY DEF TypeOK, Thread
<1>6. QED
  BY <1>1, <1>2, <1>3, <1>4, <1>5

LEMMA WaitAuthInv ==
    ASSUME Inv, WaitAuth
    PROVE  Inv'
<1> USE Tables DEF Inv, WaitAuth, TimedOut, network, threads, channels
<1>1. NetworkInv'
  BY DEF NetworkInv, Torn
<1>2. LinkInv'
  BY DEF LinkInv, Starting, Connecting
<1>3. SendInv'
  BY DEF SendInv, Starting
<1>4. ASSUME NEW t \in Thread PROVE ThreadInv(t)'
  BY DEF ThreadInv, Stopping, HasThread, NoThread, Starting, Thread
<1>5. TypeOK' /\ (thr = [t \in Thread |-> thr[t]])'
  <2>1. ({isConnected, obj, g, client, connected, evConnect, evAuth, cmds, chans,
          adding} \subseteq BOOLEAN)'
    BY DEF TypeOK
  <2>2. ({hThread, evStop, wantStop} \subseteq [Thread -> BOOLEAN])'
    BY DEF TypeOK
  <2>3. (\A t \in Thread : thr[t] # "none" /\ ~hThread[t] =>
                             thr[t] = "exit" /\ main = Joining[t])'
    BY <1>4 DEF ThreadInv
  <2>4. QED
    BY <2>1, <2>2, <2>3 DEF TypeOK, Thread
<1>6. QED
  BY <1>1, <1>2, <1>3, <1>4, <1>5

LEMMA DropInv ==
    ASSUME Inv, Drop
    PROVE  Inv'
<1> USE Tables DEF Inv, Drop, network, threads, channels
<1>1. NetworkInv'
  BY DEF NetworkInv, Torn
<1>2. LinkInv'
  BY DEF LinkInv, Starting, Connecting
<1>3. SendInv'
  BY DEF SendInv, Starting, Connecting, ThreadInv, NoThread, Thread
<1>4. ASSUME NEW t \in Thread PROVE ThreadInv(t)'
  BY DEF ThreadInv, Stopping, HasThread, NoThread, Starting, LinkInv,
         Connecting, Thread
<1>5. TypeOK' /\ (thr = [t \in Thread |-> thr[t]])'
  <2>1. ({isConnected, obj, g, client, connected, evConnect, evAuth, cmds, chans,
          adding} \subseteq BOOLEAN)'
    BY DEF TypeOK
  <2>2. ({hThread, evStop, wantStop} \subseteq [Thread -> BOOLEAN])'
    BY DEF TypeOK
  <2>3. (\A t \in Thread : thr[t] # "none" /\ ~hThread[t] =>
                             thr[t] = "exit" /\ main = Joining[t])'
    BY <1>4 DEF ThreadInv
  <2>4. QED
    BY <2>1, <2>2, <2>3 DEF TypeOK, Thread
<1>6. QED
  BY <1>1, <1>2, <1>3, <1>4, <1>5

LEMMA FlushInv ==
    ASSUME Inv, Flush
    PROVE  Inv'
<1> USE Tables DEF Inv, Flush, network, threads, tcp
<1>1. NetworkInv'
  BY DEF NetworkInv, Torn
<1>2. LinkInv'
  BY DEF LinkInv, Starting, Connecting
<1>3. SendInv'
  BY DEF SendInv, Starting
<1>4. ASSUME NEW t \in Thread PROVE ThreadInv(t)'
  BY DEF ThreadInv, Stopping, HasThread, NoThread, Starting, Thread
<1>5. TypeOK' /\ (thr = [t \in Thread |-> thr[t]])'
  BY Pushed DEF TypeOK, Thread
<1>6. QED
  BY <1>1, <1>2, <1>3, <1>4, <1>5

LEMMA ClearNetworkInv ==
    ASSUME Inv, ClearNetwork
    PROVE  Inv'
<1> USE Tables DEF Inv, ClearNetwork, threads, tcp, channels
<1>1. NetworkInv'
  BY DEF NetworkInv, Torn
<1>2. LinkInv'
  BY DEF LinkInv, Starting, Connecting
<1>3. SendInv'
  BY DEF SendInv, Starting
<1>4. ASSUME NEW t \in Thread PROVE ThreadInv(t)'
  BY DEF ThreadInv, Stopping, HasThread, NoThread, Starting, Thread
<1>5. TypeOK' /\ (thr = [t \in Thread |-> thr[t]])'
  BY DEF TypeOK, Thread
<1>6. QED
  BY <1>1, <1>2, <1>3, <1>4, <1>5

LEMMA StopInv ==
    ASSUME Inv, Stop
    PROVE  Inv'
<1> USE Tables DEF Inv, Stop, WantStop, WaitForStop, network, tcp, channels
<1>1. NetworkInv'
  BY DEF NetworkInv, Torn
<1>2. LinkInv'
  BY DEF LinkInv, Starting, Connecting
<1>3. SendInv'
  BY DEF SendInv, Starting
<1>4. ASSUME NEW t \in Thread PROVE ThreadInv(t)'
  BY DEF ThreadInv, Stopping, HasThread, NoThread, Starting, Thread, TypeOK
<1>5. TypeOK' /\ (thr = [t \in Thread |-> thr[t]])'
  <2>1. ({isConnected, obj, g, client, connected, evConnect, evAuth, cmds, chans,
          adding} \subseteq BOOLEAN)'
    BY DEF TypeOK
  <2>2. ({hThread, evStop, wantStop} \subseteq [Thread -> BOOLEAN])'
    <3>1. /\ hThread \in [Thread -> BOOLEAN] /\ evStop \in [Thread -> BOOLEAN]
          /\ wantStop \in [Thread -> BOOLEAN]
      BY DEF TypeOK
    <3>2. hThread' \in [Thread -> BOOLEAN]
      BY <3>1
    <3>3. evStop' \in [Thread -> BOOLEAN]
      BY <3>1
    <3>4. wantStop' \in [Thread -> BOOLEAN]
      BY <3>1
    <3>5. QED
      BY <3>2, <3>3, <3>4
  <2>3. (\A t \in Thread : thr[t] # "none" /\ ~hThread[t] =>
                             thr[t] = "exit" /\ main = Joining[t])'
    BY <1>4 DEF ThreadInv
  <2>4. QED
    BY <2>1, <2>2, <2>3 DEF TypeOK, Thread
<1>6. QED
  BY <1>1, <1>2, <1>3, <1>4, <1>5

LEMMA DeleteInv ==
    ASSUME Inv, Delete
    PROVE  Inv'
<1> USE Tables DEF Inv, Delete, threads, tcp, channels
<1>1. NetworkInv'
  BY DEF NetworkInv, Torn
<1>2. LinkInv'
  BY DEF LinkInv, Starting, Connecting
<1>3. SendInv'
  BY DEF SendInv, Starting
<1>4. ASSUME NEW t \in Thread PROVE ThreadInv(t)'
  BY DEF ThreadInv, Stopping, HasThread, NoThread, Starting, Thread
<1>5. TypeOK' /\ (thr = [t \in Thread |-> thr[t]])'
  BY DEF TypeOK, Thread
<1>6. QED
  BY <1>1, <1>2, <1>3, <1>4, <1>5

-----------------------------------------------------------------------------
(* Those of the object's two threads, of players and of the library.       *)
LEMMA UdpClientInv ==
    ASSUME Inv, UdpClient
    PROVE  Inv'
<1> USE Tables DEF Inv, UdpClient, Goes, service, network, tcp, channels
<1>1. NetworkInv'
  BY DEF NetworkInv
<1>2. LinkInv'
  BY DEF LinkInv
<1>3. SendInv'
  BY DEF SendInv, Starting, Connecting, ThreadInv, NoThread, Thread
<1>4. ASSUME NEW t \in Thread PROVE ThreadInv(t)'
  BY DEF ThreadInv
<1>5. TypeOK' /\ (thr = [t \in Thread |-> thr[t]])'
  BY DEF TypeOK, Thread
<1>6. QED
  BY <1>1, <1>2, <1>3, <1>4, <1>5

LEMMA AppInv ==
    ASSUME Inv, App
    PROVE  Inv'
<1> USE Tables DEF Inv, App, Goes, service, network, tcp, channels
<1>1. NetworkInv'
  BY DEF NetworkInv
<1>2. LinkInv'
  BY DEF LinkInv
<1>3. SendInv'
  BY DEF SendInv, LinkInv, TypeOK, Starting, Connecting, ThreadInv,
         NoThread, Thread
<1>4. ASSUME NEW t \in Thread PROVE ThreadInv(t)'
  BY DEF ThreadInv
<1>5. TypeOK' /\ (thr = [t \in Thread |-> thr[t]])'
  <2>1. ({isConnected, obj, g, client, connected, evConnect, evAuth, cmds, chans,
          adding} \subseteq BOOLEAN)'
    BY DEF TypeOK
  <2>2. ({hThread, evStop, wantStop} \subseteq [Thread -> BOOLEAN])'
    BY DEF TypeOK
  <2>3. (\A t \in Thread : thr[t] # "none" /\ ~hThread[t] =>
                             thr[t] = "exit" /\ main = Joining[t])'
    BY <1>4 DEF ThreadInv
  <2>4. QED
    BY <2>1, <2>2, <2>3 DEF TypeOK, Thread
<1>6. QED
  BY <1>1, <1>2, <1>3, <1>4, <1>5

LEMMA AppSendInv ==
    ASSUME Inv, AppSend
    PROVE  Inv'
<1> USE Tables DEF Inv, AppSend, Goes, service, network, channels
<1>1. NetworkInv'
  BY DEF NetworkInv
<1>2. LinkInv'
  BY DEF LinkInv
<1>3. SendInv'
  BY DEF SendInv
<1>4. ASSUME NEW t \in Thread PROVE ThreadInv(t)'
  BY DEF ThreadInv
<1>5. TypeOK' /\ (thr = [t \in Thread |-> thr[t]])'
  BY DEF TypeOK, Thread
<1>6. QED
  BY <1>1, <1>2, <1>3, <1>4, <1>5

LEMMA OpenSourceInv ==
    ASSUME Inv, OpenSource
    PROVE  Inv'
<1> USE Tables DEF Inv, OpenSource, service, network, threads, tcp
<1>1. NetworkInv'
  BY DEF NetworkInv
<1>2. LinkInv'
  BY DEF LinkInv
<1>3. SendInv'
  BY DEF SendInv, Starting
<1>4. ASSUME NEW t \in Thread PROVE ThreadInv(t)'
  BY DEF ThreadInv
<1>5. TypeOK' /\ (thr = [t \in Thread |-> thr[t]])'
  BY Pushed DEF TypeOK, Thread
<1>6. QED
  BY <1>1, <1>2, <1>3, <1>4, <1>5

LEMMA CloseSourceInv ==
    ASSUME Inv, CloseSource
    PROVE  Inv'
<1> USE Tables DEF Inv, CloseSource, service, network, threads, tcp
<1>1. NetworkInv'
  BY DEF NetworkInv
<1>2. LinkInv'
  BY DEF LinkInv
<1>3. SendInv'
  BY DEF SendInv, Starting
<1>4. ASSUME NEW t \in Thread PROVE ThreadInv(t)'
  BY DEF ThreadInv
<1>5. TypeOK' /\ (thr = [t \in Thread |-> thr[t]])'
  BY Pushed DEF TypeOK, Thread
<1>6. QED
  BY <1>1, <1>2, <1>3, <1>4, <1>5

LEMMA OnConnectedInv ==
    ASSUME Inv, OnConnected
    PROVE  Inv'
<1> USE Tables DEF Inv, OnConnected, network, threads, channels
<1>1. NetworkInv'
  BY DEF NetworkInv
<1>2. LinkInv'
  BY DEF LinkInv
<1>3. SendInv'
  BY DEF SendInv
<1>4. ASSUME NEW t \in Thread PROVE ThreadInv(t)'
  BY DEF ThreadInv
<1>5. TypeOK' /\ (thr = [t \in Thread |-> thr[t]])'
  BY DEF TypeOK, Thread
<1>6. QED
  BY <1>1, <1>2, <1>3, <1>4, <1>5

LEMMA OnDisconnectedInv ==
    ASSUME Inv, OnDisconnected
    PROVE  Inv'
<1> USE Tables DEF Inv, OnDisconnected, network, threads, channels
<1>1. NetworkInv'
  BY DEF NetworkInv
<1>2. LinkInv'
  BY DEF LinkInv
<1>3. SendInv'
  BY DEF SendInv
<1>4. ASSUME NEW t \in Thread PROVE ThreadInv(t)'
  BY DEF ThreadInv
<1>5. TypeOK' /\ (thr = [t \in Thread |-> thr[t]])'
  <2>1. ({isConnected, obj, g, client, connected, evConnect, evAuth, cmds, chans,
          adding} \subseteq BOOLEAN)'
    BY DEF TypeOK
  <2>2. ({hThread, evStop, wantStop} \subseteq [Thread -> BOOLEAN])'
    BY DEF TypeOK
  <2>3. (\A t \in Thread : thr[t] # "none" /\ ~hThread[t] =>
                             thr[t] = "exit" /\ main = Joining[t])'
    BY <1>4 DEF ThreadInv
  <2>4. QED
    BY <2>1, <2>2, <2>3 DEF TypeOK, Thread
<1>6. QED
  BY <1>1, <1>2, <1>3, <1>4, <1>5

LEMMA TransCommandInv ==
    ASSUME Inv, TransCommand
    PROVE  Inv'
<1> USE Tables DEF Inv, TransCommand, service, network, threads, channels
<1>1. NetworkInv'
  BY DEF NetworkInv
<1>2. LinkInv'
  BY DEF LinkInv
<1>3. SendInv'
  BY DEF SendInv
<1>4. ASSUME NEW t \in Thread PROVE ThreadInv(t)'
  BY DEF ThreadInv
<1>5. TypeOK' /\ (thr = [t \in Thread |-> thr[t]])'
  BY DEF TypeOK, Thread
<1>6. QED
  BY <1>1, <1>2, <1>3, <1>4, <1>5

LEMMA AddPeerInv ==
    ASSUME Inv, AddPeer
    PROVE  Inv'
<1> USE Tables DEF Inv, AddPeer, service, network, threads, tcp
<1>1. NetworkInv'
  BY DEF NetworkInv
<1>2. LinkInv'
  BY DEF LinkInv
<1>3. SendInv'
  <2>1. (cmds' = cmds) \/ main \in {"idle", "flush"}
    BY DEF NetworkInv
  <2>2. CASE cmds' = cmds
    BY <2>2 DEF SendInv
  <2>3. CASE main \in {"idle", "flush"}
    BY <2>3 DEF SendInv, Starting
  <2>4. QED
    BY <2>1, <2>2, <2>3
<1>4. ASSUME NEW t \in Thread PROVE ThreadInv(t)'
  BY DEF ThreadInv
<1>5. TypeOK' /\ (thr = [t \in Thread |-> thr[t]])'
  <2>1. ({isConnected, obj, g, client, connected, evConnect, evAuth, cmds, chans,
          adding} \subseteq BOOLEAN)'
    BY Pushed DEF TypeOK
  <2>2. ({hThread, evStop, wantStop} \subseteq [Thread -> BOOLEAN])'
    BY DEF TypeOK
  <2>3. (\A t \in Thread : thr[t] # "none" /\ ~hThread[t] =>
                             thr[t] = "exit" /\ main = Joining[t])'
    BY <1>4 DEF ThreadInv
  <2>4. QED
    BY <2>1, <2>2, <2>3 DEF TypeOK, Thread
<1>6. QED
  BY <1>1, <1>2, <1>3, <1>4, <1>5

LEMMA ThreadProcInv ==
    ASSUME Inv, NEW i \in Thread, ThreadProc(i)
    PROVE  Inv'
<1> USE Tables DEF Inv, ThreadProc, Goes, service, network, tcp, channels
<1>1. NetworkInv'
  BY DEF NetworkInv
<1>2. LinkInv'
  BY DEF LinkInv
<1>3. SendInv'
  BY DEF SendInv, Starting, Connecting, ThreadInv, NoThread, Thread
<1>4. ASSUME NEW t \in Thread PROVE ThreadInv(t)'
  BY DEF ThreadInv, Stopping, HasThread, NoThread, Starting, Thread, TypeOK
<1>5. TypeOK' /\ (thr = [t \in Thread |-> thr[t]])'
  <2>1. ({isConnected, obj, g, client, connected, evConnect, evAuth, cmds, chans,
          adding} \subseteq BOOLEAN)'
    BY DEF TypeOK
  <2>2. ({hThread, evStop, wantStop} \subseteq [Thread -> BOOLEAN])'
    <3>1. /\ hThread \in [Thread -> BOOLEAN] /\ evStop \in [Thread -> BOOLEAN]
          /\ wantStop \in [Thread -> BOOLEAN]
      BY DEF TypeOK
    <3>2. hThread' \in [Thread -> BOOLEAN]
      BY <3>1
    <3>3. evStop' \in [Thread -> BOOLEAN]
      BY <3>1
    <3>4. wantStop' \in [Thread -> BOOLEAN]
      BY <3>1
    <3>5. QED
      BY <3>2, <3>3, <3>4
  <2>3. (\A t \in Thread : thr[t] # "none" /\ ~hThread[t] =>
                             thr[t] = "exit" /\ main = Joining[t])'
    BY <1>4 DEF ThreadInv
  <2>4. QED
    BY <2>1, <2>2, <2>3 DEF TypeOK, Thread
<1>6. QED
  BY <1>1, <1>2, <1>3, <1>4, <1>5

-----------------------------------------------------------------------------
LEMMA StutterInv == ASSUME Inv, UNCHANGED vars
                    PROVE  Inv'
<1> USE DEF vars, service, network, threads, tcp, channels
<1>1. TypeOK' /\ NetworkInv' /\ LinkInv' /\ SendInv'
  BY DEF Inv, TypeOK, NetworkInv, LinkInv, SendInv
<1>2. ASSUME NEW t \in Thread PROVE ThreadInv(t)'
  BY DEF Inv, ThreadInv
<1>3. QED
  BY <1>1, <1>2 DEF Inv

LEMMA MainInv == ASSUME Inv, Main
                 PROVE  Inv'
  BY OnCheckTimerInv, CreateInv, StartInv, ConnectInv, WaitConnectInv,
     TestConnectedInv, WaitAuthInv, DropInv, FlushInv, ClearNetworkInv,
     StopInv, DeleteInv
  DEF Main

LEMMA StepInv == ASSUME Inv, [Next]_vars
                 PROVE  Inv'
  BY MainInv, UdpClientInv, AppInv, AppSendInv, ThreadProcInv, OpenSourceInv,
     CloseSourceInv, OnConnectedInv, OnDisconnectedInv, TransCommandInv,
     AddPeerInv, StutterInv
  DEF Next, Threads

LEMMA InvHolds == Spec => []Inv
  BY InitInv, StepInv, PTL DEF Spec, SafeSpec

-----------------------------------------------------------------------------
(* The type invariant of the clients' lives: among the rest, a thread that *)
(* has no handle any more is one that is being joined (CKThread).          *)
THEOREM TypeCorrect == Spec => []TypeOK
<1>1. Inv => TypeOK
  BY DEF Inv
<1>2. QED
  BY <1>1, InvHolds, PTL

(* Nothing outlives the network object: when ReleaseModule has deleted it, *)
(* neither thread runs, there is no connection, and no call is under way.  *)
THEOREM NobodyLeftBehindHolds == Spec => []NobodyLeftBehind
<1>1. ASSUME Inv PROVE NobodyLeftBehind
  <2> SUFFICES ASSUME ~obj PROVE NobodyLeftBehind
    BY DEF NobodyLeftBehind
  <2>1. main = "create" /\ ~g /\ ~chans /\ ~adding
    BY <1>1 DEF Inv, NetworkInv, Torn
  <2>2. link = "none" /\ ~client
    BY <1>1, <2>1 DEF Inv, LinkInv
  <2>3. ASSUME NEW t \in Thread PROVE thr[t] = "none"
    BY <1>1, <2>1, Two, Tables DEF Inv, ThreadInv, NoThread
  <2>4. QED
    BY <2>1, <2>2, <2>3 DEF NobodyLeftBehind
<1>2. QED
  BY <1>1, InvHolds, PTL

(* The library's calls find g_pNetwork: TransCommand, when the answer to   *)
(* the login comes, and AddPeer, while it holds the lock of the channels.  *)
THEOREM CallsFindNetworkHolds == Spec => []CallsFindNetwork
<1>1. Inv => CallsFindNetwork
  BY DEF Inv, NetworkInv, LinkInv, CallsFindNetwork, Connecting, Torn
<1>2. QED
  BY <1>1, InvHolds, PTL

(* With a prompt login the TCP thread sends over no released connection    *)
(* (CP2PApp::ThreadProcMain against Connect and Release).                  *)
THEOREM SendsOverConnectionHolds == Spec => []SendsOverConnection
<1>1. Inv => SendsOverConnection
  BY DEF Inv, SendInv, SendsOverConnection
<1>2. QED
  BY <1>1, InvHolds, PTL

(* With a library that reports what it releases, a service that believes   *)
(* itself connected has logged in, and its threads run (CP2PApp::Connect). *)
THEOREM ConnectedMeansServedHolds == Spec => []ConnectedMeansServed
<1>1. ASSUME Inv PROVE ConnectedMeansServed
  <2> SUFFICES ASSUME env.reports, main = "idle", isConnected
               PROVE  /\ g /\ client /\ link = "served"
                      /\ \A t \in Thread : thr[t] \notin {"none", "done", "exit"}
    BY DEF ConnectedMeansServed
  <2>1. g /\ client /\ link = "served"
    BY <1>1 DEF Inv, NetworkInv, LinkInv, Torn, Connecting
  <2>2. ASSUME NEW t \in Thread PROVE thr[t] \notin {"none", "done", "exit"}
    BY <1>1, <2>1, Two DEF Inv, ThreadInv, Stopping, HasThread
  <2>3. QED
    BY <2>1, <2>2
<1>2. QED
  BY <1>1, InvHolds, PTL

(* WaitForStop waits for no event that nobody will set, however StartThread*)
(* and the thread it has started race (KThread.h).                         *)
THEOREM StopIsHeardHolds == Spec => []StopIsHeard
<1>1. Inv => StopIsHeard
  BY DEF Inv, ThreadInv, StopIsHeard
<1>2. QED
  BY <1>1, InvHolds, PTL
=============================================================================
