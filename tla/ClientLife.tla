------------------------------ MODULE ClientLife ------------------------------
(***************************************************************************)
(* How a client of the order server comes and goes: P2PService looks once  *)
(* a second whether it is connected, and if not, releases the network      *)
(* object and connects with a new one.  Five kinds of thread meet here:    *)
(* the service's own, the object's UDP and TCP threads (CKThread), the     *)
(* TCP library's, which calls OnConnected, OnDisconnected and              *)
(* OnReceivedData, and those of players.                                   *)
(*                                                                         *)
(* The library is external: it makes one call at a time, from              *)
(* connectServer on, and none when releaseConnection has returned.         *)
(* CreateThread succeeds, and players are gone before the object is        *)
(* released (HttpServer::stop).                                            *)
(***************************************************************************)
EXTENDS Naturals

CONSTANT Environments  \* [reports : does releaseConnection call
                       \*    OnDisconnected if the link was not down,
                       \*  prompt : is the login sent within the ten seconds
                       \*    that Connect waits for the answer]

ASSUME EnvironmentsAssumption ==
    Environments \subseteq [reports : BOOLEAN, prompt : BOOLEAN]

VARIABLES env,
          main,       \* where the service's thread is
          isConnected,\* CSocketClientMgr::m_bConnected
          obj,        \* is there a CP2PNetwork?
          g,          \* g_pNetwork # NULL
          thr,        \* where the object's two threads are
          hThread, evStop, wantStop,  \* of the two: m_hThread # NULL, ...
          client,     \* m_pClient # NULL
          link,       \* its connection
          connected, evConnect, evAuth,  \* m_bConnected and two CKEvents
          cmds,       \* is there anything in m_listTcpCmd?
          chans,      \* or in m_channelMgr?
          adding      \* is the library's thread in AddPeer, with the lock?

service == <<env, main, isConnected>>
network == <<obj, g>>
threads == <<thr, hThread, evStop, wantStop>>
tcp == <<client, link, connected, evConnect, evAuth>>
channels == <<chans, adding>>
vars == <<service, network, threads, tcp, cmds, channels>>

Thread == {"udp", "app"}
Joining == [udp |-> "udpjoin", app |-> "appjoin"]

Init == /\ env \in Environments
        /\ main = "create" /\ isConnected = FALSE
        /\ obj = FALSE /\ g = FALSE
        /\ thr = [t \in Thread |-> "none"]
        /\ hThread = [t \in Thread |-> FALSE]
        /\ evStop = [t \in Thread |-> FALSE]
        /\ wantStop = [t \in Thread |-> FALSE]
        /\ client = FALSE /\ link = "none"
        /\ connected = FALSE /\ evConnect = FALSE /\ evAuth = FALSE
        /\ cmds = FALSE /\ chans = FALSE /\ adding = FALSE

-----------------------------------------------------------------------------
(* m_listTcpCmd after a PushRequestCmd, which drops its command when there *)
(* is no connection.                                                       *)
PushRequestCmd == cmds \/ connected

(* CKThread, called by the service's thread.  StartThread resets the stop  *)
(* event when the thread runs already; the event is auto-reset.            *)
StartThread(t, at, created, next) ==
    \/ /\ main = at /\ main' = created
       /\ thr' = [thr EXCEPT ![t] = "top"]
       /\ hThread' = [hThread EXCEPT ![t] = TRUE]
       /\ UNCHANGED <<evStop, cmds>>
    \/ /\ main = created /\ main' = next
       /\ evStop' = [evStop EXCEPT ![t] = FALSE]
       /\ cmds' = IF t = "app" THEN PushRequestCmd ELSE cmds   \* the login
       /\ UNCHANGED <<thr, hThread>>

(* Release of either: m_bWantStop, then WaitForStop.                       *)
WantStop(t, at, next) == /\ main = at /\ main' = next
                         /\ wantStop' = [wantStop EXCEPT ![t] = TRUE]
                         /\ UNCHANGED <<thr, hThread, evStop>>

(* Mutants of WaitForStop: it does not join the thread; it does not wait.  *)
WaitForStopOnly(t, at, joining, next) ==
    /\ main = at /\ main' = next
    /\ hThread[t] => evStop[t]
    /\ evStop' = [evStop EXCEPT ![t] = FALSE]
    /\ hThread' = [hThread EXCEPT ![t] = FALSE]
    /\ UNCHANGED <<thr, wantStop>>
WaitForStopNot(t, at, joining, next) ==
    /\ main = at /\ main' = next
    /\ UNCHANGED <<thr, wantStop, evStop, hThread>>

WaitForStop(t, at, joining, next) ==
    /\ UNCHANGED <<thr, wantStop>>
    /\ \/ /\ main = at /\ ~hThread[t]
          /\ main' = next /\ UNCHANGED <<evStop, hThread>>
       \/ /\ main = at /\ hThread[t] /\ evStop[t]
          /\ evStop' = [evStop EXCEPT ![t] = FALSE]
          /\ hThread' = [hThread EXCEPT ![t] = FALSE]
          /\ main' = joining
       \/ /\ main = joining /\ thr[t] = "none"
          /\ main' = next /\ UNCHANGED <<evStop, hThread>>

(* The thread itself: ThreadProc sets the event when ThreadProcMain is     *)
(* through, and then ends.                                                 *)
Goes(t, from, to) == /\ thr[t] = from
                     /\ thr' = [thr EXCEPT ![t] = to]
ThreadProc(t) ==
    /\ \/ Goes(t, "done", "exit") /\ evStop' = [evStop EXCEPT ![t] = TRUE]
       \/ Goes(t, "exit", "none") /\ UNCHANGED evStop
    /\ UNCHANGED <<service, network, hThread, wantStop, tcp, cmds, channels>>

-----------------------------------------------------------------------------
(* The service's thread: OnCheckTimer, once a second.                      *)
OnCheckTimer == /\ main = "idle" /\ ~isConnected
                /\ main' = IF obj THEN "flush" ELSE "create"
                /\ UNCHANGED <<env, isConnected, network, threads, tcp, cmds, channels>>

(* Mutant of Create: the new threads find the old request to stop.         *)
CreateStopping == /\ main = "create"
                  /\ obj' = TRUE /\ g' = TRUE
                  /\ evStop' = [t \in Thread |-> TRUE]
                  /\ connected' = FALSE /\ evConnect' = FALSE /\ evAuth' = FALSE
                  /\ cmds' = FALSE
                  /\ main' \in {"idle", "udpstart"}
                  /\ UNCHANGED <<env, isConnected, thr, hThread, wantStop,
                                 client, link, channels>>

(* CSocketClientMgr::Connect, InitModule: the object; the configuration    *)
(* may be missing or the port taken.                                       *)
Create == /\ main = "create"
          /\ obj' = TRUE /\ g' = TRUE
          /\ wantStop' = [t \in Thread |-> FALSE]
          /\ evStop' = [t \in Thread |-> TRUE]   \* CKThread's constructor
          /\ connected' = FALSE /\ evConnect' = FALSE /\ evAuth' = FALSE
          /\ cmds' = FALSE
          /\ main' \in {"idle", "udpstart"}
          /\ UNCHANGED <<env, isConnected, thr, hThread, client, link, channels>>

Start == /\ \/ StartThread("udp", "udpstart", "udpreset", "connect")
            \/ StartThread("app", "appstart", "appreset", "waitauth")
         /\ UNCHANGED <<env, isConnected, network, wantStop, tcp, channels>>

(* CP2PApp::Connect; connectServer may fail at once.                       *)
Connect == /\ main = "connect"
           /\ \/ main' = "idle" /\ UNCHANGED <<client, link>>
              \/ main' = "waitconnect" /\ client' = TRUE /\ link' = "opening"
           /\ UNCHANGED <<env, isConnected, network, threads,
                          connected, evConnect, evAuth, cmds, channels>>

(* Its three waits: for the event, or for a timeout.                       *)
WaitConnect == /\ main = "waitconnect"
               /\ main' = IF evConnect THEN "connected?" ELSE "drop"
               /\ evConnect' = FALSE
               /\ UNCHANGED <<env, isConnected, network, threads, client,
                              link, connected, evAuth, cmds, channels>>
TestConnected == /\ main = "connected?"
                 /\ main' = IF connected THEN "appstart" ELSE "drop"
                 /\ UNCHANGED <<env, isConnected, network, threads, tcp, cmds, channels>>
TimedOut == ~evAuth /\ (env.prompt => thr["app"] # "send" /\ ~cmds)

(* Mutants of WaitAuth: a login that times out keeps its connection, and   *)
(* the service does not hear of it, or does.                               *)
WaitAuthKeeps ==
    /\ main = "waitauth" /\ main' = "idle"
    /\ \/ evAuth /\ UNCHANGED connected
       \/ TimedOut /\ connected' = FALSE
    /\ evAuth' = FALSE
    /\ UNCHANGED <<env, isConnected, network, threads, client, link,
                   evConnect, cmds, channels>>

WaitAuthTells ==
    /\ main = "waitauth" /\ main' = "idle"
    /\ \/ evAuth /\ UNCHANGED <<connected, isConnected>>
       \/ TimedOut /\ connected' = FALSE /\ isConnected' = FALSE
    /\ evAuth' = FALSE
    /\ UNCHANGED <<env, network, threads, client, link, evConnect, cmds, channels>>

WaitAuth == /\ main = "waitauth"
            /\ \/ evAuth /\ main' = "idle" /\ UNCHANGED connected
               \/ TimedOut /\ main' = "drop" /\ connected' = FALSE
            /\ evAuth' = FALSE
            /\ UNCHANGED <<env, isConnected, network, threads, client, link,
                           evConnect, cmds, channels>>

(* releaseConnection and m_pClient = NULL, at the end of a Connect that    *)
(* failed and of Release.                                                  *)
Drop ==
    \/ /\ ~adding
       /\ \/ main = "drop" /\ main' = "null"
          \/ main = "release" /\ main' = IF client THEN "clear" ELSE "delete"
       /\ link' = "none"
       /\ IF env.reports /\ link \notin {"none", "down"}
          THEN connected' = FALSE /\ evConnect' = TRUE /\ isConnected' = FALSE
          ELSE UNCHANGED <<connected, evConnect, isConnected>>
       /\ UNCHANGED <<env, network, threads, client, evAuth, cmds, channels>>
    \/ /\ \/ main = "null" /\ main' = "idle"
          \/ main = "clear" /\ main' = "delete"
       /\ client' = FALSE
       /\ UNCHANGED <<env, isConnected, network, threads, link,
                      connected, evConnect, evAuth, cmds, channels>>

(* ReleaseModule: the channels, which log out if they still can,           *)
(* g_pNetwork, the threads, the connection (Drop), the object.             *)
Flush == /\ main = "flush" /\ main' = "unset"
         /\ ~adding /\ chans' = FALSE
         /\ cmds' = IF chans THEN PushRequestCmd ELSE cmds
         /\ UNCHANGED <<env, isConnected, network, threads, tcp, adding>>

(* Mutant of ClearNetwork: the object stays known until it is deleted.     *)
ClearNetworkNot == /\ main = "unset" /\ main' = "udpstop"
                   /\ UNCHANGED <<env, isConnected, network, threads, tcp,
                                  cmds, channels>>

ClearNetwork == /\ main = "unset" /\ main' = "udpstop"
                /\ g' = FALSE
                /\ UNCHANGED <<env, isConnected, obj, threads, tcp, cmds, channels>>
Stop == /\ \/ WantStop("udp", "udpstop", "udpwait")
           \/ WaitForStop("udp", "udpwait", "udpjoin", "appstop")
           \/ WantStop("app", "appstop", "appwait")
           \/ WaitForStop("app", "appwait", "appjoin", "release")
        /\ UNCHANGED <<env, isConnected, network, tcp, cmds, channels>>
Delete == /\ main = "delete" /\ main' = "create"
          /\ obj' = FALSE
          /\ UNCHANGED <<env, isConnected, g, threads, tcp, cmds, channels>>

Main == \/ OnCheckTimer \/ Create \/ Start \/ Connect \/ WaitConnect
        \/ TestConnected \/ WaitAuth \/ Drop \/ Flush \/ ClearNetwork
        \/ Stop \/ Delete

-----------------------------------------------------------------------------
(* The UDP thread.  It tests g_pNetwork and then uses it: by then it may   *)
(* be NULL, and the process ends.                                          *)
UdpClient ==
    /\ \/ Goes("udp", "top", IF wantStop["udp"] THEN "done" ELSE "recv")
       \/ Goes("udp", "recv", "quiet")
       \/ Goes("udp", "recv", IF g THEN "use" ELSE "quiet")
       \/ Goes("udp", "use", IF g THEN "recv" ELSE "fault")
       \/ Goes("udp", "quiet", IF g THEN "task" ELSE "top")
       \/ Goes("udp", "task", IF g THEN "top" ELSE "fault")
    /\ UNCHANGED <<service, network, hThread, evStop, wantStop, tcp, cmds, channels>>

(* The TCP thread: it takes commands until there is none, and for each it  *)
(* tests m_pClient and then sends over it.                                 *)
App == /\ \/ Goes("app", "top", IF wantStop["app"] THEN "done" ELSE "pop") /\ UNCHANGED cmds
          \/ Goes("app", "pop", "top") /\ ~cmds /\ UNCHANGED cmds
          \/ Goes("app", "pop", IF client THEN "send" ELSE "pop") /\ cmds /\ cmds' = FALSE
       /\ UNCHANGED <<service, network, hThread, evStop, wantStop, tcp, channels>>
AppSend == /\ Goes("app", "send", "pop")
           /\ link' = IF link = "up" THEN "asked" ELSE link
           /\ UNCHANGED <<service, network, hThread, evStop, wantStop, client,
                          connected, evConnect, evAuth, cmds, channels>>

(* A player opens a source, or closes one.                                 *)
OpenSource == /\ main = "idle" /\ obj /\ ~adding
              /\ chans' = TRUE /\ cmds' = PushRequestCmd
              /\ UNCHANGED <<service, network, threads, tcp, adding>>
CloseSource == /\ main = "idle" /\ obj
               /\ chans /\ ~adding
               /\ chans' = FALSE /\ cmds' = PushRequestCmd
               /\ UNCHANGED <<service, network, threads, tcp, adding>>

-----------------------------------------------------------------------------
(* The library's calls.  The first command it sends is the login; the      *)
(* answer to it uses g_pNetwork (TransCommand).                            *)
OnConnected == /\ link = "opening" /\ link' = "up"
               /\ connected' = TRUE /\ evConnect' = TRUE /\ isConnected' = TRUE
               /\ UNCHANGED <<env, main, network, threads, client, evAuth, cmds, channels>>
OnDisconnected ==
    /\ ~adding /\ link \in {"opening", "up", "asked", "served"} /\ link' = "down"
    /\ connected' = FALSE /\ evConnect' = TRUE /\ isConnected' = FALSE
    /\ UNCHANGED <<env, main, network, threads, client, evAuth, cmds, channels>>
TransCommand == /\ link = "asked" /\ link' = "served"
                /\ evAuth' = TRUE
                /\ UNCHANGED <<service, network, threads, client, connected,
                               evConnect, cmds, channels>>

(* A list of peers or a notice: it holds the lock of the channels while it *)
(* greets the peers of a channel and asks the server to have them shoot,   *)
(* with g_pNetwork.  The list may be empty.                                *)
AddPeer == /\ \/ /\ link = "served" /\ chans /\ ~adding
                 /\ adding' = TRUE /\ UNCHANGED cmds
              \/ adding /\ adding' = FALSE /\ cmds' \in {cmds, PushRequestCmd}
           /\ UNCHANGED <<service, network, threads, tcp, chans>>

Faulted == thr["udp"] = "fault"
Threads == UdpClient \/ App \/ AppSend \/ \E t \in Thread : ThreadProc(t)
Next == /\ ~Faulted
        /\ \/ Main \/ Threads \/ OpenSource \/ CloseSource
           \/ OnConnected \/ OnDisconnected \/ TransCommand \/ AddPeer

SafeSpec == Init /\ [][Next]_vars

(* Threads run; of the network, of players and of datagrams nothing is     *)
(* assumed.                                                                *)
Fairness ==
    /\ WF_vars(~Faulted /\ Main)
    /\ WF_vars(UdpClient) /\ WF_vars(~Faulted /\ (App \/ AppSend))
    /\ \A t \in Thread : WF_vars(~Faulted /\ ThreadProc(t))

Spec == SafeSpec /\ Fairness

-----------------------------------------------------------------------------
(* The type invariant.                                                     *)
TypeOK ==
    /\ env \in Environments
    /\ main \in {"idle", "create", "udpstart", "udpreset", "connect",
                "waitconnect", "connected?", "appstart", "appreset",
                "waitauth", "drop", "null", "flush", "unset", "udpstop",
                "udpwait", "udpjoin", "appstop", "appwait", "appjoin",
                "release", "clear", "delete"}
    /\ {isConnected, obj, g, client, connected, evConnect, evAuth,
        cmds, chans, adding} \subseteq BOOLEAN
    /\ thr["udp"] \in {"none", "top", "recv", "use", "quiet", "task",
                       "done", "exit", "fault"}
    /\ thr["app"] \in {"none", "top", "pop", "send", "done", "exit"}
    /\ {hThread, evStop, wantStop} \subseteq [Thread -> BOOLEAN]
    /\ link \in {"none", "opening", "up", "asked", "served", "down"}
    /\ \A t \in Thread : thr[t] # "none" /\ ~hThread[t] =>
          thr[t] = "exit" /\ main = Joining[t]

(* When the object is gone, so are its threads and its connection: nobody  *)
(* is left who could call it (ReleaseModule, "delete this").               *)
NobodyLeftBehind == ~obj => /\ \A t \in Thread : thr[t] = "none"
                            /\ link = "none" /\ ~client /\ ~g
                            /\ ~chans /\ ~adding

(* The library's thread uses g_pNetwork without a test, when the login is  *)
(* answered and when it adds peers: it is set then (TransCommand, AddPeer).*)
CallsFindNetwork == link = "asked" \/ adding => g

(* The TCP thread sends over no connection that has been released, as long *)
(* as the login is sent before its answer is given up (ThreadProcMain).    *)
SendsOverConnection == env.prompt => (thr["app"] = "send" => link # "none")

(* WaitForStop, which has no timeout, never waits for an event that nobody *)
(* will set: as long as there is a handle, the thread is on its way to set *)
(* it or has set it, and StartThread's reset came before (KThread.h:92).   *)
StopIsHeard == \A t \in Thread :
    hThread[t] => evStop[t] \/ thr[t] \notin {"none", "exit"}

(* If the library reports what it releases, a service that takes itself    *)
(* for connected has logged in, and both its threads run.                  *)
ConnectedMeansServed ==
    env.reports /\ main = "idle" /\ isConnected =>
        /\ g /\ client /\ link = "served"
        /\ \A t \in Thread : thr[t] \notin {"none", "done", "exit"}

(* A service that is not connected comes to try anew, or is connected:     *)
(* neither a wait for an event nor a stop of a thread that datagrams keep  *)
(* busy goes on for ever (WaitForStop, CUdpClient::ThreadProcMain).        *)
TriesAgain == ~isConnected ~> (isConnected \/ main = "create" \/ Faulted)

=============================================================================
