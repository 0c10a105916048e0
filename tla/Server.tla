-------------------------------- MODULE Server --------------------------------
(***************************************************************************)
(* The server: the listener, the registry, the sockets and the threads of  *)
(* the sessions.  A session's transfer is one label, "transfer": what      *)
(* happens in it is the subject of TFTPSession, which shares nothing with  *)
(* other sessions but the descriptor its socket has.                       *)
(***************************************************************************)
EXTENDS Registry, CommPorts

serverVars == <<sConf, pc, registryVars, portVars>>

-----------------------------------------------------------------------------
(* The thread of a session between its registration and its end *)

(* A request is refused before its handler has made a socket: the packet   *)
(* was too small.  The loop is left at once.                               *)
RefuseRequest(s) ==
  /\ pc[s] = "socket" /\ RetryCount[s] = 0
  /\ LeaveLoop(s)

(* The transfer is over, or failed, or never began. *)
EndTransfer(s) ==
  /\ pc[s] = "transfer"
  /\ LeaveLoop(s)

(* delete sess *)
DeleteSession(s) ==
  /\ pc[s] = "delete"
  /\ CloseCommSocket(s)
  /\ Client' = [Client EXCEPT ![s] = Nobody]
  /\ Goto(s, "free")
  /\ UNCHANGED <<TransferCounter, ActiveClientList, loaded, listenerVars, misplaced,
                 sockfd, NextPortToUse, nextPort, RetryCount, err, searched, failed>>

Thread(s) ==
  \/ RegistryStep(s) /\ UNCHANGED portVars
  \/ CreateCommUDPSocket(s) /\ UNCHANGED registryVars
  \/ (RefuseRequest(s) \/ EndTransfer(s)) /\ UNCHANGED portVars
  \/ DeleteSession(s)

-----------------------------------------------------------------------------
(* RunTFTPServer *)

(* recvfrom() needs a socket to return anything. *)
Receive ==
  /\ IsOpen(sockfd)
  /\ \E c \in Clients : AdmitRRQ(c) \/ RecvWRQ(c)
  /\ UNCHANGED portVars

Decide ==
  /\ ScanCount \/ AdmitWRQ \/ ScanTest \/ RefuseWRQ \/ ScanNext \/ Crash
  /\ UNCHANGED portVars

(* ThreadDirectComm, called by the listener, returns. *)
ListenAgain ==
  /\ listener = "session" /\ Created = {}
  /\ CreateUDPSocket
  /\ listener' = "recvfrom"
  /\ UNCHANGED <<pc, Client, TransferCounter, ActiveClientList, loaded, request, slot, misplaced,
                 CommSocket, NextPortToUse, nextPort, RetryCount, err, searched, failed>>

ServerInit == ThreadsInit /\ RegistryInit /\ PortsInit

(* Bound: once two threads have met in the registry's code, the behaviour  *)
(* is followed until the listener has finished what it is doing.           *)
OverlapBound == ~overlapped \/ Scanning

ServerNext ==
  /\ listener # "crashed"
  /\ OverlapBound
  /\ Receive \/ Decide \/ ListenAgain \/ \E s \in Sessions : Thread(s)
  /\ Watch
  /\ UNCHANGED sConf

ServerSpec == ServerInit /\ [][ServerNext]_serverVars

-----------------------------------------------------------------------------
Labels ==
  {"free", "socket", "transfer", "delete"}
    \cup RegisterLabels \cup UnregisterLabels \cup PortLabels

ServerTypeOK ==
  /\ sConf \in Settings
  /\ pc \in [Sessions -> Labels]
  /\ RegistryTypeOK
  /\ PortsTypeOK

(* The search for a port ends at CommPortStart or above, whatever loads    *)
(* and stores of NextPortToUse the threads lose to each other: a number    *)
(* below it is never left behind without a thread about to correct         *)
(* it.  (A bind() may still use it before that happens.)                   *)
NextPortCorrected ==
  searched => \/ NextPortToUse >= CommPortStart
              \/ \E s \in Sessions : pc[s] \in {"check_port", "fix_port"}

(* As long as no two threads were in the registry's code at once, the      *)
(* counter is the number of sessions ...                                   *)
CounterExact ==
  ~overlapped /\ InRegistry = {} => TransferCounter = Cardinality(Running)

(* ... and if, besides, every session ended before those that registered   *)
(* earlier, the entries below the counter are those of the running ones:   *)
(* ThreadDirectComm clears the last entry, not its own.                    *)
ListExact ==
  ~overlapped /\ ~misplaced /\ InRegistry = {}
    => {ActiveClientList[i] : i \in 0 .. TransferCounter - 1} = Running

(* config.h: "Maximum number of transfers that can happen in parallel".    *)
ParallelLimit == Cardinality(Running \cup InRegistry) <= sConf.ParallelTransfersMax

(* It is kept as long as the counter's reader and its writers do not meet. *)
ParallelLimitOneByOne == ~overlapped => ParallelLimit

(* "Sometimes new session requests may come as duplicats. Need to filter   *)
(* out Duplicats": under the same conditions no write request is admitted  *)
(* from a client that has a session.                                       *)
DuplicatesRefused ==
  [][AdmitWRQ => overlapped \/ misplaced \/ \A s \in Running : Client[s] # request]_serverVars

(* As long as nobody has met anybody, no thread writes outside the list,   *)
(* and the scan dereferences no pointer but one of a session that runs, or *)
(* with misplaced, one that did: an entry below the counter was stored     *)
(* before it was counted and is cleared after.  Once accesses meet, the    *)
(* server can crash here.                                                  *)
ListAccessSafe ==
  ~overlapped =>
    /\ listener # "crashed"
    /\ \A s \in Sessions : pc[s] \in {"store_slot", "store_clear"} => loaded[s] \in Index
    /\ listener \in {"test", "use"} =>
         /\ slot \in Index
         /\ Entry \in IF misplaced THEN Sessions ELSE Running

(* As long as no socket() or bind() has failed, the number in CommSocket   *)
(* is that of the session's own open socket, although descriptors are used *)
(* again by other sessions: nobody sends on, or closes, another's.         *)
SocketOwned ==
  ~failed
    => \A s \in Sessions : CommSocket[s] # INVALID_SOCKET
         => fds[CommSocket[s]].maker = s

(* No socket is lost while it is open, whatever bind() calls fail, retries *)
(* and stale numbers there are; except the listener's, with                *)
(* ReuseServerPortForComm, when a session ends that never took it over.    *)
Held(f) == f = sockfd \/ \E s \in Sessions : CommSocket[s] = f

SocketsAccountedFor ==
  [][\A f \in Fds :
       Held(f) /\ IsOpen(f) /\ IsOpen(f)'
         => Held(f)' \/ (sConf.ReuseServerPortForComm /\ fds[f].maker = Listener)]_serverVars
=============================================================================
