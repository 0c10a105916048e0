----------------------------- MODULE Server_proofs -----------------------------
(***************************************************************************)
(* Proofs about Server: the port numbers and the sockets of the sessions,  *)
(* for every number of sessions, clients and descriptors, every range of   *)
(* ports and both kinds of communication socket.                           *)
(***************************************************************************)
EXTENDS Server, TLAPS

USE FdsAssumption, PortsAssumption, MakersAssumption

(* Between the socket() of a session and its end, and after its bind(). *)
Searching == {"load_port", "store_port", "check_port", "fix_port"}
Holding   == {"bind", "transfer", "delete"} \cup Searching \cup UnregisterLabels

ThreadsTypeOK == sConf \in Settings /\ pc \in [Sessions -> Labels]

(* An open socket is the listener's, or its maker is a session that has    *)
(* the socket's number and has not met an error with it.                   *)
KnownToItsMaker(f) ==
  /\ fds[f].maker \in Sessions
  /\ CommSocket[fds[f].maker] = f
  /\ pc[fds[f].maker] \in Holding
  /\ pc[fds[f].maker] \in Searching => err[fds[f].maker] = FALSE

OpenInv == \A f \in Fds : IsOpen(f) => fds[f].maker = Listener \/ KnownToItsMaker(f)

(* With ports of their own for the sessions, the listener keeps its socket. *)
ListenerInv ==
  ~sConf.ReuseServerPortForComm
    => /\ listener # "session"
       /\ \A f \in Fds : IsOpen(f) /\ fds[f].maker = Listener => f = sockfd

(* With the listener's port there is one session, run by the listener. *)
AloneInv ==
  sConf.ReuseServerPortForComm
    => /\ \A s, t \in Created : s = t
       /\ listener # "session" => Created = {}

LiveInv == \A s \in Sessions : CommSocket[s] # INVALID_SOCKET => Live(s)

SocketInv ==
  /\ ThreadsTypeOK /\ PortsTypeOK
  /\ OpenInv /\ ListenerInv /\ AloneInv /\ LiveInv /\ SocketOwned

-----------------------------------------------------------------------------
(* Facts about the operators of the model *)

LEMMA PortBounds ==
  /\ CommPortEnd \in Nat \ {0} /\ CommPortStart \in Nat /\ BuiltinCommPortStart \in Nat
  /\ 0 \in 0 .. CommPortEnd - 1 /\ 0 \in 0 .. MaxRetryCreateSocket - 1
BY SMT

LEMMA InvalidIsNoFd == INVALID_SOCKET \notin Fds
BY DEF INVALID_SOCKET

LEMMA RemainderInRange ==
  ASSUME NEW n \in Nat, NEW m \in Nat \ {0}
  PROVE  n % m \in 0 .. m - 1
BY SMT

(* A step of one thread moves that thread. *)
LEMMA GotoMoves ==
  ASSUME ThreadsTypeOK, NEW s \in Sessions, NEW l \in Labels, Goto(s, l), sConf' = sConf
  PROVE  /\ ThreadsTypeOK'
         /\ pc'[s] = l
         /\ \A t \in Sessions \ {s} : pc'[t] = pc[t]
BY DEF ThreadsTypeOK, Goto

(* close() leaves every other descriptor as it is. *)
LEMMA CloseCloses ==
  ASSUME PortsTypeOK, NEW f \in Fds \cup {INVALID_SOCKET}, close(f)
  PROVE  /\ fds' \in [Fds -> [maker : Sessions \cup {Listener, "none"}, port : Nat]]
         /\ \A g \in Fds : fds'[g] = IF g = f THEN Closed ELSE fds[g]
BY InvalidIsNoFd DEF PortsTypeOK, close, Closed, Socket, Unbound

-----------------------------------------------------------------------------
(* What the steps that touch neither the ports nor the sockets do *)

LEMMA RegistryLabels ==
  ASSUME NEW label \in RegisterLabels \cup UnregisterLabels
  PROVE  /\ NextLabel(label) \in Labels \ ({"free"} \cup PortLabels)
         /\ label \in UnregisterLabels => NextLabel(label) \in Holding
         /\ label \notin {"free", "check_port", "fix_port"}
         /\ label \in Holding => label \in UnregisterLabels
<1>1. label \in {"load_slot", "store_slot", "load_inc", "store_inc",
                 "load_dec", "store_dec", "load_clear", "store_clear"}
  BY DEF RegisterLabels, UnregisterLabels
<1> QED  BY <1>1 DEF NextLabel, Labels, PortLabels, Holding, Searching, RegisterLabels,
                     UnregisterLabels

(* A thread in the registry's code, or one that leaves its loop. *)
LEMMA QuietThreadStep ==
  ASSUME NEW s \in Sessions, RegistryStep(s) \/ RefuseRequest(s) \/ EndTransfer(s)
  PROVE  \E l \in Labels \ ({"free"} \cup PortLabels) :
           /\ Goto(s, l)
           /\ pc[s] \in Holding => l \in Holding
           /\ pc[s] \notin {"free", "check_port", "fix_port"}
           /\ listener' = listener
<1>1. CASE RegistryStep(s)
  <2>1. pc[s] \in RegisterLabels \cup UnregisterLabels
    BY <1>1 DEF RegistryStep, Load, StoreSlot, Increment, Decrement, ClearSlot,
                RegisterLabels, UnregisterLabels
  <2>2. Goto(s, NextLabel(pc[s])) /\ listener' = listener
    BY <1>1 DEF RegistryStep, listenerVars
  <2> QED  BY <2>1, <2>2, RegistryLabels
<1>2. CASE RefuseRequest(s) \/ EndTransfer(s)
  <2>1. pc[s] \in {"socket", "transfer"} /\ Goto(s, "load_dec") /\ listener' = listener
    BY <1>2 DEF RefuseRequest, EndTransfer, LeaveLoop, listenerVars
  <2>2. "load_dec" \in Labels \ ({"free"} \cup PortLabels) /\ "load_dec" \in Holding
    BY DEF Labels, Holding, UnregisterLabels, PortLabels
  <2> QED  BY <2>1, <2>2
<1> QED  BY <1>1, <1>2

LEMMA ThreadCases ==
  ASSUME NEW s \in Sessions, Thread(s)
  PROVE  \/ /\ RegistryStep(s) \/ RefuseRequest(s) \/ EndTransfer(s)
            /\ UNCHANGED portVars
         \/ CreateCommUDPSocket(s) /\ UNCHANGED registryVars
         \/ DeleteSession(s)
BY DEF Thread

(* The end of the loop of CreateCommUDPSocket. *)
LEMMA TryAgainMoves ==
  ASSUME NEW s \in Sessions, TryAgain(s)
  PROVE  \/ Goto(s, "socket") /\ err' = err /\ err[s]
         \/ Goto(s, "transfer") /\ err' = [err EXCEPT ![s] = FALSE]
BY DEF TryAgain, Return

(* The listener looks at a request, or starts a session for it. *)
ListenerLooks == listener # "session" /\ listener' # "session" /\ pc' = pc

ListenerStarts(s) ==
  /\ listener # "session"
  /\ listener' = IF sConf.ReuseServerPortForComm THEN "session" ELSE "recvfrom"
  /\ Goto(s, "load_slot")

LEMMA ListenerStep ==
  ASSUME Receive \/ Decide
  PROVE  /\ UNCHANGED portVars
         /\ ListenerLooks \/ \E s \in Sessions \ Created : ListenerStarts(s)
<1>1. UNCHANGED portVars  BY DEF Receive, Decide
<1>2. ASSUME NEW c, StartSession(c), listener # "session"
      PROVE  \E s \in Sessions \ Created : ListenerStarts(s)
  BY <1>2 DEF StartSession, ListenerStarts
<1>3. CASE Receive
  <2>1. PICK c \in Clients : AdmitRRQ(c) \/ RecvWRQ(c)  BY <1>3 DEF Receive
  <2>2. ASSUME AdmitRRQ(c) PROVE \E s \in Sessions \ Created : ListenerStarts(s)
    BY <1>2, <2>2 DEF AdmitRRQ
  <2>3. ASSUME RecvWRQ(c) PROVE ListenerLooks  BY <2>3 DEF RecvWRQ, ListenerLooks
  <2> QED  BY <1>1, <2>1, <2>2, <2>3
<1>4. CASE Decide
  <2>1. ASSUME AdmitWRQ PROVE \E s \in Sessions \ Created : ListenerStarts(s)
    BY <1>2, <2>1 DEF AdmitWRQ
  <2>2. ASSUME ScanCount \/ ScanTest \/ RefuseWRQ \/ ScanNext \/ Crash PROVE ListenerLooks
    BY <2>2 DEF ScanCount, ScanTest, RefuseWRQ, ScanNext, Crash, ListenerGoto,
                ListenerLooks
  <2> QED  BY <1>1, <1>4, <2>1, <2>2 DEF Decide
<1> QED  BY <1>3, <1>4

-----------------------------------------------------------------------------
(* NextPortToUse *)

PortInv == ThreadsTypeOK /\ NextPortCorrected

(* Steps of a thread that leave NextPortToUse alone and do not take the    *)
(* thread away from its correction.                                        *)
LEMMA OtherStepsKeepPort ==
  ASSUME PortInv, NEW s \in Sessions, NEW l \in Labels, Goto(s, l), sConf' = sConf,
         UNCHANGED <<NextPortToUse, searched>>,
         \/ pc[s] \notin {"check_port", "fix_port"}
         \/ l = "fix_port"
         \/ NextPortToUse >= CommPortStart
  PROVE  PortInv'
<1>1. /\ ThreadsTypeOK' /\ pc'[s] = l
      /\ \A t \in Sessions \ {s} : pc'[t] = pc[t]
  BY GotoMoves DEF PortInv
<1>2. NextPortCorrected'
  BY <1>1 DEF PortInv, NextPortCorrected
<1> QED  BY <1>1, <1>2 DEF PortInv


(* A thread that stores a number below the range checks it next. *)
LEMMA ThreadKeepsPort ==
  ASSUME PortInv, NEW s \in Sessions, Thread(s), sConf' = sConf
  PROVE  PortInv'
<1> USE DEF Labels, PortLabels
<1>1. CASE /\ RegistryStep(s) \/ RefuseRequest(s) \/ EndTransfer(s)
           /\ UNCHANGED portVars
  <2>1. PICK l \in Labels : Goto(s, l) /\ pc[s] \notin {"check_port", "fix_port"}
    BY <1>1, QuietThreadStep
  <2> QED  BY <1>1, <2>1, OtherStepsKeepPort DEF portVars
<1>2. CASE DeleteSession(s)
  BY <1>2, OtherStepsKeepPort DEF DeleteSession
<1>3. CASE ReuseServerSocket(s)
  BY <1>3, OtherStepsKeepPort DEF ReuseServerSocket
<1>4. CASE CreateSocket(s)
  <2>1. /\ Goto(s, "bind") \/ Goto(s, "transfer")
        /\ pc[s] = "socket" /\ UNCHANGED <<NextPortToUse, searched>>
    BY <1>4 DEF CreateSocket, Return
  <2> QED  BY <2>1, OtherStepsKeepPort
<1>5. CASE BindAndConnect(s)
  BY <1>5, OtherStepsKeepPort DEF BindAndConnect
<1>6. CASE LoadPort(s)
  BY <1>6, OtherStepsKeepPort DEF LoadPort
<1>7. CASE StorePort(s)
  <2>1. ThreadsTypeOK' /\ pc'[s] = "check_port"
    BY <1>7, GotoMoves DEF StorePort, PortInv
  <2> QED  BY <2>1 DEF PortInv, NextPortCorrected
<1>8. CASE CheckPort(s)
  <2>1. \/ Goto(s, "fix_port")
        \/ NextPortToUse >= CommPortStart /\ (Goto(s, "socket") \/ Goto(s, "transfer"))
    BY <1>8, TryAgainMoves DEF CheckPort
  <2> QED  BY <1>8, <2>1, OtherStepsKeepPort DEF CheckPort
<1>9. CASE FixPort(s)
  <2>1. Goto(s, "socket") \/ Goto(s, "transfer")  BY <1>9, TryAgainMoves DEF FixPort
  <2>2. ThreadsTypeOK'  BY <2>1, GotoMoves DEF PortInv
  <2>3. NextPortToUse' >= CommPortStart  BY <1>9, SMT DEF FixPort
  <2> QED  BY <2>2, <2>3 DEF PortInv, NextPortCorrected
<1> QED  BY <1>1, <1>2, <1>3, <1>4, <1>5, <1>6, <1>7, <1>8, <1>9, ThreadCases
         DEF CreateCommUDPSocket

LEMMA InitPortInv == ServerInit => PortInv
BY DEF ServerInit, ThreadsInit, PortsInit, PortInv, ThreadsTypeOK, NextPortCorrected, Labels

LEMMA NextPortInv == PortInv /\ [ServerNext]_serverVars => PortInv'
<1> SUFFICES ASSUME PortInv, [ServerNext]_serverVars PROVE PortInv'  OBVIOUS
<1>1. CASE (Receive \/ Decide) /\ sConf' = sConf
  <2>1. UNCHANGED <<NextPortToUse, searched>>  BY <1>1, ListenerStep DEF portVars
  <2>2. CASE ListenerLooks
    BY <1>1, <2>1, <2>2 DEF ListenerLooks, PortInv, ThreadsTypeOK, NextPortCorrected
  <2>3. ASSUME NEW s \in Sessions \ Created, ListenerStarts(s) PROVE PortInv'
    <3>1. "load_slot" \in Labels  BY DEF Labels, RegisterLabels
    <3>2. pc[s] = "free"  BY DEF Created, Live
    <3> QED  BY <1>1, <2>1, <2>3, <3>1, <3>2, OtherStepsKeepPort DEF ListenerStarts
  <2> QED  BY <1>1, <2>2, <2>3, ListenerStep
<1>2. CASE ListenAgain /\ sConf' = sConf
  BY <1>2 DEF ListenAgain, PortInv, ThreadsTypeOK, NextPortCorrected
<1>3. ASSUME NEW s \in Sessions, Thread(s), sConf' = sConf PROVE PortInv'
  BY <1>3, ThreadKeepsPort
<1>4. CASE UNCHANGED serverVars
  BY <1>4 DEF serverVars, portVars, PortInv, ThreadsTypeOK, NextPortCorrected
<1> QED  BY <1>1, <1>2, <1>3, <1>4 DEF ServerNext

(* The search for a port ends in the configured range, whatever loads and  *)
(* stores of NextPortToUse the threads lose to each other.                 *)
THEOREM PortsCorrected == ServerSpec => []NextPortCorrected
<1>1. PortInv => NextPortCorrected  BY DEF PortInv
<1> QED  BY <1>1, InitPortInv, NextPortInv, PTL DEF ServerSpec

-----------------------------------------------------------------------------
(* The sockets *)

LEMMA PortsTypes ==
  ASSUME PortsTypeOK
  PROVE  /\ fds \in [Fds -> [maker : Sessions \cup {Listener, "none"}, port : Nat]]
         /\ sockfd \in Fds \cup {INVALID_SOCKET}
         /\ CommSocket \in [Sessions -> Fds \cup {INVALID_SOCKET}]
         /\ err \in [Sessions -> BOOLEAN]
BY DEF PortsTypeOK

(* A thread that leaves the sockets alone and does not start a search. *)
LEMMA QuietKeepsSockets ==
  ASSUME SocketInv, NEW s \in Sessions, NEW l \in Labels \ ({"free"} \cup PortLabels),
         Goto(s, l), pc[s] \in Holding => l \in Holding, pc[s] # "free",
         UNCHANGED portVars, sConf' = sConf, listener' = listener
  PROVE  SocketInv'
<1> USE DEF SocketInv
<1>1. /\ ThreadsTypeOK' /\ pc'[s] = l
      /\ \A t \in Sessions \ {s} : pc'[t] = pc[t]
  BY GotoMoves
<1>2. PortsTypeOK'  BY DEF PortsTypeOK, portVars
<1>3. l \notin Searching /\ l # "free"  BY DEF Searching, PortLabels
<1>4. OpenInv'  BY <1>1, <1>3 DEF OpenInv, IsOpen, KnownToItsMaker, portVars
<1>5. ListenerInv'  BY DEF ListenerInv, IsOpen, portVars
<1>6. Created' = Created  BY <1>1, <1>3 DEF Created, Live
<1>7. AloneInv'  BY <1>6 DEF AloneInv
<1>8. LiveInv'  BY <1>1, <1>3 DEF LiveInv, Live, portVars
<1>9. SocketOwned'  BY DEF SocketOwned, portVars
<1> QED  BY <1>1, <1>2, <1>4, <1>5, <1>7, <1>8, <1>9

LEMMA ListenerKeepsSockets ==
  ASSUME SocketInv, Receive \/ Decide, sConf' = sConf
  PROVE  SocketInv'
<1> USE DEF SocketInv
<1>1. UNCHANGED portVars  BY ListenerStep
<1>2. PortsTypeOK' /\ SocketOwned'  BY <1>1 DEF PortsTypeOK, SocketOwned, portVars
<1>3. CASE ListenerLooks
  <2>1. ThreadsTypeOK' /\ pc' = pc  BY <1>3 DEF ThreadsTypeOK, ListenerLooks
  <2>2. Created' = Created  BY <2>1 DEF Created, Live
  <2>3. OpenInv' /\ LiveInv'
    BY <1>1, <2>1 DEF OpenInv, IsOpen, KnownToItsMaker, LiveInv, Live, portVars
  <2>4. ListenerInv' /\ AloneInv'
    BY <1>1, <1>3, <2>2 DEF ListenerInv, AloneInv, IsOpen, portVars, ListenerLooks
  <2> QED  BY <1>2, <2>1, <2>3, <2>4
<1>4. ASSUME NEW s \in Sessions \ Created, ListenerStarts(s) PROVE SocketInv'
  <2>1. "load_slot" \in Labels /\ "load_slot" \notin Holding \cup {"free"}
    BY DEF Labels, RegisterLabels, Holding, Searching, UnregisterLabels
  <2>2. /\ ThreadsTypeOK' /\ pc'[s] = "load_slot"
        /\ \A t \in Sessions \ {s} : pc'[t] = pc[t]
    BY <1>4, <2>1, GotoMoves DEF ListenerStarts
  <2>3. pc[s] = "free" /\ pc[s] \notin Holding
    BY DEF Created, Live, Holding, Searching, UnregisterLabels
  <2>4. OpenInv'
    BY <1>1, <2>1, <2>2, <2>3 DEF OpenInv, IsOpen, KnownToItsMaker, portVars
  <2>5. LiveInv'  BY <1>1, <2>1, <2>2 DEF LiveInv, Live, portVars
  <2>6. ListenerInv'
    BY <1>1, <1>4 DEF ListenerInv, IsOpen, portVars, ListenerStarts
  <2>7. Created' = Created \cup {s}  BY <2>1, <2>2 DEF Created, Live
  <2>8. AloneInv'
    BY <1>4, <2>7 DEF AloneInv, ListenerStarts
  <2> QED  BY <1>2, <2>2, <2>4, <2>5, <2>6, <2>8
<1> QED  BY <1>3, <1>4, ListenerStep

(* The listener makes its socket when there is no session. *)
LEMMA ListenAgainKeepsSockets ==
  ASSUME SocketInv, ListenAgain, sConf' = sConf
  PROVE  SocketInv'
<1> USE DEF SocketInv
<1>1. /\ listener = "session" /\ Created = {} /\ listener' = "recvfrom" /\ pc' = pc
      /\ CommSocket' = CommSocket /\ err' = err /\ CreateUDPSocket
      /\ UNCHANGED <<NextPortToUse, nextPort, RetryCount, searched, failed>>
  BY DEF ListenAgain
<1>2. ServerPort \in Nat /\ Listener \in Sessions \cup {Listener, "none"}
      /\ INVALID_SOCKET \notin Fds
  BY InvalidIsNoFd
<1>3. /\ fds' \in [Fds -> [maker : Sessions \cup {Listener, "none"}, port : Nat]]
      /\ sockfd' \in Fds \cup {INVALID_SOCKET}
      /\ \A f \in Fds : fds'[f] = fds[f] \/ fds'[f].maker = Listener
  BY <1>1, <1>2, PortsTypes DEF CreateUDPSocket, Lowest, Socket
<1>4. PortsTypeOK'  BY <1>1, <1>3 DEF PortsTypeOK
<1>5. ThreadsTypeOK' /\ Created' = {}  BY <1>1 DEF ThreadsTypeOK, Created, Live
<1>6. \A s \in Sessions : CommSocket[s] = INVALID_SOCKET
  BY <1>1 DEF LiveInv, Created
<1>7. OpenInv'  BY <1>1, <1>3 DEF OpenInv, IsOpen, KnownToItsMaker
<1>8. sConf.ReuseServerPortForComm  BY <1>1 DEF ListenerInv
<1>9. ListenerInv' /\ AloneInv'  BY <1>5, <1>8 DEF ListenerInv, AloneInv
<1>10. LiveInv' /\ SocketOwned'  BY <1>1, <1>6 DEF LiveInv, SocketOwned
<1> QED  BY <1>4, <1>5, <1>7, <1>9, <1>10

(* What every step of a live thread keeps. *)
LEMMA ThreadKeepsAlone ==
  ASSUME SocketInv, NEW s \in Sessions, Live(s), NEW l \in Labels, Goto(s, l),
         sConf' = sConf, listener' = listener
  PROVE  /\ ThreadsTypeOK' /\ AloneInv'
         /\ pc'[s] = l
         /\ \A t \in Sessions \ {s} : pc'[t] = pc[t]
<1>1. /\ ThreadsTypeOK' /\ pc'[s] = l
      /\ \A t \in Sessions \ {s} : pc'[t] = pc[t]
  BY GotoMoves DEF SocketInv
<1>2. Created' \subseteq Created  BY <1>1 DEF Created, Live
<1>3. AloneInv'  BY <1>2 DEF SocketInv, AloneInv
<1> QED  BY <1>1, <1>3

(* Steps of the search that leave the sockets and their numbers alone. *)
LEMMA SearchKeepsSockets ==
  ASSUME SocketInv, NEW s \in Sessions, pc[s] \in Searching,
         NEW l \in Labels \ {"free"}, Goto(s, l), PortsTypeOK',
         \/ l \in Searching /\ err' = err
         \/ l = "transfer" /\ err' = [err EXCEPT ![s] = FALSE]
         \/ l = "socket" /\ err' = err /\ err[s],
         UNCHANGED <<fds, sockfd, CommSocket, failed>>, sConf' = sConf, listener' = listener
  PROVE  SocketInv'
<1> USE DEF SocketInv
<1>1. Live(s)  BY DEF Live, Searching
<1>2. /\ ThreadsTypeOK' /\ AloneInv' /\ pc'[s] = l
      /\ \A t \in Sessions \ {s} : pc'[t] = pc[t]
  BY <1>1, ThreadKeepsAlone
<1>3. \A t \in Sessions \ {s} : err'[t] = err[t]  BY PortsTypes
<1>4. OpenInv'
  <2> SUFFICES ASSUME NEW f \in Fds, IsOpen(f), fds[f].maker # Listener
               PROVE  KnownToItsMaker(f)'
    BY DEF OpenInv, IsOpen
  <2>1. KnownToItsMaker(f)  BY DEF OpenInv
  <2>2. CASE fds[f].maker # s
    BY <1>2, <1>3, <2>1, <2>2 DEF KnownToItsMaker
  <2>3. CASE fds[f].maker = s
    <3>1. err[s] = FALSE  BY <2>1, <2>3 DEF KnownToItsMaker
    <3>2. l \in Holding /\ (l \in Searching => err' = err)
      BY <3>1 DEF Holding, Searching
    <3> QED  BY <1>2, <2>1, <2>3, <3>1, <3>2 DEF KnownToItsMaker
  <2> QED  BY <2>2, <2>3
<1>5. ListenerInv'  BY DEF ListenerInv, IsOpen
<1>6. LiveInv'  BY <1>2 DEF LiveInv, Live
<1>7. SocketOwned'  BY DEF SocketOwned
<1> QED  BY <1>2, <1>4, <1>5, <1>6, <1>7

LEMMA ReuseServerSocketStep ==
  ASSUME SocketInv, NEW s \in Sessions, ReuseServerSocket(s), sConf' = sConf,
         listener' = listener
  PROVE  SocketInv'
<1> USE DEF SocketInv
<1>1. /\ pc[s] = "socket" /\ Goto(s, "transfer") /\ sConf.ReuseServerPortForComm
      /\ CommSocket' = [CommSocket EXCEPT ![s] = sockfd]
      /\ UNCHANGED <<sockfd, NextPortToUse, nextPort, RetryCount, err, searched>>
      /\ \/ fds' = [fds EXCEPT ![sockfd].maker = s] /\ failed' = failed
         \/ close(sockfd) /\ failed' = TRUE
  BY DEF ReuseServerSocket
<1>2. "transfer" \in Labels /\ "transfer" \in Holding \ ({"free"} \cup Searching)
  BY DEF Labels, Holding, Searching
<1>3. Live(s)  BY <1>1 DEF Live
<1>4. /\ ThreadsTypeOK' /\ AloneInv' /\ pc'[s] = "transfer"
      /\ \A t \in Sessions \ {s} : pc'[t] = pc[t]
  BY <1>1, <1>2, <1>3, ThreadKeepsAlone
<1>5. /\ fds' \in [Fds -> [maker : Sessions \cup {Listener, "none"}, port : Nat]]
      /\ \A f \in Fds : \/ fds'[f] = fds[f]
                        \/ f = sockfd /\ (fds'[f].maker = s \/ fds'[f] = Closed)
  <2>1. CASE fds' = [fds EXCEPT ![sockfd].maker = s]  BY <2>1, PortsTypes
  <2>2. CASE close(sockfd)  BY <2>2, PortsTypes, CloseCloses
  <2> QED  BY <1>1, <2>1, <2>2
<1>6. failed' \in BOOLEAN  BY <1>1, Zenon DEF PortsTypeOK
<1>7. CommSocket' \in [Sessions -> Fds \cup {INVALID_SOCKET}]  BY <1>1, PortsTypes
<1>8. PortsTypeOK'  BY <1>1, <1>5, <1>6, <1>7 DEF PortsTypeOK
<1>9. /\ CommSocket'[s] = sockfd
      /\ \A t \in Sessions \ {s} : CommSocket'[t] = CommSocket[t]
  BY <1>1, PortsTypes
<1>10. OpenInv'
  <2> SUFFICES ASSUME NEW f \in Fds, IsOpen(f)', fds'[f].maker # Listener
               PROVE  KnownToItsMaker(f)'
    BY DEF OpenInv
  <2>1. CASE f = sockfd /\ fds'[f].maker = s
    BY <1>2, <1>4, <1>9, <2>1 DEF KnownToItsMaker
  <2>2. CASE fds'[f] = fds[f]
    <3>1. KnownToItsMaker(f)  BY <2>2 DEF OpenInv, IsOpen
    <3>2. fds[f].maker # s
      BY <1>1, <3>1 DEF KnownToItsMaker, Holding, Searching, UnregisterLabels
    <3> QED  BY <1>1, <1>4, <1>9, <2>2, <3>1, <3>2 DEF KnownToItsMaker
  <2> QED  BY <1>5, <2>1, <2>2 DEF IsOpen
<1>11. ListenerInv'  BY <1>1 DEF ListenerInv
<1>12. LiveInv'  BY <1>2, <1>4, <1>9 DEF LiveInv, Live
<1>13. SocketOwned'
  <2> SUFFICES ASSUME ~failed', NEW t \in Sessions, CommSocket'[t] # INVALID_SOCKET
               PROVE  fds'[CommSocket'[t]].maker = t
    BY DEF SocketOwned
  <2>1. t = s
    <3>1. t # s => Live(t)  BY <1>9 DEF LiveInv
    <3> QED  BY <1>1, <1>3, <3>1 DEF AloneInv, Created
  <2>2. fds' = [fds EXCEPT ![sockfd].maker = s] /\ sockfd \in Fds
    BY <1>1, <1>9, <2>1, PortsTypes
  <2> QED  BY <1>9, <2>1, <2>2, PortsTypes
<1> QED  BY <1>4, <1>8, <1>10, <1>11, <1>12, <1>13

LEMMA CreateSocketStep ==
  ASSUME SocketInv, NEW s \in Sessions, CreateSocket(s), sConf' = sConf,
         listener' = listener
  PROVE  SocketInv'
<1> USE DEF SocketInv
<1>1. /\ pc[s] = "socket" /\ ~sConf.ReuseServerPortForComm
      /\ UNCHANGED <<sockfd, NextPortToUse, nextPort, searched>>
  BY DEF CreateSocket
<1>2. /\ Live(s) /\ pc[s] \notin Holding
      /\ {"bind", "transfer"} \subseteq Labels \ ({"free"} \cup Searching)
      /\ "bind" \in Holding
  BY <1>1 DEF Live, Holding, Searching, Labels, UnregisterLabels, PortLabels
<1>3. ASSUME NEW f \in Fds, Lowest(f, FreeFds), Goto(s, "bind"),
             CommSocket' = [CommSocket EXCEPT ![s] = f],
             fds' = [fds EXCEPT ![f] = Socket(s, Unbound)],
             UNCHANGED <<RetryCount, err, failed>>
      PROVE  SocketInv'
  <2>1. fds[f] = Closed  BY <1>3 DEF Lowest, FreeFds
  <2>2. /\ fds' \in [Fds -> [maker : Sessions \cup {Listener, "none"}, port : Nat]]
        /\ fds'[f].maker = s
        /\ \A g \in Fds \ {f} : fds'[g] = fds[g]
    BY <1>3, PortsTypes DEF Socket, Unbound
  <2>3. /\ CommSocket' \in [Sessions -> Fds \cup {INVALID_SOCKET}]
        /\ CommSocket'[s] = f
        /\ \A t \in Sessions \ {s} : CommSocket'[t] = CommSocket[t]
    BY <1>3, PortsTypes
  <2>4. PortsTypeOK'  BY <1>1, <1>3, <2>2, <2>3 DEF PortsTypeOK
  <2>5. /\ ThreadsTypeOK' /\ AloneInv' /\ pc'[s] = "bind"
        /\ \A t \in Sessions \ {s} : pc'[t] = pc[t]
    BY <1>2, <1>3, ThreadKeepsAlone
  <2>6. OpenInv'
    <3> SUFFICES ASSUME NEW g \in Fds, IsOpen(g)', fds'[g].maker # Listener
                 PROVE  KnownToItsMaker(g)'
      BY DEF OpenInv
    <3>1. CASE g = f  BY <1>2, <2>2, <2>3, <2>5, <3>1 DEF KnownToItsMaker
    <3>2. CASE g # f
      <4>1. KnownToItsMaker(g)  BY <2>2, <3>2 DEF OpenInv, IsOpen
      <4>2. fds[g].maker # s  BY <1>2, <4>1 DEF KnownToItsMaker
      <4> QED  BY <1>3, <2>2, <2>3, <2>5, <3>2, <4>1, <4>2 DEF KnownToItsMaker
    <3> QED  BY <3>1, <3>2
  <2>7. ListenerInv'
    BY <1>1, <2>2 DEF ListenerInv, IsOpen
  <2>8. LiveInv'  BY <2>3, <2>5 DEF LiveInv, Live
  <2>9. SocketOwned'
    <3> SUFFICES ASSUME ~failed, NEW t \in Sessions \ {s}, CommSocket[t] # INVALID_SOCKET
                 PROVE  fds'[CommSocket[t]].maker = t
      BY <1>3, <2>2, <2>3 DEF SocketOwned
    <3>1. fds[CommSocket[t]].maker = t /\ CommSocket[t] \in Fds
      BY PortsTypes DEF SocketOwned
    <3>2. CommSocket[t] # f  BY <2>1, <3>1 DEF Closed, Socket
    <3> QED  BY <2>2, <3>1, <3>2
  <2> QED  BY <2>4, <2>5, <2>6, <2>7, <2>8, <2>9
<1>4. ASSUME CommSocket' = [CommSocket EXCEPT ![s] = INVALID_SOCKET],
             failed' = TRUE, Return(s), fds' = fds
      PROVE  SocketInv'
  <2>1. /\ Goto(s, "transfer") /\ err' = [err EXCEPT ![s] = FALSE]
        /\ RetryCount' = [RetryCount EXCEPT ![s] = 0]
    BY <1>4 DEF Return
  <2>2. /\ CommSocket' \in [Sessions -> Fds \cup {INVALID_SOCKET}]
        /\ CommSocket'[s] = INVALID_SOCKET
        /\ \A t \in Sessions \ {s} : CommSocket'[t] = CommSocket[t] /\ err'[t] = err[t]
    BY <1>4, <2>1, PortsTypes
  <2>3. RetryCount' \in [Sessions -> 0 .. MaxRetryCreateSocket - 1]
    BY <2>1, PortBounds DEF PortsTypeOK
  <2>4. err' \in [Sessions -> BOOLEAN] /\ failed' \in BOOLEAN
    BY <1>4, <2>1, PortsTypes
  <2>5. PortsTypeOK'  BY <1>1, <1>4, <2>2, <2>3, <2>4 DEF PortsTypeOK
  <2>6. /\ ThreadsTypeOK' /\ AloneInv' /\ pc'[s] = "transfer"
        /\ \A t \in Sessions \ {s} : pc'[t] = pc[t]
    BY <1>2, <2>1, ThreadKeepsAlone
  <2>7. OpenInv'
    <3> SUFFICES ASSUME NEW g \in Fds, IsOpen(g), fds[g].maker # Listener
                 PROVE  KnownToItsMaker(g)'
      BY <1>4 DEF OpenInv, IsOpen
    <3>1. KnownToItsMaker(g) /\ fds[g].maker # s
      BY <1>2 DEF OpenInv, KnownToItsMaker
    <3> QED  BY <1>4, <2>2, <2>6, <3>1 DEF KnownToItsMaker
  <2>8. ListenerInv'  BY <1>1, <1>4 DEF ListenerInv, IsOpen
  <2>9. LiveInv' /\ SocketOwned'  BY <1>4, <2>2, <2>6 DEF LiveInv, Live, SocketOwned
  <2> QED  BY <2>5, <2>6, <2>7, <2>8, <2>9
<1> QED  BY <1>3, <1>4 DEF CreateSocket

(* Whatever is closed, no other socket changes. *)
LEMMA BindAndConnectStep ==
  ASSUME SocketInv, NEW s \in Sessions, BindAndConnect(s), sConf' = sConf,
         listener' = listener
  PROVE  SocketInv'
<1> USE DEF SocketInv
<1>1. /\ pc[s] = "bind" /\ Goto(s, "load_port")
      /\ UNCHANGED <<sockfd, CommSocket, NextPortToUse, nextPort, RetryCount, searched>>
  BY DEF BindAndConnect
<1>2. Live(s) /\ "load_port" \in Labels \ {"free"} /\ "load_port" \in Holding
  BY <1>1 DEF Live, Labels, PortLabels, Holding, Searching
<1>3. /\ ThreadsTypeOK' /\ AloneInv' /\ pc'[s] = "load_port"
      /\ \A t \in Sessions \ {s} : pc'[t] = pc[t]
  BY <1>1, <1>2, ThreadKeepsAlone
<1>4. CommSocket[s] \in Fds \cup {INVALID_SOCKET}  BY PortsTypes
<1>5. ASSUME IsOpen(CommSocket[s]), NEW p \in Bindable(NextPortToUse),
             fds' = [fds EXCEPT ![CommSocket[s]].port = p], Err(s, FALSE)
      PROVE  SocketInv'
  <2>1. p \in Nat  BY <1>5 DEF Bindable, PortsTypeOK
  <2>2. /\ fds' \in [Fds -> [maker : Sessions \cup {Listener, "none"}, port : Nat]]
        /\ \A f \in Fds : /\ fds'[f].maker = fds[f].maker
                          /\ fds'[f] = fds[f] \/ (f = CommSocket[s] /\ IsOpen(f))
    <3> DEFINE c == CommSocket[s]
    <3>1. c \in Fds /\ IsOpen(c)  BY <1>5 DEF IsOpen
    <3>2. fds' = [fds EXCEPT ![c].port = p]  BY <1>5
    <3> HIDE DEF c
    <3>3. /\ fds' \in [Fds -> [maker : Sessions \cup {Listener, "none"}, port : Nat]]
          /\ \A f \in Fds : /\ fds'[f].maker = fds[f].maker
                            /\ fds'[f] = fds[f] \/ f = c
      BY <2>1, <3>1, <3>2, PortsTypes
    <3> QED  BY <3>1, <3>3 DEF c
  <2>3. err' = [err EXCEPT ![s] = FALSE] /\ failed' = failed
    <3>1. failed \in BOOLEAN  BY DEF PortsTypeOK
    <3> QED  BY <1>5, <3>1, Zenon DEF Err
  <2>4. /\ err' \in [Sessions -> BOOLEAN] /\ err'[s] = FALSE
        /\ \A t \in Sessions \ {s} : err'[t] = err[t]
    BY <2>3, PortsTypes
  <2>5. PortsTypeOK'  BY <1>1, <2>2, <2>3, <2>4 DEF PortsTypeOK
  <2>6. \A f \in Fds : IsOpen(f)' => IsOpen(f)  BY <2>2 DEF IsOpen
  <2>7. OpenInv'
    BY <1>1, <1>2, <1>3, <2>2, <2>4, <2>6 DEF OpenInv, KnownToItsMaker
  <2>8. ListenerInv'
    <3>1. ListenerInv /\ sockfd' = sockfd /\ sConf' = sConf /\ listener' = listener
      BY <1>1
    <3>2. \A f \in Fds : /\ fds'[f].maker = fds[f].maker
                         /\ IsOpen(f)' => IsOpen(f)
      BY <2>2, <2>6
    <3> HIDE DEF SocketInv
    <3> QED  BY <3>1, <3>2 DEF ListenerInv
  <2>9. LiveInv'  BY <1>1, <1>2, <1>3 DEF LiveInv, Live
  <2>10. SocketOwned'
    <3> SUFFICES ASSUME ~failed, NEW t \in Sessions, CommSocket[t] # INVALID_SOCKET
                 PROVE  fds'[CommSocket[t]].maker = t
      <4>1. CommSocket' = CommSocket /\ failed' = failed  BY <1>1, <2>3
      <4> QED  BY <4>1 DEF SocketOwned
    <3>1. CommSocket[t] \in Fds  BY PortsTypes
    <3>2. fds[CommSocket[t]].maker = t  BY DEF SocketOwned
    <3> QED  BY <2>2, <3>1, <3>2
  <2> QED  BY <1>3, <2>5, <2>7, <2>8, <2>9, <2>10
<1>6. ASSUME close(CommSocket[s]), Err(s, TRUE) PROVE SocketInv'
  <2>1. /\ fds' \in [Fds -> [maker : Sessions \cup {Listener, "none"}, port : Nat]]
        /\ \A f \in Fds : fds'[f] = IF f = CommSocket[s] THEN Closed ELSE fds[f]
    BY <1>4, <1>6, CloseCloses
  <2>2. err' = [err EXCEPT ![s] = TRUE] /\ failed' = TRUE  BY <1>6, Zenon DEF Err
  <2>3. /\ err' \in [Sessions -> BOOLEAN]
        /\ \A t \in Sessions \ {s} : err'[t] = err[t]
    BY <2>2, PortsTypes
  <2>4. PortsTypeOK'  BY <1>1, <2>1, <2>2, <2>3 DEF PortsTypeOK
  <2>5. OpenInv'
    <3> SUFFICES ASSUME NEW f \in Fds, IsOpen(f)', fds'[f].maker # Listener
                 PROVE  KnownToItsMaker(f)'
      BY DEF OpenInv
    <3>1. f # CommSocket[s] /\ fds'[f] = fds[f] /\ IsOpen(f)  BY <2>1 DEF IsOpen
    <3>2. KnownToItsMaker(f) /\ fds[f].maker # s
      BY <3>1 DEF OpenInv, KnownToItsMaker
    <3> QED  BY <1>1, <1>3, <2>3, <3>1, <3>2 DEF KnownToItsMaker
  <2>6. ListenerInv'  BY <1>1, <2>1 DEF ListenerInv, IsOpen
  <2>7. LiveInv'  BY <1>1, <1>2, <1>3 DEF LiveInv, Live
  <2>8. SocketOwned'  BY <2>2 DEF SocketOwned
  <2> QED  BY <1>3, <2>4, <2>5, <2>6, <2>7, <2>8
<1> QED  BY <1>5, <1>6 DEF BindAndConnect

LEMMA DeleteSessionStep ==
  ASSUME SocketInv, NEW s \in Sessions, DeleteSession(s), sConf' = sConf
  PROVE  SocketInv'
<1> USE DEF SocketInv
<1>1. /\ pc[s] = "delete" /\ Goto(s, "free") /\ listener' = listener
      /\ close(CommSocket[s]) /\ CommSocket' = [CommSocket EXCEPT ![s] = INVALID_SOCKET]
      /\ UNCHANGED <<sockfd, NextPortToUse, nextPort, RetryCount, err, searched, failed>>
  BY DEF DeleteSession, CloseCommSocket, listenerVars
<1>2. Live(s) /\ "free" \in Labels /\ CommSocket[s] \in Fds \cup {INVALID_SOCKET}
  BY <1>1, PortsTypes DEF Live, Labels
<1>3. /\ ThreadsTypeOK' /\ AloneInv' /\ pc'[s] = "free"
      /\ \A t \in Sessions \ {s} : pc'[t] = pc[t]
  BY <1>1, <1>2, ThreadKeepsAlone
<1>4. /\ fds' \in [Fds -> [maker : Sessions \cup {Listener, "none"}, port : Nat]]
      /\ \A f \in Fds : fds'[f] = IF f = CommSocket[s] THEN Closed ELSE fds[f]
  BY <1>1, <1>2, CloseCloses
<1>5. /\ CommSocket' \in [Sessions -> Fds \cup {INVALID_SOCKET}]
      /\ CommSocket'[s] = INVALID_SOCKET
      /\ \A t \in Sessions \ {s} : CommSocket'[t] = CommSocket[t]
  BY <1>1, PortsTypes
<1>6. PortsTypeOK'  BY <1>1, <1>4, <1>5 DEF PortsTypeOK
<1>7. OpenInv'
  <2> SUFFICES ASSUME NEW f \in Fds, IsOpen(f)', fds'[f].maker # Listener
               PROVE  KnownToItsMaker(f)'
    BY DEF OpenInv
  <2>1. f # CommSocket[s] /\ fds'[f] = fds[f] /\ IsOpen(f)  BY <1>4 DEF IsOpen
  <2>2. KnownToItsMaker(f) /\ fds[f].maker # s
    BY <2>1 DEF OpenInv, KnownToItsMaker
  <2> QED  BY <1>1, <1>3, <1>5, <2>1, <2>2 DEF KnownToItsMaker
<1>8. ListenerInv'  BY <1>1, <1>4 DEF ListenerInv, IsOpen
<1>9. LiveInv'  BY <1>3, <1>5 DEF LiveInv, Live
<1>10. SocketOwned'
  <2> SUFFICES ASSUME ~failed, NEW t \in Sessions \ {s}, CommSocket[t] # INVALID_SOCKET
               PROVE  fds'[CommSocket[t]].maker = t
    BY <1>1, <1>5 DEF SocketOwned
  <2>1. CommSocket[t] \in Fds /\ fds[CommSocket[t]].maker = t
    BY PortsTypes DEF SocketOwned
  <2>2. CommSocket[t] # CommSocket[s]
    <3>1. CommSocket[s] # INVALID_SOCKET => fds[CommSocket[s]].maker = s
      BY DEF SocketOwned
    <3> QED  BY <2>1, <3>1
  <2> QED  BY <1>4, <2>1, <2>2
<1> QED  BY <1>3, <1>6, <1>7, <1>8, <1>9, <1>10

LEMMA TryAgainTypes ==
  ASSUME PortsTypeOK, NEW s \in Sessions, TryAgain(s)
  PROVE  /\ RetryCount' \in [Sessions -> 0 .. MaxRetryCreateSocket - 1]
         /\ err' \in [Sessions -> BOOLEAN]
<1> USE DEF PortsTypeOK
<1>1. CASE RetryCount[s] + 1 < MaxRetryCreateSocket
           /\ RetryCount' = [RetryCount EXCEPT ![s] = @ + 1] /\ err' = err
  <2>1. RetryCount[s] + 1 \in 0 .. MaxRetryCreateSocket - 1  BY <1>1, SMT
  <2> QED  BY <1>1, <2>1
<1>2. CASE Return(s)  BY <1>2, PortBounds DEF Return
<1> QED  BY <1>1, <1>2 DEF TryAgain

LEMMA SearchStep ==
  ASSUME SocketInv, NEW s \in Sessions,
         LoadPort(s) \/ StorePort(s) \/ CheckPort(s) \/ FixPort(s),
         sConf' = sConf, listener' = listener
  PROVE  SocketInv'
<1>1. PortsTypeOK  BY DEF SocketInv
<1>2. /\ pc[s] \in Searching /\ UNCHANGED <<fds, sockfd, CommSocket, failed>>
  BY DEF LoadPort, StorePort, CheckPort, FixPort, Searching
<1>3. /\ Searching \cup {"transfer", "socket"} \subseteq Labels \ {"free"}
  BY DEF Searching, Labels, PortLabels
<1>4. CASE LoadPort(s)
  <2>1. NextPortToUse + 1 \in Nat  BY <1>1, PortBounds, SMT DEF PortsTypeOK
  <2>2. (NextPortToUse + 1) % CommPortEnd \in 0 .. CommPortEnd - 1
    BY <2>1, PortBounds, RemainderInRange
  <2> HIDE DEF Searching
  <2>3. PortsTypeOK'  BY <1>1, <1>4, <2>2 DEF PortsTypeOK, LoadPort
  <2>4. Goto(s, "store_port") /\ err' = err /\ "store_port" \in Searching
    BY <1>4 DEF LoadPort, Searching
  <2> QED  BY <1>2, <1>3, <2>3, <2>4, SearchKeepsSockets
<1>5. CASE StorePort(s)
  <2>1. PortsTypeOK'  BY <1>1, <1>5, PortBounds DEF PortsTypeOK, StorePort
  <2>2. Goto(s, "check_port") /\ err' = err /\ "check_port" \in Searching
    BY <1>5 DEF StorePort, Searching
  <2> QED  BY <1>2, <1>3, <2>1, <2>2, SearchKeepsSockets
<1>6. ASSUME TryAgain(s), PortsTypeOK' PROVE SocketInv'
  <2>1. \/ Goto(s, "socket") /\ err' = err /\ err[s]
        \/ Goto(s, "transfer") /\ err' = [err EXCEPT ![s] = FALSE]
    BY <1>6, TryAgainMoves
  <2>2. CASE Goto(s, "socket") /\ err' = err /\ err[s]
    BY <1>2, <1>3, <1>6, <2>2, SearchKeepsSockets
  <2>3. CASE Goto(s, "transfer") /\ err' = [err EXCEPT ![s] = FALSE]
    BY <1>2, <1>3, <1>6, <2>3, SearchKeepsSockets
  <2> QED  BY <2>1, <2>2, <2>3
<1>7. CASE CheckPort(s)
  <2>1. UNCHANGED <<NextPortToUse, nextPort, searched>>  BY <1>7 DEF CheckPort
  <2>2. CASE Goto(s, "fix_port") /\ UNCHANGED <<RetryCount, err>>
    <3>1. PortsTypeOK'  BY <1>1, <1>2, <2>1, <2>2 DEF PortsTypeOK
    <3>2. "fix_port" \in Searching  BY DEF Searching
    <3> QED  BY <1>2, <1>3, <2>2, <3>1, <3>2, SearchKeepsSockets
  <2>3. CASE TryAgain(s)
    <3>1. PortsTypeOK'  BY <1>1, <1>2, <2>1, <2>3, TryAgainTypes DEF PortsTypeOK
    <3> QED  BY <1>6, <2>3, <3>1
  <2> QED  BY <1>7, <2>2, <2>3 DEF CheckPort
<1>8. CASE FixPort(s)
  <2>1. TryAgain(s) /\ NextPortToUse' = CommPortStart /\ UNCHANGED <<nextPort, searched>>
    BY <1>8 DEF FixPort
  <2>2. PortsTypeOK'
    BY <1>1, <1>2, <2>1, TryAgainTypes, PortBounds DEF PortsTypeOK
  <2> QED  BY <1>6, <2>1, <2>2
<1> QED  BY <1>4, <1>5, <1>7, <1>8

LEMMA ThreadKeepsSockets ==
  ASSUME SocketInv, NEW s \in Sessions, Thread(s), sConf' = sConf
  PROVE  SocketInv'
<1>1. CASE /\ RegistryStep(s) \/ RefuseRequest(s) \/ EndTransfer(s)
           /\ UNCHANGED portVars
  BY <1>1, QuietThreadStep, QuietKeepsSockets
<1>2. CASE CreateCommUDPSocket(s) /\ UNCHANGED registryVars
  <2>1. listener' = listener  BY <1>2 DEF registryVars
  <2> QED  BY <1>2, <2>1, ReuseServerSocketStep, CreateSocketStep, BindAndConnectStep,
              SearchStep DEF CreateCommUDPSocket
<1>3. CASE DeleteSession(s)  BY <1>3, DeleteSessionStep
<1> QED  BY <1>1, <1>2, <1>3, ThreadCases

LEMMA InitSocketInv == ServerInit => SocketInv
<1> SUFFICES ASSUME ServerInit PROVE SocketInv  OBVIOUS
<1>1. /\ pc = [s \in Sessions |-> "free"] /\ sConf \in Settings
      /\ sockfd \in Fds
      /\ fds = [f \in Fds |-> IF f = sockfd THEN Socket(Listener, ServerPort) ELSE Closed]
      /\ CommSocket = [s \in Sessions |-> INVALID_SOCKET]
      /\ NextPortToUse \in {0, BuiltinCommPortStart}
      /\ nextPort = [s \in Sessions |-> 0] /\ RetryCount = [s \in Sessions |-> 0]
      /\ err = [s \in Sessions |-> FALSE] /\ searched = FALSE /\ failed = FALSE
      /\ listener = "recvfrom"
  BY DEF ServerInit, ThreadsInit, PortsInit, RegistryInit
<1>2. ThreadsTypeOK  BY <1>1 DEF ThreadsTypeOK, Labels
<1>3. PortsTypeOK
  <2>1. fds \in [Fds -> [maker : Sessions \cup {Listener, "none"}, port : Nat]]
    BY <1>1 DEF Socket, Closed, Unbound
  <2> QED  BY <1>1, <2>1, PortBounds DEF PortsTypeOK
<1>4. Created = {}  BY <1>1 DEF Created, Live
<1>5. OpenInv /\ ListenerInv
  BY <1>1 DEF OpenInv, ListenerInv, IsOpen, Socket, Closed
<1>6. AloneInv /\ LiveInv /\ SocketOwned
  BY <1>1, <1>4 DEF AloneInv, LiveInv, SocketOwned
<1> QED  BY <1>2, <1>3, <1>5, <1>6 DEF SocketInv

LEMMA NextSocketInv == SocketInv /\ [ServerNext]_serverVars => SocketInv'
<1> SUFFICES ASSUME SocketInv, [ServerNext]_serverVars PROVE SocketInv'  OBVIOUS
<1>1. CASE UNCHANGED serverVars
  <2>1. /\ UNCHANGED <<sConf, pc, listener>> /\ UNCHANGED portVars
    BY <1>1 DEF serverVars, registryVars
  <2> QED  BY <2>1 DEF SocketInv, ThreadsTypeOK, PortsTypeOK, OpenInv, KnownToItsMaker,
                       IsOpen, ListenerInv, AloneInv, Created, Live, LiveInv,
                       SocketOwned, portVars
<1> QED  BY <1>1, ListenerKeepsSockets, ListenAgainKeepsSockets, ThreadKeepsSockets
         DEF ServerNext

(* Whatever the interleaving, the open sockets are known to those who made *)
(* them.                                                                   *)
THEOREM SocketInvariant == ServerSpec => []SocketInv
BY InitSocketInv, NextSocketInv, PTL DEF ServerSpec

(* As long as no socket() or bind() has failed, CommSocket is the number   *)
(* of the session's own socket.                                            *)
THEOREM SocketsOwned == ServerSpec => []SocketOwned
<1>1. SocketInv => SocketOwned  BY DEF SocketInv
<1> QED  BY <1>1, SocketInvariant, PTL

(* Only ListenAgain makes a socket the listener's, and it takes a free     *)
(* descriptor for it.                                                      *)
LEMMA ListenerMakesNew ==
  ASSUME SocketInv, [ServerNext]_serverVars,
         NEW f \in Fds, IsOpen(f), fds'[f].maker = Listener
  PROVE  fds[f].maker = Listener
<1>1. PortsTypeOK  BY DEF SocketInv
<1>2. CASE fds' = fds  BY <1>2
<1>3. ASSUME NEW g \in Fds \cup {INVALID_SOCKET}, close(g) PROVE fds[f].maker = Listener
  <2>1. fds'[f] = fds[f] \/ fds'[f] = Closed  BY <1>1, <1>3, CloseCloses
  <2>2. Closed.maker # Listener  BY DEF Closed, Socket, Listener
  <2> QED  BY <2>1, <2>2
<1>4. CASE ListenAgain
  <2>1. ASSUME NEW g \in Fds, Lowest(g, FreeFds),
               fds' = [fds EXCEPT ![g] = Socket(Listener, ServerPort)]
        PROVE  fds[f].maker = Listener
    <3>1. f # g  BY <2>1 DEF Lowest, FreeFds, IsOpen
    <3> QED  BY <1>1, <2>1, <3>1, PortsTypes
  <2> QED  BY <1>2, <1>4, <2>1 DEF ListenAgain, CreateUDPSocket
<1>5. ASSUME NEW s \in Sessions, CreateCommUDPSocket(s) PROVE fds[f].maker = Listener
  <2>1. CASE ReuseServerSocket(s)
    <3>1. CASE fds' = [fds EXCEPT ![sockfd].maker = s]  BY <1>1, <3>1, PortsTypes
    <3> QED  BY <1>1, <1>3, <2>1, <3>1, PortsTypes DEF ReuseServerSocket
  <2>2. CASE CreateSocket(s)
    <3>1. ASSUME NEW g \in Fds, fds' = [fds EXCEPT ![g] = Socket(s, Unbound)]
          PROVE  fds[f].maker = Listener
      BY <1>1, <3>1, PortsTypes DEF Socket
    <3> QED  BY <1>2, <2>2, <3>1 DEF CreateSocket
  <2>3. CASE BindAndConnect(s)
    <3>1. ASSUME NEW g \in Fds, NEW p, fds' = [fds EXCEPT ![g].port = p]
          PROVE  fds[f].maker = Listener
      BY <1>1, <3>1, PortsTypes
    <3>2. CommSocket[s] \in Fds \cup {INVALID_SOCKET}  BY <1>1, PortsTypes
    <3>3. IsOpen(CommSocket[s]) => CommSocket[s] \in Fds  BY DEF IsOpen
    <3> QED  BY <1>3, <2>3, <3>1, <3>2, <3>3 DEF BindAndConnect
  <2>4. CASE LoadPort(s) \/ StorePort(s) \/ CheckPort(s) \/ FixPort(s)
    BY <1>2, <2>4 DEF LoadPort, StorePort, CheckPort, FixPort
  <2> QED  BY <1>5, <2>1, <2>2, <2>3, <2>4 DEF CreateCommUDPSocket
<1>6. ASSUME NEW s \in Sessions, DeleteSession(s) PROVE fds[f].maker = Listener
  <2>1. close(CommSocket[s])  BY <1>6 DEF DeleteSession, CloseCommSocket
  <2>2. CommSocket[s] \in Fds \cup {INVALID_SOCKET}  BY <1>1, PortsTypes
  <2> QED  BY <1>3, <2>1, <2>2
<1>7. ASSUME NEW s \in Sessions, Thread(s) PROVE fds[f].maker = Listener
  BY <1>2, <1>5, <1>6, <1>7, ThreadCases DEF portVars
<1>8. CASE Receive \/ Decide  BY <1>2, <1>8, ListenerStep DEF portVars
<1>9. CASE UNCHANGED serverVars  BY <1>2, <1>9 DEF serverVars, portVars
<1> QED  BY <1>4, <1>7, <1>8, <1>9 DEF ServerNext

(* An open socket that has a holder has one after the step, the listener's *)
(* with ReuseServerPortForComm excepted: by OpenInv its maker holds it.    *)
LEMMA HeldStaysHeld ==
  ASSUME SocketInv, SocketInv', [ServerNext]_serverVars,
         NEW f \in Fds, IsOpen(f), IsOpen(f)'
  PROVE  Held(f)' \/ (sConf.ReuseServerPortForComm /\ fds[f].maker = Listener)
<1>1. sConf' = sConf  BY DEF ServerNext, serverVars
<1>2. CASE fds'[f].maker # Listener
  BY <1>2 DEF SocketInv, OpenInv, KnownToItsMaker, Held
<1>3. CASE fds'[f].maker = Listener /\ ~sConf.ReuseServerPortForComm
  BY <1>1, <1>3 DEF SocketInv, ListenerInv, Held
<1>4. CASE fds'[f].maker = Listener /\ sConf.ReuseServerPortForComm
  BY <1>4, ListenerMakesNew
<1> QED  BY <1>2, <1>3, <1>4

(* No socket is lost while it is open, whatever calls fail. *)
THEOREM SocketsKept == ServerSpec => SocketsAccountedFor
<1>1. SocketInv /\ SocketInv' /\ [ServerNext]_serverVars
        => [\A f \in Fds : Held(f) /\ IsOpen(f) /\ IsOpen(f)'
              => Held(f)' \/ (sConf.ReuseServerPortForComm /\ fds[f].maker = Listener)]_serverVars
  BY HeldStaysHeld
<1> QED  BY <1>1, SocketInvariant, PTL DEF ServerSpec, SocketsAccountedFor
=============================================================================
