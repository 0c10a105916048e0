------------------------------ MODULE CommPorts ------------------------------
(***************************************************************************)
(* The sockets of the server: CreateCommUDPSocket, the search for a port   *)
(* with NextPortToUse, which every session thread reads and writes without *)
(* a lock, and the descriptors of the process.  A step is one access to    *)
(* what the threads share: a system call on the descriptor table, a load   *)
(* or a store of NextPortToUse.                                            *)
(***************************************************************************)
EXTENDS Threads

CONSTANTS
  Fds,                   \* the descriptors the process may have
  ServerPort,            \* the port given to RunTFTPServer
  CommPortStart,         \* sConf.CommPortStart after InitConfig
  CommPortEnd,           \* sConf.CommPortEnd after InitConfig
  EphemeralPorts,        \* what bind() to port 0 may give: ports the server did not choose
  BuiltinCommPortStart,  \* the value of CommPortStart before InitConfig
  MaxRetryCreateSocket   \* MAX_RETRY_CREATE_SOCKET

ASSUME FdsAssumption == Fds \subseteq Nat
(* InitConfig takes any number for a port.  Those of init.cfg are taken to *)
(* be ports, which fit into the unsigned short of NextPortToUse, but no     *)
(* order of them is.                                                       *)
ASSUME PortsAssumption ==
  /\ ServerPort \in Nat \ {0}
  /\ CommPortStart \in Nat \ {0} /\ CommPortEnd \in Nat \ {0}
  /\ BuiltinCommPortStart \in Nat \ {0}
  /\ EphemeralPorts \subseteq Nat \ {0}
  /\ MaxRetryCreateSocket \in Nat \ {0}

VARIABLES
  fds,            \* the open sockets of the process, by descriptor
  sockfd,         \* the descriptor RunTFTPServer listens on
  CommSocket,     \* TFTPSession::CommSocket
  NextPortToUse,
  nextPort,       \* a thread's register: the value it is about to store
  RetryCount,     \* CreateCommUDPSocket's RetryCount
  err,            \* its err is not 0
  searched,       \* auxiliary: some thread has stored NextPortToUse
  failed          \* auxiliary: some CreateCommUDPSocket has met an error

portVars == <<fds, sockfd, CommSocket, NextPortToUse, nextPort, RetryCount, err, searched, failed>>

-----------------------------------------------------------------------------
(* The descriptor table.  A socket has a port, Unbound before bind(), and  *)
(* the session, or the listener, it was created for.                       *)
INVALID_SOCKET == -1
Unbound        == 0
Listener       == "RunTFTPServer"

Socket(maker, port) == [maker |-> maker, port |-> port]
Closed              == Socket("none", Unbound)

ASSUME MakersAssumption == Listener \notin Sessions /\ "none" \notin Sessions

IsOpen(f)      == f \in Fds /\ fds[f] # Closed
PortInUse(p)   == \E f \in Fds : fds[f].port = p
FreeFds        == {f \in Fds : fds[f] = Closed}

(* socket() gives the lowest free descriptor. *)
Lowest(f, S)   == f \in S /\ \A g \in S : f <= g

(* The ports bind() can give to a socket that asks for port p.             *)
Bindable(p) == {q \in IF p = 0 THEN EphemeralPorts ELSE {p} : ~PortInUse(q)}

(* closesocket() of a number: it closes whatever has that number now.      *)
close(f) == fds' = IF f \in Fds THEN [fds EXCEPT ![f] = Closed] ELSE fds

Err(s, e) == err' = [err EXCEPT ![s] = e] /\ failed' = (failed \/ e)

(* The caller looks at the result of the call, logs it and goes on.        *)
Return(s) ==
  /\ RetryCount' = [RetryCount EXCEPT ![s] = 0]
  /\ err' = [err EXCEPT ![s] = FALSE]
  /\ Goto(s, "transfer")

PortLabels == {"bind", "load_port", "store_port", "check_port", "fix_port"}

-----------------------------------------------------------------------------
(* CreateCommUDPSocket *)

(* The session takes the listener's socket over and connects it, or closes *)
(* it when connect() fails.                                                *)
ReuseServerSocket(s) ==
  /\ pc[s] = "socket"
  /\ sConf.ReuseServerPortForComm
  /\ CommSocket' = [CommSocket EXCEPT ![s] = sockfd]
  /\ \/ /\ fds' = [fds EXCEPT ![sockfd].maker = s]
        /\ UNCHANGED failed
     \/ close(sockfd) /\ failed' = TRUE
  /\ Goto(s, "transfer")
  /\ UNCHANGED <<sockfd, NextPortToUse, nextPort, RetryCount, err, searched>>

(* socket() fails, not only for want of a descriptor: the session goes on  *)
(* with an invalid socket.                                                 *)
CreateSocket(s) ==
  /\ pc[s] = "socket"
  /\ ~sConf.ReuseServerPortForComm
  /\ \/ /\ \E f \in Fds :
             /\ Lowest(f, FreeFds)
             /\ CommSocket' = [CommSocket EXCEPT ![s] = f]
             /\ fds' = [fds EXCEPT ![f] = Socket(s, Unbound)]
        /\ Goto(s, "bind")
        /\ UNCHANGED <<RetryCount, err, failed>>
     \/ /\ CommSocket' = [CommSocket EXCEPT ![s] = INVALID_SOCKET]
        /\ failed' = TRUE
        /\ Return(s)
        /\ UNCHANGED fds
  /\ UNCHANGED <<sockfd, NextPortToUse, nextPort, searched>>

(* mutant: the result of connect() is lost *)
BindAndConnect_LosesError(s) ==
  /\ pc[s] = "bind"
  /\ \/ /\ IsOpen(CommSocket[s])
        /\ fds[CommSocket[s]].port = Unbound
        /\ \E p \in Bindable(NextPortToUse) : fds' = [fds EXCEPT ![CommSocket[s]].port = p]
        /\ Err(s, FALSE)
     \/ close(CommSocket[s]) /\ Err(s, FALSE)
  /\ Goto(s, "load_port")
  /\ UNCHANGED <<sockfd, CommSocket, NextPortToUse, nextPort, RetryCount, searched>>

(* bind() to NextPortToUse and connect().  When either fails the socket is *)
(* closed, but CommSocket keeps its number.                                *)
BindAndConnect(s) ==
  /\ pc[s] = "bind"
  /\ \/ /\ IsOpen(CommSocket[s])
        /\ fds[CommSocket[s]].port = Unbound
        /\ \E p \in Bindable(NextPortToUse) : fds' = [fds EXCEPT ![CommSocket[s]].port = p]
        /\ Err(s, FALSE)
     \/ close(CommSocket[s]) /\ Err(s, TRUE)
  /\ Goto(s, "load_port")
  /\ UNCHANGED <<sockfd, CommSocket, NextPortToUse, nextPort, RetryCount, searched>>

(* NextPortToUse = (NextPortToUse + 1) % CommPortEnd, a load and a store.  *)
LoadPort(s) ==
  /\ pc[s] = "load_port"
  /\ nextPort' = [nextPort EXCEPT ![s] = (NextPortToUse + 1) % CommPortEnd]
  /\ Goto(s, "store_port")
  /\ UNCHANGED <<fds, sockfd, CommSocket, NextPortToUse, RetryCount, err, searched, failed>>

StorePort(s) ==
  /\ pc[s] = "store_port"
  /\ NextPortToUse' = nextPort[s]
  /\ searched' = TRUE
  /\ nextPort' = [nextPort EXCEPT ![s] = 0]
  /\ Goto(s, "check_port")
  /\ UNCHANGED <<fds, sockfd, CommSocket, RetryCount, err, failed>>

(* mutant: one attempt too many *)
TryAgain_OneMore(s) ==
  IF err[s] /\ RetryCount[s] < MaxRetryCreateSocket
    THEN /\ RetryCount' = [RetryCount EXCEPT ![s] = @ + 1]
         /\ Goto(s, "socket")
         /\ UNCHANGED err
    ELSE Return(s)

(* The end of the loop: try again, or return. *)
TryAgain(s) ==
  IF err[s] /\ RetryCount[s] + 1 < MaxRetryCreateSocket
    THEN /\ RetryCount' = [RetryCount EXCEPT ![s] = @ + 1]
         /\ Goto(s, "socket")
         /\ UNCHANGED err
    ELSE Return(s)

(* mutant: the number after the last port stays *)
CheckPort_NoCorrection(s) ==
  /\ pc[s] = "check_port"
  /\ TryAgain(s)
  /\ UNCHANGED <<fds, sockfd, CommSocket, NextPortToUse, nextPort, searched, failed>>

(* if (NextPortToUse < CommPortStart) NextPortToUse = CommPortStart        *)
CheckPort(s) ==
  /\ pc[s] = "check_port"
  /\ \/ /\ NextPortToUse < CommPortStart
        /\ Goto(s, "fix_port")
        /\ UNCHANGED <<RetryCount, err>>
     \/ NextPortToUse >= CommPortStart /\ TryAgain(s)
  /\ UNCHANGED <<fds, sockfd, CommSocket, NextPortToUse, nextPort, searched, failed>>

FixPort(s) ==
  /\ pc[s] = "fix_port"
  /\ NextPortToUse' = CommPortStart
  /\ TryAgain(s)
  /\ UNCHANGED <<fds, sockfd, CommSocket, nextPort, searched, failed>>

CreateCommUDPSocket(s) ==
  \/ ReuseServerSocket(s) \/ CreateSocket(s) \/ BindAndConnect(s)
  \/ LoadPort(s) \/ StorePort(s) \/ CheckPort(s) \/ FixPort(s)

-----------------------------------------------------------------------------
(* CreateUDPSocket: the listener's socket, bound with SO_REUSEADDR.  The    *)
(* results of socket() and bind() are not looked at; bind() to the port the *)
(* listener had before does not fail.                                       *)
CreateUDPSocket ==
  \/ \E f \in Fds :
       /\ Lowest(f, FreeFds)
       /\ sockfd' = f
       /\ fds' = [fds EXCEPT ![f] = Socket(Listener, ServerPort)]
  \/ /\ sockfd' = INVALID_SOCKET
     /\ UNCHANGED fds

(* mutant: the socket is forgotten, not closed *)
CloseCommSocket_Forgets(s) ==
  /\ CommSocket' = [CommSocket EXCEPT ![s] = INVALID_SOCKET]
  /\ UNCHANGED fds

(* The end of ~TFTPSession: the socket's number is closed.                 *)
CloseCommSocket(s) ==
  /\ close(CommSocket[s])
  /\ CommSocket' = [CommSocket EXCEPT ![s] = INVALID_SOCKET]

PortsInit ==
  /\ sockfd \in Fds /\ Lowest(sockfd, Fds)
  /\ fds = [f \in Fds |-> IF f = sockfd THEN Socket(Listener, ServerPort) ELSE Closed]
  /\ CommSocket = [s \in Sessions |-> INVALID_SOCKET]
  \* The initialiser may run before that of sConf, which is another file's.
  /\ NextPortToUse \in {0, BuiltinCommPortStart}
  /\ nextPort = [s \in Sessions |-> 0]
  /\ RetryCount = [s \in Sessions |-> 0]
  /\ err = [s \in Sessions |-> FALSE]
  /\ searched = FALSE
  /\ failed = FALSE

-----------------------------------------------------------------------------
PortsTypeOK ==
  /\ fds \in [Fds -> [maker : Sessions \cup {Listener, "none"}, port : Nat]]
  /\ sockfd \in Fds \cup {INVALID_SOCKET}
  /\ CommSocket \in [Sessions -> Fds \cup {INVALID_SOCKET}]
  /\ NextPortToUse \in 0 .. CommPortEnd - 1 \cup {CommPortStart, BuiltinCommPortStart}
  /\ nextPort \in [Sessions -> 0 .. CommPortEnd - 1]
  /\ RetryCount \in [Sessions -> 0 .. MaxRetryCreateSocket - 1]
  /\ err \in [Sessions -> BOOLEAN]
  /\ searched \in BOOLEAN /\ failed \in BOOLEAN
=============================================================================
