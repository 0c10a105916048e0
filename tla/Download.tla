------------------------------- MODULE Download -------------------------------
(***************************************************************************)
(* A download: a session of the server, an RFC 1350 / RFC 7440 client and  *)
(* the network between them.                                               *)
(*                                                                         *)
(* The client is not in src/: it appends the block it expects to its file, *)
(* acknowledges what it has in sequence whenever it likes (timeouts and    *)
(* RFC 7440's answers to gaps included) and takes a short block for the    *)
(* last one.                                                               *)
(***************************************************************************)
EXTENDS Network

CONSTANT ClientErrors   \* codes of the ERROR packets the client aborts with

ASSUME ClientAssumption == ClientErrors \subseteq ErrorCodes

VARIABLES
  clientFile,   \* the blocks the client has put together
  clientDone    \* ... of which the last was short

clientVars == <<clientFile, clientDone>>
vars       == <<netVars, clientVars>>

-----------------------------------------------------------------------------
Init ==
  /\ NetworkInit(Request("RRQ"))
  /\ clientFile = <<>>
  /\ clientDone = FALSE

ClientReceive ==
  /\ ~clientDone
  /\ \E m \in toClient :
       /\ m.op = "DATA"
       /\ m.block = (Len(clientFile) + 1) % BlockMod
       /\ clientFile' = Append(clientFile, m.content)
       /\ clientDone' = (m.bytes < BlockSize)
  /\ UNCHANGED netVars

(* ACK 0 is the answer to an OACK. *)
ClientAck ==
  /\ Len(clientFile) > 0 \/ Oack \in toClient
  /\ ClientSends(Ack(Len(clientFile) % BlockMod))
  /\ UNCHANGED clientVars

ClientAbort ==
  /\ \E e \in ClientErrors : ClientSends(ErrorPacket(e))
  /\ UNCHANGED clientVars

Next ==
  \/ ServerReceive /\ UNCHANGED clientVars
  \/ ServerTimeout /\ UNCHANGED clientVars
  \/ Lose /\ UNCHANGED clientVars
  \/ ClientReceive
  \/ ClientAck
  \/ ClientAbort

Spec == Init /\ [][Next]_vars

(* recv() times out while nothing arrives; no packet need ever arrive. *)
TimeoutFairness == WF_vars(ServerTimeout /\ UNCHANGED clientVars /\ SendsWork)

TimeoutSpec == Spec /\ TimeoutFairness

(* What is sent again and again arrives at last, and the client keeps      *)
(* acknowledging.                                                          *)
ArrivalFairness ==
  /\ SF_vars(ServerReceive /\ UNCHANGED clientVars /\ SendsWork)
  /\ SF_vars(ClientReceive)
  /\ SF_vars(ClientAck)

FairSpec == Spec /\ TimeoutFairness /\ ArrivalFairness

-----------------------------------------------------------------------------
ClientPackets == [op : {"RRQ"}] \cup [op : {"ACK"}, block : Block]
                                \cup [op : {"ERROR"}, code : ErrorCodes]

(* TFTPSession's variables have their types, so have the client's. *)
DownloadTypeOK ==
  /\ TypeOK
  /\ toServer \subseteq ClientPackets
  /\ clientFile \in Seq(Nat)
  /\ clientDone \in BOOLEAN

(* The client's file is a prefix of the server's, block for block: resent, *)
(* late and duplicated DATA packets and partly acknowledged windows never  *)
(* make it put a wrong block at a place.                                   *)
DeliveredPrefix ==
  \A i \in 1 .. Len(clientFile) : clientFile[i] = i

(* The server's window never leaves behind a block the client lacks.       *)
WindowWaitsForClient ==
  alive /\ SelectedOperation = SERVER_TO_CLIENT => FirstBlockInWindow - 1 <= Len(clientFile)

(* CMSG_ACK: "we received ACK for a packet that was not full".  The server *)
(* considers the transfer done only when the client has the whole file.    *)
CompletionSound == TransferDone => clientDone /\ Len(clientFile) = LastBlock

(* When the server takes the transfer for done the client has the file but *)
(* for some blocks of the last window: ReadDone is tested, not the number  *)
(* of the ACK, but it is tested before the window moves on, and only an    *)
(* ACK inside the window gets there.                                       *)
CompletionWithinWindow == TransferDone => LastBlock < Len(clientFile) + WindowSize

(* What makes these inductive: an ACK under way, however old, is for a     *)
(* block the client has, and the client has taken a short block exactly    *)
(* when it has the whole file.                                             *)
DownloadInv ==
  /\ DownloadTypeOK
  /\ SessionInv
  /\ DeliveredPrefix
  /\ WindowWaitsForClient
  /\ CompletionWithinWindow
  /\ SelectedOperation # CLIENT_TO_SERVER
  /\ \A a \in toServer : a.op = "ACK" => a.block <= Len(clientFile)
  /\ Len(clientFile) <= LastBlock
  /\ clientDone <=> Len(clientFile) = LastBlock

(* The session ends, by success or not, while packets get lost but not     *)
(* for ever: it is never stuck waiting for a packet the client will not    *)
(* send.                                                                   *)
DownloadEnds == <>~alive

(* A download is a file transfer: the blocks arrive in order and once each *)
(* and, with one block in the window, only then the session is finished;   *)
(* with a larger window all but one of its blocks can be missing.          *)
FT == INSTANCE FileTransfer
        WITH Total <- LastBlock, Slack <- WindowSize - 1,
             copy <- clientFile, status <- ServerStatus

DownloadIsFileTransfer == FT!Spec

(* config.h: "After N retries we disconnect".  The session of a client     *)
(* that fell silent ends.  It does not: SMSG_DATA, which the timeout       *)
(* calls, resets WindowRetryCount.                                         *)
SilentClient == <>[][ServerTimeout \/ Lose]_netVars /\ <>[][FALSE]_clientVars

SilentDownloadEnds == SilentClient => (SelectedOperation = SERVER_TO_CLIENT ~> ~alive)

=============================================================================
