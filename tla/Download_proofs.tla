--------------------------- MODULE Download_proofs ---------------------------
(***************************************************************************)
(* Proofs about Download, for a file whose blocks have numbers of their    *)
(* own: LastBlock < BlockMod.  What the client puts together is right for  *)
(* every window; when the server finishes the client has the whole file if *)
(* the window is one block, else all but some blocks of the last window.   *)
(***************************************************************************)
EXTENDS Download, TFTPSession_proofs

USE DEF NOT_INITIALIZED, CLIENT_TO_SERVER, SERVER_TO_CLIENT, ERR_UNDEFINED,
        ERR_FILE_NOT_FOUND, ERR_DISK_FULL, ERR_ILLEGAL_OPERATION, NO_ERROR, SMSG_Error

(* What the client sends is well-formed. *)
LEMMA ClientPacketsType == ClientPackets \subseteq PeerPacketType
BY DEF ClientPackets, PeerPacketType

(* An iteration of the server's loop during a download.  The window starts *)
(* after a block the client has acknowledged, and the transfer is done     *)
(* only after an ACK for the window that reaches the end of the file.      *)
LEMMA Server_Step ==
  ASSUME DownloadInv,
         (\E m \in toServer : ParsePacket(m)) \/ Timeout
  PROVE  /\ SessionInv'
         /\ SelectedOperation' # CLIENT_TO_SERVER
         /\ alive' /\ SelectedOperation' = SERVER_TO_CLIENT
              => FirstBlockInWindow' - 1 <= Len(clientFile)
         /\ TransferDone' /\ ~TransferDone
              => /\ FirstBlockInWindow <= Len(clientFile)
                 /\ LastBlock <= FirstBlockInWindow + WindowSize - 1
<1> USE BlockModAssumption, WindowSizeAssumption, FileAssumption
<1>1. /\ SessionInv
      /\ SelectedOperation # CLIENT_TO_SERVER
      /\ toServer \subseteq ClientPackets
      /\ Len(clientFile) \in Nat
      /\ \A a \in toServer : a.op = "ACK" => a.block <= Len(clientFile)
      /\ alive /\ SelectedOperation = SERVER_TO_CLIENT
           => FirstBlockInWindow - 1 <= Len(clientFile)
  BY DEF DownloadInv, DownloadTypeOK, WindowWaitsForClient
<1>2. /\ FirstBlockInWindow \in Nat /\ WindowRetryCount \in Nat
      /\ alive => Error = NO_ERROR
  BY <1>1 DEF SessionInv, TypeOK
<1>3. SelectedOperation \in {NOT_INITIALIZED, SERVER_TO_CLIENT}
  BY <1>1 DEF SessionInv, TypeOK, Operations
<1>4. ASSUME NEW m \in toServer, ParsePacket(m)
      PROVE  /\ SessionInv'
             /\ SelectedOperation' # CLIENT_TO_SERVER
             /\ alive' /\ SelectedOperation' = SERVER_TO_CLIENT
                  => FirstBlockInWindow' - 1 <= Len(clientFile)
             /\ TransferDone' /\ ~TransferDone
                  => /\ FirstBlockInWindow <= Len(clientFile)
                     /\ LastBlock <= FirstBlockInWindow + WindowSize - 1
  <2>1. m \in ClientPackets  BY <1>1
  <2>2. m \in PeerPacketType /\ m.op \in {"RRQ", "ACK", "ERROR"}
    BY <2>1, ClientPacketsType DEF ClientPackets
  <2>3. SessionInv' /\ alive  BY <1>1, <1>4, <2>2, ParsePacket_Step DEF ParsePacket
  <2>4. ASSUME NEW error \in ErrorCodes, Refuse(error)
        PROVE  /\ FirstBlockInWindow' = FirstBlockInWindow
               /\ SelectedOperation' = SelectedOperation
               /\ TransferDone' = TransferDone
    BY <1>1, <2>3, <2>4, Refuse_Step
  <2>5. CASE m.op = "RRQ" /\ CMSG_RRQ
    <3>1. CASE UNCHANGED sessionVars  BY <1>1, <2>3, <3>1 DEF sessionVars
    <3>2. CASE RefuseRequest  BY <1>1, <2>3, <3>2, RefuseRequest_Step
    <3>3. CASE /\ SelectedOperation = NOT_INITIALIZED
               /\ SelectedOperation' = SERVER_TO_CLIENT
               /\ \E r \in OptionReplies : SMSG_DATA(1, r.error, WindowRetryCount, r.oack)
      <4>1. FirstBlockInWindow' = 1 /\ ~TransferDone'
        BY <3>3 DEF SMSG_DATA, EndOfIteration
      <4> QED  BY <1>1, <2>3, <3>3, <4>1
    <3> QED  BY <2>5, <3>1, <3>2, <3>3 DEF CMSG_RRQ
  <2>6. CASE m.op = "ACK" /\ CMSG_ACK(m)
    <3>1. m.block \in Nat /\ m.block <= Len(clientFile)
      BY <1>1, <2>1, <2>6 DEF ClientPackets, Block
    <3>2. CASE Refuse(ERR_ILLEGAL_OPERATION)
      <4>1. ERR_ILLEGAL_OPERATION \in ErrorCodes  BY DEF ErrorCodes
      <4> QED  BY <1>1, <2>3, <2>4, <3>2, <4>1
    <3>3. CASE UNCHANGED sessionVars  BY <1>1, <2>3, <3>3 DEF sessionVars
    <3>4. CASE /\ SelectedOperation = SERVER_TO_CLIENT
               /\ InWindow(m.block)
               /\ ReadDone
               /\ FirstBlockInWindow' = WindowAfterAck(m.block)
               /\ EndOfIteration(Error, TRUE, {})
               /\ SelectedOperation' = SelectedOperation
      <4>1. ~alive'  BY <3>4 DEF EndOfIteration
      <4>2. LastBlock <= FirstBlockInWindow + WindowSize - 1
        BY <1>1, <2>3, <3>4 DEF SessionInv
      <4>3. FirstBlockInWindow <= Len(clientFile)
        BY <1>1, <1>2, <3>1, <3>4 DEF InWindow
      <4> QED  BY <2>3, <3>4, <4>1, <4>2, <4>3
    <3>5. CASE /\ SelectedOperation = SERVER_TO_CLIENT
               /\ InWindow(m.block)
               /\ SMSG_DATA(WindowAfterAck(m.block), Error, WindowRetryCount, {})
               /\ UNCHANGED SelectedOperation
      <4>1. FirstBlockInWindow' = WindowAfterAck(m.block) /\ ~TransferDone'
        BY <3>5 DEF SMSG_DATA, EndOfIteration
      <4>2. FirstBlockInWindow' - 1 <= Len(clientFile)
        BY <1>1, <3>1, <4>1 DEF WindowAfterAck
      <4> QED  BY <2>3, <3>5, <4>1, <4>2
    <3> QED  BY <2>6, <3>2, <3>3, <3>4, <3>5 DEF CMSG_ACK
  <2>7. CASE m.op = "ERROR" /\ CMSG_ERROR(m)
    <3>1. m.code \in ErrorCodes  BY <2>1, <2>7 DEF ClientPackets
    <3> QED  BY <1>1, <2>3, <2>4, <2>7, <3>1 DEF CMSG_ERROR
  <2> QED  BY <1>4, <2>2, <2>5, <2>6, <2>7 DEF ParsePacket
<1>5. CASE Timeout
  <2>1. SessionInv' /\ alive  BY <1>1, <1>5, Timeout_Step DEF Timeout
  <2>2. CASE WindowRetryCount' = NextRetry /\ Break(Error)
    BY <1>1, <2>1, <2>2 DEF Break
  <2>3. CASE /\ SelectedOperation = SERVER_TO_CLIENT
             /\ SMSG_DATA(FirstBlockInWindow, Error, NextRetry, {})
             /\ UNCHANGED SelectedOperation
    <3>1. FirstBlockInWindow' = FirstBlockInWindow /\ ~TransferDone'
      BY <2>3 DEF SMSG_DATA, EndOfIteration
    <3> QED  BY <1>1, <2>1, <2>3, <3>1
  <2> QED  BY <1>1, <1>5, <2>2, <2>3 DEF Timeout
<1> QED  BY <1>4, <1>5

-----------------------------------------------------------------------------
(* The steps of the client and the network *)

(* The block the client takes for the next one is the next one, and it is  *)
(* short exactly when it is the last.                                      *)
LEMMA NextBlockDelivered ==
  ASSUME DownloadInv, LastBlock < BlockMod, ClientReceive
  PROVE  /\ Len(clientFile) + 1 \in 1 .. LastBlock
         /\ clientFile' = Append(clientFile, Len(clientFile) + 1)
         /\ clientDone' <=> Len(clientFile) + 1 = LastBlock
<1> USE BlockModAssumption, FileAssumption, BlockSizeAssumption
<1>1. /\ clientFile \in Seq(Nat) /\ Len(clientFile) \in Nat
      /\ Len(clientFile) <= LastBlock
      /\ clientDone <=> Len(clientFile) = LastBlock
      /\ DataFaithful
      /\ toClient \subseteq Packets
  BY DEF DownloadInv, DownloadTypeOK, SessionInv, TypeOK
<1>2. LastBlock \in Nat  BY DEF LastBlock
<1>3. Len(clientFile) < LastBlock  BY <1>1, <1>2 DEF ClientReceive
<1>4. PICK m \in toClient : /\ m.op = "DATA"
                            /\ m.block = (Len(clientFile) + 1) % BlockMod
                            /\ clientFile' = Append(clientFile, m.content)
                            /\ clientDone' = (m.bytes < BlockSize)
  BY DEF ClientReceive
<1>5. /\ m.content \in 1 .. LastBlock
      /\ m.block = m.content % BlockMod
      /\ m.bytes = BlockBytes(m.content)
  BY <1>1, <1>4 DEF DataFaithful
<1>6. m.content % BlockMod = m.content  BY <1>2, <1>5
<1>7. (Len(clientFile) + 1) % BlockMod = Len(clientFile) + 1  BY <1>1, <1>2, <1>3
<1>8. m.content = Len(clientFile) + 1  BY <1>4, <1>5, <1>6, <1>7
<1>9. m.bytes < BlockSize <=> m.content = LastBlock
  BY <1>2, <1>5 DEF BlockBytes, LastBlock
<1>10. clientDone' <=> Len(clientFile) + 1 = LastBlock
  BY <1>4, <1>8, <1>9
<1>11. Len(clientFile) + 1 \in 1 .. LastBlock  BY <1>1, <1>2, <1>3
<1> QED  BY <1>4, <1>8, <1>10, <1>11

(* The client's own steps leave the server's session alone. *)
LEMMA Client_Step ==
  ASSUME DownloadInv, LastBlock < BlockMod, ClientReceive \/ ClientAck \/ ClientAbort
  PROVE  DownloadInv'
<1> USE BlockModAssumption, FileAssumption
<1>1. SessionInv' /\ UNCHANGED sessionVars
  BY Unchanged_Step DEF DownloadInv, ClientReceive, ClientAck, ClientAbort, ClientSends, netVars
<1>2. /\ SelectedOperation' # CLIENT_TO_SERVER
      /\ TypeOK'
  BY <1>1 DEF DownloadInv, SessionInv, sessionVars
<1>3. /\ clientFile \in Seq(Nat) /\ Len(clientFile) \in Nat /\ LastBlock \in Nat
      /\ \A i \in 1 .. Len(clientFile) : clientFile[i] = i
      /\ toServer \subseteq ClientPackets
      /\ \A a \in toServer : a.op = "ACK" => a.block <= Len(clientFile)
      /\ \A a \in toServer : a.op = "ACK" => a.block \in Block
  BY DEF DownloadInv, DownloadTypeOK, DeliveredPrefix, LastBlock, ClientPackets
<1>4. /\ alive' = alive
      /\ SelectedOperation' = SelectedOperation
      /\ FirstBlockInWindow' = FirstBlockInWindow
      /\ FirstBlockInWindow \in 0 .. BlockMod
      /\ TransferDone' = TransferDone
  BY <1>1 DEF sessionVars, DownloadInv, SessionInv, TypeOK
<1>5. CASE ClientReceive
  <2>1. /\ Len(clientFile) + 1 \in 1 .. LastBlock
        /\ clientFile' = Append(clientFile, Len(clientFile) + 1)
        /\ clientDone' <=> Len(clientFile) + 1 = LastBlock
    BY <1>5, NextBlockDelivered
  <2>2. clientDone' \in BOOLEAN  BY <1>5 DEF ClientReceive
  <2>3. toServer' = toServer  BY <1>5 DEF ClientReceive, netVars
  <2>4. clientFile' \in Seq(Nat) /\ Len(clientFile') = Len(clientFile) + 1
    BY <1>3, <2>1
  <2>5. DownloadTypeOK'  BY <1>2, <1>3, <2>2, <2>3, <2>4 DEF DownloadTypeOK
  <2>6. DeliveredPrefix'  BY <1>3, <2>1, <2>4 DEF DeliveredPrefix
  <2>7. WindowWaitsForClient' /\ CompletionWithinWindow'
    BY <1>3, <1>4, <2>4, WindowSizeAssumption
    DEF DownloadInv, WindowWaitsForClient, CompletionWithinWindow, LastBlock
  <2>8. \A a \in toServer' : a.op = "ACK" => a.block <= Len(clientFile')
    BY <1>3, <2>3, <2>4 DEF Block
  <2> QED  BY <1>1, <1>2, <2>1, <2>4, <2>5, <2>6, <2>7, <2>8 DEF DownloadInv
<1>6. CASE ClientAck \/ ClientAbort
  <2>1. PICK m \in ClientPackets :
          /\ m.op = "ACK" => m.block <= Len(clientFile)
          /\ toServer' = toServer \cup {m}
    <3>1. CASE ClientAck
      <4>1. Ack(Len(clientFile) % BlockMod) \in ClientPackets
        BY <1>3 DEF Ack, ClientPackets, Block
      <4>2. Len(clientFile) % BlockMod <= Len(clientFile)  BY <1>3
      <4> QED  BY <3>1, <4>1, <4>2 DEF ClientAck, ClientSends, Ack
    <3>2. CASE ClientAbort
      <4>1. PICK e \in ClientErrors : ClientSends(ErrorPacket(e))
        BY <3>2 DEF ClientAbort
      <4>2. ErrorPacket(e) \in ClientPackets
        BY ClientAssumption DEF ErrorPacket, ClientPackets
      <4> QED  BY <4>1, <4>2 DEF ClientSends, ErrorPacket
    <3> QED  BY <1>6, <3>1, <3>2
  <2>2. clientFile' = clientFile /\ clientDone' = clientDone
    BY <1>6 DEF ClientAck, ClientAbort, clientVars
  <2>3. DownloadTypeOK'  BY <1>2, <1>3, <2>1, <2>2 DEF DownloadInv, DownloadTypeOK
  <2> QED  BY <1>1, <1>2, <1>4, <2>1, <2>2, <2>3
           DEF DownloadInv, DeliveredPrefix, WindowWaitsForClient, CompletionWithinWindow,
               LastBlock
<1> QED  BY <1>5, <1>6

(* A lost datagram only makes the sets of datagrams smaller. *)
LEMMA Lose_Step ==
  ASSUME DownloadInv, Lose, UNCHANGED clientVars
  PROVE  DownloadInv'
<1>1. /\ UNCHANGED <<alive, SelectedOperation, FirstBlockInWindow, BlockNrInWindowReceived,
                     WindowRetryCount, Error, ReadDone, TransferDone, BytesHandled,
                     filePos, stored>>
      /\ clientFile' = clientFile /\ clientDone' = clientDone
      /\ toClient' \subseteq toClient /\ toServer' \subseteq toServer
  BY DEF Lose, sessionVars, clientVars
<1>2. TypeOK'  BY <1>1 DEF DownloadInv, SessionInv, TypeOK
<1>3. DataFaithful'  BY <1>1 DEF DownloadInv, SessionInv, DataFaithful
<1>4. SessionInv'  BY <1>1, <1>2, <1>3 DEF DownloadInv, SessionInv, ReadWindowInFile
<1>5. DownloadTypeOK'  BY <1>1, <1>2 DEF DownloadInv, DownloadTypeOK
<1> QED
  BY <1>1, <1>4, <1>5
  DEF DownloadInv, DeliveredPrefix, WindowWaitsForClient, CompletionWithinWindow, LastBlock

-----------------------------------------------------------------------------
(* The invariant holds while the request is under way. *)
LEMMA DownloadInit == Init => DownloadInv
<1> SUFFICES ASSUME Init PROVE DownloadInv  OBVIOUS
<1> USE DEF Init, NetworkInit
<1>1. SessionInv  BY SessionInit_Inv
<1>2. /\ SelectedOperation = NOT_INITIALIZED
      /\ toServer = {[op |-> "RRQ"]}
      /\ clientFile = <<>> /\ Len(clientFile) = 0 /\ clientDone = FALSE
  BY DEF SessionInit, Request
<1>3. clientFile \in Seq(Nat)  BY <1>2
<1>4. DownloadTypeOK
  <2>1. [op |-> "RRQ"] \in ClientPackets  BY DEF ClientPackets
  <2>2. toServer \subseteq ClientPackets  BY <1>2, <2>1
  <2>3. TypeOK /\ clientDone \in BOOLEAN  BY <1>1, <1>2 DEF SessionInv
  <2> QED  BY <1>3, <2>2, <2>3 DEF DownloadTypeOK
<1>5. LastBlock \in Nat /\ LastBlock > 0  BY FileAssumption DEF LastBlock
<1> QED
  BY <1>1, <1>2, <1>4, <1>5
  DEF DownloadInv, DeliveredPrefix, WindowWaitsForClient, CompletionWithinWindow, SessionInit

(* The server's steps leave the client alone. *)
LEMMA ServerKeepsInv ==
  ASSUME DownloadInv, ServerReceive \/ ServerTimeout, UNCHANGED clientVars
  PROVE  DownloadInv'
<1>1. /\ clientFile' = clientFile /\ clientDone' = clientDone /\ toServer' = toServer
      /\ (\E m \in toServer : ParsePacket(m)) \/ Timeout
  BY DEF ServerReceive, ServerTimeout, clientVars
<1>2. /\ SessionInv' /\ SelectedOperation' # CLIENT_TO_SERVER
      /\ alive' /\ SelectedOperation' = SERVER_TO_CLIENT
           => FirstBlockInWindow' - 1 <= Len(clientFile)
  BY <1>1, Server_Step
<1>3. DownloadTypeOK'  BY <1>1, <1>2 DEF DownloadInv, DownloadTypeOK, SessionInv
<1>4. ~TransferDone  BY <1>1 DEF DownloadInv, SessionInv, ParsePacket, Timeout
<1>5. CompletionWithinWindow'
  <2>1. /\ Len(clientFile) \in Nat /\ LastBlock \in Nat /\ FirstBlockInWindow \in Nat
        /\ WindowSize \in Nat
    BY BlockModAssumption, FileAssumption, WindowSizeAssumption
    DEF DownloadInv, DownloadTypeOK, TypeOK, LastBlock
  <2>2. TransferDone' => /\ FirstBlockInWindow <= Len(clientFile)
                         /\ LastBlock <= FirstBlockInWindow + WindowSize - 1
    BY <1>1, <1>4, Server_Step
  <2>3. TransferDone' => LastBlock < Len(clientFile) + WindowSize  BY <2>1, <2>2
  <2> QED  BY <1>1, <2>3 DEF CompletionWithinWindow, LastBlock
<1> QED  BY <1>1, <1>2, <1>3, <1>5 DEF DownloadInv, DeliveredPrefix, WindowWaitsForClient

(* DownloadInv is inductive. *)
LEMMA DownloadNext ==
  ASSUME DownloadInv, LastBlock < BlockMod, [Next]_vars
  PROVE  DownloadInv'
<1>1. CASE UNCHANGED vars
  <2>1. UNCHANGED sessionVars /\ toServer' = toServer /\ UNCHANGED clientVars
    BY <1>1 DEF vars, netVars
  <2>2. SessionInv' /\ TypeOK'  BY <2>1, Unchanged_Step DEF DownloadInv, SessionInv
  <2>3. DownloadTypeOK'  BY <2>1, <2>2 DEF DownloadInv, DownloadTypeOK, clientVars
  <2> QED
    BY <2>1, <2>2, <2>3
    DEF DownloadInv, DeliveredPrefix, WindowWaitsForClient, CompletionWithinWindow,
        LastBlock, sessionVars, clientVars
<1>2. CASE (ServerReceive \/ ServerTimeout) /\ UNCHANGED clientVars
  BY <1>2, ServerKeepsInv
<1>3. CASE Lose /\ UNCHANGED clientVars  BY <1>3, Lose_Step
<1>4. CASE ClientReceive \/ ClientAck \/ ClientAbort  BY <1>4, Client_Step
<1> QED  BY <1>1, <1>2, <1>3, <1>4 DEF Next

(* The invariant of a download, for every window size. *)
THEOREM DownloadInvariant ==
  ASSUME LastBlock < BlockMod
  PROVE  Spec => []DownloadInv
<1>1. DownloadInv /\ [Next]_vars => DownloadInv'  BY DownloadNext
<1> QED  BY <1>1, DownloadInit, PTL DEF Spec

(* The client's file is a prefix of the server's. *)
THEOREM DownloadDeliversPrefix ==
  ASSUME LastBlock < BlockMod
  PROVE  Spec => []DeliveredPrefix
<1>1. DownloadInv => DeliveredPrefix  BY DEF DownloadInv
<1> QED  BY <1>1, DownloadInvariant, PTL

(* The server's window waits for the client. *)
THEOREM DownloadWindowWaits ==
  ASSUME LastBlock < BlockMod
  PROVE  Spec => []WindowWaitsForClient
<1>1. DownloadInv => WindowWaitsForClient  BY DEF DownloadInv
<1> QED  BY <1>1, DownloadInvariant, PTL

(* When the server takes a download for done, the client lacks fewer       *)
(* blocks than a window has.                                               *)
THEOREM DownloadCompletesWithinWindow ==
  ASSUME LastBlock < BlockMod
  PROVE  Spec => []CompletionWithinWindow
<1>1. DownloadInv => CompletionWithinWindow  BY DEF DownloadInv
<1> QED  BY <1>1, DownloadInvariant, PTL

(* The server considers a download done only when the client has all of    *)
(* the file, if the window is one block.                                   *)
THEOREM DownloadCompletionSound ==
  ASSUME LastBlock < BlockMod, WindowSize = 1
  PROVE  Spec => []CompletionSound
<1>1. DownloadInv => CompletionSound
  BY FileAssumption
  DEF DownloadInv, DownloadTypeOK, CompletionWithinWindow, CompletionSound, LastBlock
<1> QED  BY <1>1, DownloadInvariant, PTL

-----------------------------------------------------------------------------
(* A download is a file transfer *)

(* Every step of a download is a step of a file transfer or none.          *)
LEMMA DownloadSimulates ==
  ASSUME DownloadInv, DownloadInv', LastBlock < BlockMod, [Next]_vars
  PROVE  [FT!Next]_<<clientFile, ServerStatus>>
<1>1. /\ CompletionWithinWindow'
      /\ alive \in BOOLEAN /\ alive' \in BOOLEAN
      /\ Len(clientFile) \in Nat
  BY DEF DownloadInv, DownloadTypeOK, TypeOK
<1>2. CASE (ServerReceive \/ ServerTimeout) /\ UNCHANGED clientVars
  <2>1. clientFile' = clientFile /\ alive
    BY <1>2 DEF ServerReceive, ServerTimeout, ParsePacket, Timeout, clientVars
  <2>2. ServerStatus = "running"  BY <2>1 DEF ServerStatus
  <2>3. CASE ServerStatus' = "running"  BY <2>1, <2>2, <2>3
  <2>4. CASE ServerStatus' = "complete"
    <3>1. TransferDone'  BY <2>4 DEF ServerStatus
    <3>2. LastBlock < Len(clientFile') + WindowSize
      BY <1>1, <3>1 DEF CompletionWithinWindow, LastBlock
    <3>3. Len(clientFile') + (WindowSize - 1) >= LastBlock
      BY <1>1, <2>1, <3>2, WindowSizeAssumption, FileAssumption DEF LastBlock
    <3> QED  BY <2>1, <2>2, <2>4, <3>3 DEF FT!Next, FT!Complete
  <2>5. CASE ServerStatus' = "failed"
    BY <2>1, <2>2, <2>5 DEF FT!Next, FT!Fail
  <2> QED  BY <2>3, <2>4, <2>5 DEF ServerStatus
<1>3. CASE \/ Lose /\ UNCHANGED clientVars
           \/ ClientAck \/ ClientAbort
           \/ UNCHANGED vars
  <2>1. /\ alive' = alive /\ TransferDone' = TransferDone /\ Error' = Error
        /\ clientFile' = clientFile
    BY <1>3
    DEF Lose, ClientAck, ClientAbort, ClientSends, vars, netVars, sessionVars, clientVars
  <2> QED  BY <2>1 DEF ServerStatus
<1>4. CASE ClientReceive
  <2>1. /\ Len(clientFile) + 1 \in 1 .. LastBlock
        /\ clientFile' = Append(clientFile, Len(clientFile) + 1)
    BY <1>4, NextBlockDelivered
  <2>2. ServerStatus' = ServerStatus
    BY <1>4 DEF ClientReceive, netVars, sessionVars, ServerStatus
  <2>3. Len(clientFile) < LastBlock  BY <1>1, <2>1, FileAssumption DEF LastBlock
  <2> QED  BY <2>1, <2>2, <2>3 DEF FT!Next, FT!Deliver, FT!NextBlock
<1> QED  BY <1>2, <1>3, <1>4 DEF Next

(* A download implements FileTransfer, for every window size. *)
THEOREM DownloadImplementsFileTransfer ==
  ASSUME LastBlock < BlockMod
  PROVE  Spec => DownloadIsFileTransfer
<1>1. Init => FT!Init
  BY DEF Init, NetworkInit, SessionInit, FT!Init, ServerStatus
<1>2. DownloadInv /\ DownloadInv' /\ [Next]_vars
        => [FT!Next]_<<clientFile, ServerStatus>>
  BY DownloadSimulates
<1> QED  BY <1>1, <1>2, DownloadInvariant, PTL DEF Spec, DownloadIsFileTransfer, FT!Spec

=============================================================================
