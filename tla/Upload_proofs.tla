---------------------------- MODULE Upload_proofs ----------------------------
(***************************************************************************)
(* Proofs about Upload, for a file whose blocks have numbers of their own: *)
(* LastBlock < BlockMod.  Most are for a server that stores what is        *)
(* uploaded and one block in the window, the last section for any window.  *)
(***************************************************************************)
EXTENDS Upload, TFTPSession_proofs

USE DEF NOT_INITIALIZED, CLIENT_TO_SERVER, SERVER_TO_CLIENT, ERR_UNDEFINED,
        ERR_FILE_NOT_FOUND, ERR_DISK_FULL, ERR_ILLEGAL_OPERATION, NO_ERROR, SMSG_Error

(* The upload the theorems are about. *)
SmallUpload == WindowSize = 1 /\ ~NoFileWriteOnServer /\ LastBlock < BlockMod

(* What a step of the server does to its file: nothing, or it adds the     *)
(* next block, whose place is the end of the file.                         *)
FileGrows ==
  \/ filePos' = filePos /\ stored' = stored
  \/ /\ filePos < LastFilled
     /\ filePos' = filePos + 1
     /\ stored' = [stored EXCEPT ![filePos + 1] = filePos + 1]

(* The numbers the proofs compute with. *)
LEMMA Numbers ==
  ASSUME UploadInv, LastBlock < BlockMod
  PROVE  /\ FirstBlockInWindow \in Nat /\ filePos \in Nat
         /\ FirstBlockInWindow <= filePos
         /\ LastBlock \in Nat /\ LastBlock = FullBlocks + 1
         /\ LastFilled \in Nat /\ LastFilled <= LastBlock
         /\ LastFilled < BlockMod /\ BlockMod \in Nat
         /\ TransferDone \in BOOLEAN /\ alive \in BOOLEAN
         /\ stored \in [1 .. BlockMod - 1 -> Nat]
<1>1. /\ FirstBlockInWindow \in 0 .. BlockMod /\ filePos \in Nat
      /\ TransferDone \in BOOLEAN /\ alive \in BOOLEAN
      /\ stored \in [1 .. BlockMod - 1 -> Nat]
      /\ SelectedOperation \in {NOT_INITIALIZED, CLIENT_TO_SERVER}
  BY DEF UploadInv, OneBlockInv, SessionInv, TypeOK, Operations
<1>2. LastBlock \in Nat /\ LastBlock = FullBlocks + 1 /\ FullBlocks \in Nat
  BY FileAssumption DEF LastBlock
<1>3. LastFilled \in {FullBlocks, LastBlock}  BY DEF LastFilled
<1>4. FirstBlockInWindow <= filePos
  <2>1. CASE SelectedOperation = CLIENT_TO_SERVER
    BY <2>1 DEF UploadInv, OneBlockInv
  <2>2. CASE SelectedOperation = NOT_INITIALIZED
    <3>1. FirstBlockInWindow = 0 /\ filePos = 0
      BY <2>2 DEF UploadInv, OneBlockInv, SessionInv
    <3> QED  BY <3>1
  <2> QED  BY <1>1, <2>1, <2>2
<1>5. BlockMod \in Nat  BY BlockModAssumption
<1> QED  BY <1>1, <1>2, <1>3, <1>4, <1>5

(* What the client sends is what an arbitrary peer may send. *)
LEMMA ClientPacketsArePeerPackets ==
  ASSUME LastBlock < BlockMod
  PROVE  ClientPackets \subseteq PeerPackets
<1> USE BlockModAssumption, FileAssumption, BlockSizeAssumption
<1>1. Request("WRQ") \in PeerPackets  BY DEF PeerPackets
<1>2. ASSUME NEW k \in 1 .. LastBlock
      PROVE  Data(k, k, BlockBytes(k)) \in PeerPackets
  <2>1. k \in Block  BY DEF Block, LastBlock
  <2>2. BlockBytes(k) \in 0 .. BlockSize  BY DEF BlockBytes
  <2> QED  BY <2>1, <2>2 DEF PeerPackets
<1> QED  BY <1>1, <1>2 DEF ClientPackets

(* A step of the server's loop is one of a session against any peer. *)
LEMMA ServerIsSession ==
  ASSUME UploadInv, LastBlock < BlockMod,
         (\E m \in toServer : ParsePacket(m)) \/ Timeout
  PROVE  SessionNext
BY ClientPacketsArePeerPackets DEF UploadInv, SessionNext

-----------------------------------------------------------------------------
(* The handlers of an upload *)

(* The request opens the file and writes nothing. *)
LEMMA Request_Step ==
  ASSUME UploadInv, CMSG_WRQ
  PROVE  /\ FileGrows
         /\ TransferDone' => TransferDone
         /\ SelectedOperation' # SERVER_TO_CLIENT
<1>1. SelectedOperation # SERVER_TO_CLIENT  BY DEF UploadInv
<1>2. CASE UNCHANGED sessionVars  BY <1>1, <1>2 DEF sessionVars, FileGrows
<1>3. CASE RefuseRequest
  BY <1>1, <1>3 DEF RefuseRequest, Refuse, Break, EndOfIteration, FileGrows
<1>4. CASE /\ SelectedOperation' = CLIENT_TO_SERVER
           /\ \E r \in OptionReplies : SMSG_ACK_Block({}, FALSE, r.error, r.oack)
           /\ UNCHANGED <<WindowRetryCount, ReadDone, BytesHandled, filePos, stored>>
  <2>1. ~TransferDone'  BY <1>4 DEF SMSG_ACK_Block, EndOfIteration
  <2> QED  BY <1>4, <2>1 DEF FileGrows
<1> QED  BY <1>2, <1>3, <1>4 DEF CMSG_WRQ

(* A DATA packet that is not dropped is the block after the end of the     *)
(* file, and the short one finds the file complete but for itself.         *)
LEMMA Block_Step ==
  ASSUME UploadInv, SmallUpload, alive,
         NEW m \in toServer, m.op = "DATA", CMSG__DATA(m)
  PROVE  /\ FileGrows
         /\ TransferDone' /\ ~TransferDone => filePos' = LastFilled
         /\ SelectedOperation' # SERVER_TO_CLIENT
<1> USE DEF SmallUpload
<1>1. /\ FirstBlockInWindow \in Nat /\ filePos \in Nat
      /\ LastBlock \in Nat /\ LastBlock = FullBlocks + 1
  BY Numbers
<1>2. SelectedOperation # SERVER_TO_CLIENT /\ SessionInv  BY DEF UploadInv, OneBlockInv
<1>3. CASE Refuse(ERR_ILLEGAL_OPERATION)
  BY <1>2, <1>3 DEF Refuse, EndOfIteration, FileGrows
<1>4. CASE /\ EndOfIteration(ERR_DISK_FULL, TransferDone, {})
           /\ UNCHANGED <<SelectedOperation, FirstBlockInWindow, BlockNrInWindowReceived,
                          WindowRetryCount, ReadDone, filePos, stored>>
  BY <1>2, <1>4 DEF EndOfIteration, FileGrows
<1>5. CASE UNCHANGED <<alive, SelectedOperation, FirstBlockInWindow,
                       BlockNrInWindowReceived, WindowRetryCount, Error, ReadDone,
                       TransferDone, filePos, stored, toClient>>
  BY <1>2, <1>5 DEF FileGrows
<1>6. ASSUME SelectedOperation = CLIENT_TO_SERVER, ~Dropped(m.block), WriteBlock(m),
             NEW received,
             SMSG_ACK_Block(received, TransferDone \/ m.bytes < BlockSize, Error, {}),
             UNCHANGED <<SelectedOperation, ReadDone>>
      PROVE  /\ FileGrows
             /\ TransferDone' /\ ~TransferDone => filePos' = LastFilled
             /\ SelectedOperation' # SERVER_TO_CLIENT
  <2>1. /\ m.block \in 1 .. LastBlock
        /\ m.content = m.block
        /\ m.bytes = BlockBytes(m.block)
        /\ m.block <= FirstBlockInWindow + 1
    <3>1. m \in ClientPackets /\ m.block <= FirstBlockInWindow + 1  BY DEF UploadInv
    <3>2. PICK k \in 1 .. LastBlock : m = Data(k, k, BlockBytes(k))
      BY <3>1 DEF ClientPackets, Request
    <3> QED  BY <3>1, <3>2 DEF Data
  <2>2. m.block = FirstBlockInWindow + 1  BY <1>1, <1>6, <2>1 DEF Dropped
  <2>3. filePos = FirstBlockInWindow  BY <1>2, <1>6 DEF SessionInv
  <2>4. m.block = filePos + 1 /\ filePos + 1 <= LastBlock  BY <1>1, <2>1, <2>2, <2>3
  <2>5. TransferDone' = (TransferDone \/ m.bytes < BlockSize)
    BY <1>6 DEF SMSG_ACK_Block, EndOfIteration
  <2>6. m.bytes < BlockSize => m.block = LastBlock
    BY <1>1, <2>1, BlockSizeAssumption, FileAssumption DEF BlockBytes
  <2>7. m.bytes = 0 <=> m.block = LastBlock /\ TailBytes = 0
    BY <1>1, <2>1, BlockSizeAssumption, FileAssumption DEF BlockBytes
  <2>8. CASE m.bytes = 0
    <3>1. filePos' = filePos /\ stored' = stored  BY <1>6, <2>8 DEF WriteBlock
    <3>2. filePos + 1 = FullBlocks + 1 /\ LastFilled = FullBlocks
      BY <1>1, <2>4, <2>7, <2>8 DEF LastFilled
    <3>3. filePos = LastFilled  BY <1>1, <3>2, FileAssumption
    <3> QED  BY <1>6, <3>1, <3>3 DEF FileGrows
  <2>9. CASE m.bytes # 0
    <3>1. /\ filePos' = filePos + 1
          /\ stored' = [stored EXCEPT ![filePos + 1] = filePos + 1]
      <4>1. Position(m.block) = filePos + 1  BY DEF Position
      <4> QED  BY <1>6, <2>1, <2>4, <2>9, <4>1 DEF WriteBlock
    <3>2. filePos + 1 = LastBlock => LastFilled = LastBlock
      BY <2>4, <2>7, <2>9 DEF LastFilled
    <3>3. filePos < LastFilled
      <4>1. LastFilled \in {FullBlocks, LastBlock}  BY DEF LastFilled
      <4> QED  BY <1>1, <2>4, <3>2, <4>1, FileAssumption
    <3>4. m.bytes < BlockSize => filePos' = LastFilled
      BY <2>4, <2>6, <3>1, <3>2
    <3> QED  BY <1>6, <2>5, <3>1, <3>3, <3>4 DEF FileGrows
  <2> QED  BY <2>8, <2>9
<1> QED  BY <1>3, <1>4, <1>5, <1>6 DEF CMSG__DATA

(* A retry repeats the last ACK, or ends the session. *)
LEMMA Retry_Step ==
  ASSUME UploadInv, Timeout
  PROVE  /\ FileGrows
         /\ TransferDone' => TransferDone
         /\ SelectedOperation' # SERVER_TO_CLIENT
<1>1. SelectedOperation # SERVER_TO_CLIENT  BY DEF UploadInv
<1>2. CASE Break(Error)  BY <1>1, <1>2 DEF Break, FileGrows
<1>3. CASE /\ SMSG_ACK_Block(BlockNrInWindowReceived, TransferDone, Error, {})
           /\ UNCHANGED <<SelectedOperation, ReadDone, BytesHandled, filePos, stored>>
  BY <1>1, <1>3 DEF SMSG_ACK_Block, EndOfIteration, FileGrows
<1> QED  BY <1>1, <1>2, <1>3 DEF Timeout

(* An iteration of the server's loop during an upload. *)
LEMMA Server_Step ==
  ASSUME UploadInv, SmallUpload,
         (\E m \in toServer : ParsePacket(m)) \/ Timeout
  PROVE  /\ alive
         /\ FileGrows
         /\ TransferDone' /\ ~TransferDone => filePos' = LastFilled
         /\ SelectedOperation' # SERVER_TO_CLIENT
<1>1. CASE Timeout  BY <1>1, Retry_Step DEF Timeout
<1>2. ASSUME NEW m \in toServer, ParsePacket(m)
      PROVE  /\ alive
             /\ FileGrows
             /\ TransferDone' /\ ~TransferDone => filePos' = LastFilled
             /\ SelectedOperation' # SERVER_TO_CLIENT
  <2>1. alive  BY <1>2 DEF ParsePacket
  <2>2. m.op \in {"WRQ", "DATA"}  BY DEF UploadInv, ClientPackets, Request, Data
  <2>3. CASE m.op = "WRQ" /\ CMSG_WRQ  BY <2>1, <2>3, Request_Step
  <2>4. CASE m.op = "DATA" /\ CMSG__DATA(m)  BY <2>1, <2>4, Block_Step
  <2> QED  BY <1>2, <2>2, <2>3, <2>4 DEF ParsePacket
<1> QED  BY <1>1, <1>2

-----------------------------------------------------------------------------
(* The invariant *)

(* The request is under way. *)
LEMMA UploadInit ==
  ASSUME Init
  PROVE  UploadInv
<1> USE DEF Init, NetworkInit
<1>1. SessionInv  BY SessionInit_Inv
<1>2. /\ SelectedOperation = NOT_INITIALIZED
      /\ FirstBlockInWindow = 0 /\ filePos = 0 /\ toClient = {} /\ ~TransferDone
      /\ stored = [p \in 1 .. BlockMod - 1 |-> Hole]
      /\ toServer = {Request("WRQ")} /\ started = FALSE /\ acked = 0
  BY DEF SessionInit
<1>3. OneBlockInv  BY <1>1, <1>2 DEF OneBlockInv
<1>4. toServer \subseteq ClientPackets  BY <1>2 DEF ClientPackets
<1>5. \A d \in toServer : d.op # "DATA"  BY <1>2 DEF Request
<1>6. StoredPrefix  BY <1>2, BlockModAssumption DEF StoredPrefix
<1>7. LastBlock \in Nat /\ LastFilled \in Nat
  BY FileAssumption DEF LastBlock, LastFilled
<1>8. acked \in 0 .. LastBlock /\ acked <= FirstBlockInWindow /\ filePos <= LastFilled
  BY <1>2, <1>7
<1>9. SelectedOperation # SERVER_TO_CLIENT  BY <1>2
<1> QED  BY <1>2, <1>3, <1>4, <1>5, <1>6, <1>8, <1>9 DEF UploadInv

(* The prefix grows by the block after it. *)
LEMMA PrefixGrows ==
  ASSUME UploadInv, LastBlock < BlockMod, FileGrows
  PROVE  StoredPrefix' /\ filePos' <= LastFilled
<1>1. /\ filePos \in Nat /\ LastFilled \in Nat /\ BlockMod \in Nat
      /\ LastFilled < BlockMod
      /\ stored \in [1 .. BlockMod - 1 -> Nat]
  BY Numbers
<1>2. StoredPrefix /\ filePos <= LastFilled  BY DEF UploadInv
<1>3. CASE filePos' = filePos /\ stored' = stored
  BY <1>2, <1>3 DEF StoredPrefix
<1>4. CASE /\ filePos < LastFilled
           /\ filePos' = filePos + 1
           /\ stored' = [stored EXCEPT ![filePos + 1] = filePos + 1]
  <2>1. \A p \in 1 .. BlockMod - 1 :
           stored'[p] = IF p = filePos + 1 THEN filePos + 1 ELSE stored[p]
    BY <1>1, <1>4
  <2>2. DOMAIN stored' = 1 .. BlockMod - 1 /\ DOMAIN stored = 1 .. BlockMod - 1
    BY <1>1, <1>4
  <2>3. ASSUME NEW p \in 1 .. BlockMod - 1
        PROVE  stored'[p] = IF p <= filePos' THEN p ELSE Hole
    <3>1. stored[p] = IF p <= filePos THEN p ELSE Hole  BY <1>2, <2>2 DEF StoredPrefix
    <3>2. CASE p = filePos + 1  BY <1>1, <1>4, <2>1, <3>2
    <3>3. CASE p # filePos + 1
      <4>1. stored'[p] = stored[p]  BY <2>1, <3>3
      <4>2. p <= filePos' <=> p <= filePos  BY <1>1, <1>4, <3>3
      <4> QED  BY <3>1, <4>1, <4>2
    <3> QED  BY <3>2, <3>3
  <2>4. filePos' <= LastFilled  BY <1>1, <1>4
  <2> QED  BY <2>2, <2>3, <2>4 DEF StoredPrefix
<1> QED  BY <1>3, <1>4 DEF FileGrows

(* The server's steps leave the client alone. *)
LEMMA ServerKeepsInv ==
  ASSUME UploadInv, SmallUpload, ServerReceive \/ ServerTimeout, UNCHANGED clientVars
  PROVE  UploadInv'
<1> USE DEF SmallUpload
<1>1. /\ started' = started /\ acked' = acked /\ toServer' = toServer
      /\ (\E m \in toServer : ParsePacket(m)) \/ Timeout
  BY DEF ServerReceive, ServerTimeout, clientVars
<1>2. SessionNext  BY <1>1, ServerIsSession
<1>3. OneBlockInv  BY DEF UploadInv
<1>4. OneBlockInv'  BY <1>2, <1>3, OneBlock_Step
<1>5. FirstBlockInWindow' >= FirstBlockInWindow
  BY <1>2, <1>3, SessionNext_Step DEF OneBlockInv
<1>6. /\ alive
      /\ FileGrows
      /\ TransferDone' /\ ~TransferDone => filePos' = LastFilled
      /\ SelectedOperation' # SERVER_TO_CLIENT
  BY <1>1, Server_Step
<1>7. ~TransferDone  BY <1>3, <1>6 DEF OneBlockInv, SessionInv
<1>8. StoredPrefix' /\ filePos' <= LastFilled  BY <1>6, PrefixGrows
<1>9. FirstBlockInWindow \in Nat /\ FirstBlockInWindow' \in Nat
  BY <1>4, Numbers, BlockModAssumption DEF OneBlockInv, SessionInv, TypeOK
<1>10. acked' \in 0 .. LastBlock /\ acked' <= FirstBlockInWindow'
  BY <1>1, <1>5, <1>9, FileAssumption DEF UploadInv, LastBlock
<1>11. ASSUME NEW d \in toServer', d.op = "DATA"
       PROVE  d.block <= FirstBlockInWindow' + 1
  <2>1. d \in ClientPackets /\ d.block <= FirstBlockInWindow + 1
    BY <1>1, <1>11 DEF UploadInv
  <2>2. d.block \in Nat
    BY <1>11, <2>1, FileAssumption DEF ClientPackets, Request, Data, LastBlock
  <2> QED  BY <1>5, <1>9, <2>1, <2>2
<1>12. started' \in BOOLEAN /\ toServer' \subseteq ClientPackets
  BY <1>1 DEF UploadInv
<1>13. TransferDone' => filePos' = LastFilled  BY <1>6, <1>7
<1> QED  BY <1>4, <1>6, <1>8, <1>10, <1>11, <1>12, <1>13 DEF UploadInv

(* The client waits for the ACK of a block before it sends the next one.   *)
LEMMA ClientKeepsInv ==
  ASSUME UploadInv, SmallUpload, ClientStart \/ ClientSend \/ ClientReceiveAck
  PROVE  UploadInv'
<1> USE DEF SmallUpload
<1>1. UNCHANGED sessionVars
  BY DEF ClientStart, ClientSend, ClientReceiveAck, ClientSends, netVars
<1>2. OneBlockInv  BY DEF UploadInv
<1>3. OneBlockInv'  BY <1>1, <1>2, OneBlock_Step
<1>4. /\ FirstBlockInWindow' = FirstBlockInWindow
      /\ SelectedOperation' = SelectedOperation
      /\ TransferDone' = TransferDone
      /\ filePos' = filePos /\ stored' = stored
  BY <1>1 DEF sessionVars
<1>5. /\ FirstBlockInWindow \in Nat /\ LastBlock \in Nat
      /\ LastBlock < BlockMod /\ BlockMod \in Nat
      /\ acked \in 0 .. LastBlock /\ acked <= FirstBlockInWindow
  BY Numbers DEF UploadInv
<1>6. StoredPrefix' /\ filePos' <= LastFilled /\ (TransferDone' => filePos' = LastFilled)
  BY <1>4 DEF UploadInv, StoredPrefix
<1>7. ASSUME NEW k \in ClientWindow
      PROVE  k \in 1 .. LastBlock /\ k = acked + 1 /\ k % BlockMod = k
  <2>1. k >= acked + 1 /\ k <= acked + 1 /\ k <= LastBlock /\ k \in Int
    BY <1>5 DEF ClientWindow, Least
  <2>2. k \in 1 .. LastBlock /\ k = acked + 1  BY <1>5, <2>1
  <2> QED  BY <1>5, <2>2
<1>8. CASE ClientStart
  <2>1. started' \in BOOLEAN /\ toServer' = toServer /\ acked' = acked
    BY <1>8 DEF ClientStart, netVars
  <2> QED  BY <1>3, <1>4, <1>6, <2>1 DEF UploadInv
<1>9. CASE ClientSend
  <2>1. started' = started /\ acked' = acked  BY <1>9 DEF ClientSend, clientVars
  <2>2. PICK k \in ClientWindow : toServer' = toServer \cup {Data(k % BlockMod, k, BlockBytes(k))}
    BY <1>9 DEF ClientSend, ClientSends
  <2>3. Data(k % BlockMod, k, BlockBytes(k)) = Data(k, k, BlockBytes(k))  BY <1>7
  <2>4. toServer' \subseteq ClientPackets
    BY <1>7, <2>2, <2>3 DEF UploadInv, ClientPackets
  <2>5. Data(k, k, BlockBytes(k)).block <= FirstBlockInWindow + 1
    BY <1>5, <1>7 DEF Data
  <2>6. \A d \in toServer' : d.op = "DATA" => d.block <= FirstBlockInWindow' + 1
    BY <1>4, <2>2, <2>3, <2>5 DEF UploadInv
  <2> QED  BY <1>3, <1>4, <1>6, <2>1, <2>4, <2>6 DEF UploadInv
<1>10. CASE ClientReceiveAck
  <2>1. started' = started /\ toServer' = toServer
    BY <1>10 DEF ClientReceiveAck, netVars
  <2>2. PICK k \in ClientWindow : Ack(k % BlockMod) \in toClient /\ acked' = k
    BY <1>10 DEF ClientReceiveAck
  <2>3. k % BlockMod <= FirstBlockInWindow
    BY <1>2, <2>2 DEF OneBlockInv, Ack
  <2>4. acked' \in 0 .. LastBlock /\ acked' <= FirstBlockInWindow'
    BY <1>4, <1>5, <1>7, <2>2, <2>3
  <2> QED  BY <1>3, <1>4, <1>6, <2>1, <2>4 DEF UploadInv
<1> QED  BY <1>8, <1>9, <1>10

(* A lost datagram only makes the sets of datagrams smaller. *)
LEMMA LoseKeepsInv ==
  ASSUME UploadInv, Lose, UNCHANGED clientVars
  PROVE  UploadInv'
<1>1. /\ UNCHANGED <<alive, SelectedOperation, FirstBlockInWindow, BlockNrInWindowReceived,
                     WindowRetryCount, Error, ReadDone, TransferDone, BytesHandled,
                     filePos, stored>>
      /\ started' = started /\ acked' = acked
      /\ toClient' \subseteq toClient /\ toServer' \subseteq toServer
  BY DEF Lose, sessionVars, clientVars
<1>2. SessionInv  BY DEF UploadInv, OneBlockInv
<1>3. TypeOK'  BY <1>1, <1>2 DEF SessionInv, TypeOK
<1>4. DataFaithful'  BY <1>1, <1>2 DEF SessionInv, DataFaithful
<1>5. SessionInv'  BY <1>1, <1>2, <1>3, <1>4 DEF SessionInv, ReadWindowInFile
<1>6. OneBlockInv'  BY <1>1, <1>5 DEF UploadInv, OneBlockInv
<1>7. StoredPrefix'  BY <1>1 DEF UploadInv, StoredPrefix
<1> QED  BY <1>1, <1>6, <1>7 DEF UploadInv

(* UploadInv is inductive. *)
LEMMA UploadNext ==
  ASSUME UploadInv, SmallUpload, [Next]_vars
  PROVE  UploadInv'
<1>1. CASE (ServerReceive \/ ServerTimeout) /\ UNCHANGED clientVars
  BY <1>1, ServerKeepsInv
<1>2. CASE ClientStart \/ ClientSend \/ ClientReceiveAck  BY <1>2, ClientKeepsInv
<1>3. CASE Lose /\ UNCHANGED clientVars  BY <1>3, LoseKeepsInv
<1>4. CASE UNCHANGED vars
  <2>1. UNCHANGED sessionVars /\ toServer' = toServer /\ UNCHANGED clientVars
    BY <1>4 DEF vars, netVars
  <2>2. OneBlockInv'  BY <2>1, OneBlock_Step DEF UploadInv, SmallUpload
  <2>3. StoredPrefix'  BY <2>1 DEF UploadInv, StoredPrefix, sessionVars
  <2> QED  BY <2>1, <2>2, <2>3 DEF UploadInv, sessionVars, clientVars
<1> QED  BY <1>1, <1>2, <1>3, <1>4 DEF Next

(* The invariant of an upload with one block in the window. *)
THEOREM UploadInvariant ==
  ASSUME SmallUpload
  PROVE  Spec => []UploadInv
<1>1. UploadInv /\ [Next]_vars => UploadInv'  BY UploadNext
<1> QED  BY <1>1, UploadInit, PTL DEF Spec

-----------------------------------------------------------------------------
(* What an upload promises *)

(* The types of the session and of what the client sends. *)
THEOREM UploadTypes ==
  ASSUME SmallUpload
  PROVE  Spec => []UploadTypeOK
<1>1. UploadInv => UploadTypeOK
  <2> SUFFICES ASSUME UploadInv PROVE UploadTypeOK  OBVIOUS
  <2>1. /\ TypeOK /\ started \in BOOLEAN /\ acked \in 0 .. LastBlock
        /\ toServer \subseteq ClientPackets
    BY DEF UploadInv, OneBlockInv, SessionInv
  <2>2. Request("WRQ") \in [op : {"WRQ"}]  BY DEF Request
  <2>3. ASSUME NEW k \in 1 .. LastBlock
        PROVE  Data(k, k, BlockBytes(k))
                 \in [op : {"DATA"}, block : Block, content : Nat, bytes : 0 .. BlockSize]
    <3>1. k \in Block /\ k \in Nat
      BY BlockModAssumption, FileAssumption DEF SmallUpload, Block, LastBlock
    <3>2. BlockBytes(k) \in 0 .. BlockSize
      BY BlockSizeAssumption, FileAssumption DEF BlockBytes
    <3> QED  BY <3>1, <3>2 DEF Data
  <2> QED  BY <2>1, <2>2, <2>3 DEF UploadTypeOK, ClientPackets
<1> QED  BY <1>1, UploadInvariant, PTL

(* The server's file is a prefix of the client's. *)
THEOREM UploadStoresPrefix ==
  ASSUME SmallUpload
  PROVE  Spec => []StoredPrefix
<1>1. UploadInv => StoredPrefix  BY DEF UploadInv
<1> QED  BY <1>1, UploadInvariant, PTL

(* The blocks up to the end of the file are in it. *)
LEMMA PrefixHolds ==
  ASSUME UploadInv, SmallUpload, NEW p \in 1 .. filePos
  PROVE  stored[p] = p
<1>1. /\ filePos \in Nat /\ LastFilled \in Nat /\ LastFilled < BlockMod /\ BlockMod \in Nat
      /\ stored \in [1 .. BlockMod - 1 -> Nat]
  BY Numbers DEF SmallUpload
<1>2. StoredPrefix /\ filePos <= LastFilled  BY DEF UploadInv
<1>3. p \in DOMAIN stored /\ p <= filePos  BY <1>1, <1>2
<1> QED  BY <1>2, <1>3 DEF StoredPrefix

(* What is acknowledged is stored. *)
THEOREM UploadAcksStored ==
  ASSUME SmallUpload
  PROVE  Spec => []AckedBlocksStored
<1>1. UploadInv => AckedBlocksStored
  <2> SUFFICES ASSUME UploadInv, NEW a \in toClient, a.op = "ACK", NEW p \in 1 .. a.block
               PROVE  stored[p] = p
    BY DEF AckedBlocksStored
  <2>1. FirstBlockInWindow \in Nat /\ filePos \in Nat /\ FirstBlockInWindow <= filePos
    BY Numbers DEF SmallUpload
  <2>2. a.block <= FirstBlockInWindow /\ a \in Packets
    BY DEF UploadInv, OneBlockInv, SessionInv, TypeOK
  <2>3. a.block \in Nat  BY <2>2, BlockModAssumption DEF Packets, Block, Oack
  <2>4. p \in 1 .. filePos  BY <2>1, <2>2, <2>3
  <2> QED  BY <2>4, PrefixHolds
<1> QED  BY <1>1, UploadInvariant, PTL

(* A transfer the server takes for done has stored the whole file. *)
THEOREM UploadCompletes ==
  ASSUME SmallUpload
  PROVE  Spec => []UploadCompletionSound
<1>1. UploadInv => UploadCompletionSound
  <2> SUFFICES ASSUME UploadInv, TransferDone, NEW p \in 1 .. LastFilled
               PROVE  stored[p] = p
    BY DEF UploadCompletionSound
  <2>1. p \in 1 .. filePos  BY DEF UploadInv
  <2> QED  BY <2>1, PrefixHolds
<1> QED  BY <1>1, UploadInvariant, PTL

(* So has one whose last block the client knows to be acknowledged. *)
THEOREM UploadClientSuccess ==
  ASSUME SmallUpload
  PROVE  Spec => []ClientSuccessSound
<1>1. UploadInv => ClientSuccessSound
  <2> SUFFICES ASSUME UploadInv, acked = LastBlock, NEW p \in 1 .. LastFilled
               PROVE  stored[p] = p
    BY DEF ClientSuccessSound
  <2>1. /\ FirstBlockInWindow \in Nat /\ filePos \in Nat /\ FirstBlockInWindow <= filePos
        /\ LastBlock \in Nat /\ LastFilled \in Nat /\ LastFilled <= LastBlock
    BY Numbers DEF SmallUpload
  <2>2. LastBlock <= FirstBlockInWindow  BY DEF UploadInv
  <2>3. p \in 1 .. filePos  BY <2>1, <2>2
  <2> QED  BY <2>3, PrefixHolds
<1> QED  BY <1>1, UploadInvariant, PTL

-----------------------------------------------------------------------------
(* The last acknowledgement *)

(* The handler that takes the short block acknowledges it, if it has bytes. *)
LEMMA LastBlock_Step ==
  ASSUME UploadInv, SmallUpload, TailBytes # 0, alive,
         NEW m \in toServer, m.op = "DATA", CMSG__DATA(m),
         TransferDone', ~TransferDone, Error' = NO_ERROR
  PROVE  Ack(LastBlock) \in toClient'
<1> USE DEF SmallUpload
<1> DEFINE received == BlockNrInWindowReceived
                         \cup (IF m.bytes > 0 THEN {WindowIndex(m.block)} ELSE {})
<1>1. /\ ~Dropped(m.block)
      /\ SMSG_ACK_Block(received, TransferDone \/ m.bytes < BlockSize, Error, {})
  BY DEF CMSG__DATA, Refuse, EndOfIteration
<1>2. /\ FirstBlockInWindow \in Nat
      /\ LastBlock \in Nat /\ LastBlock = FullBlocks + 1
  BY Numbers
<1>3. m.bytes < BlockSize
  <2>1. TransferDone' = (TransferDone \/ m.bytes < BlockSize)
    BY <1>1 DEF SMSG_ACK_Block, EndOfIteration
  <2> QED  BY <2>1
<1>4. m.block = LastBlock /\ m.bytes = TailBytes /\ LastBlock <= FirstBlockInWindow + 1
  <2>1. m \in ClientPackets /\ m.block <= FirstBlockInWindow + 1  BY DEF UploadInv
  <2>2. PICK k \in 1 .. LastBlock : m = Data(k, k, BlockBytes(k))
    BY <2>1 DEF ClientPackets, Request
  <2>3. m.block = k /\ m.bytes = BlockBytes(k)  BY <2>2 DEF Data
  <2>4. k = LastBlock
    BY <1>2, <1>3, <2>3, BlockSizeAssumption, FileAssumption DEF BlockBytes
  <2>5. BlockBytes(LastBlock) = TailBytes  BY <1>2, FileAssumption DEF BlockBytes
  <2> QED  BY <2>1, <2>3, <2>4, <2>5
<1>5. LastBlock = FirstBlockInWindow + 1
  <2>1. LastBlock > FirstBlockInWindow  BY <1>1, <1>2, <1>4 DEF Dropped
  <2> QED  BY <1>2, <1>4, <2>1
<1>6. BlocksReceived(received) = 1
  <2>1. BlockNrInWindowReceived = {}  BY DEF UploadInv, OneBlockInv, SessionInv
  <2>2. WindowIndex(m.block) = 0  BY <1>2, <1>4 DEF WindowIndex
  <2>3. m.bytes > 0  BY <1>4, FileAssumption
  <2>4. received = {0}  BY <2>1, <2>2, <2>3
  <2> HIDE DEF received
  <2> QED  BY <2>4, BlocksReceivedValue
<1> HIDE DEF received
<1>7. (FirstBlockInWindow + BlocksReceived(received)) % BlockMod = LastBlock
  BY <1>2, <1>5, <1>6, BlockModAssumption
<1>8. CASE EndOfIteration(Error, TransferDone \/ m.bytes < BlockSize, {} \cup {Ack(LastBlock)})
  BY <1>8 DEF EndOfIteration
<1>9. CASE EndOfIteration(ERR_UNDEFINED, TransferDone \/ m.bytes < BlockSize, {})
  BY <1>9 DEF EndOfIteration
<1> QED  BY <1>1, <1>7, <1>8, <1>9 DEF SMSG_ACK_Block

(* The ACK of the last block is sent by the step that finishes the upload, *)
(* unless the last block is empty: run upload_empty_last_block.            *)
THEOREM UploadAcksLastBlock ==
  ASSUME SmallUpload, TailBytes # 0
  PROVE  Spec => LastBlockAcked
<1> DEFINE Acked == TransferDone' /\ ~TransferDone /\ Error' = NO_ERROR
                      => Ack(LastBlock) \in toClient'
<1>1. UploadInv /\ [Next]_vars => [Acked]_vars
  <2> SUFFICES ASSUME UploadInv, [Next]_vars,
                      TransferDone', ~TransferDone, Error' = NO_ERROR
               PROVE  Ack(LastBlock) \in toClient'
    OBVIOUS
  <2>1. CASE ServerReceive
    <3>1. PICK m \in toServer : ParsePacket(m)  BY <2>1 DEF ServerReceive
    <3>2. alive  BY <3>1 DEF ParsePacket
    <3>3. m.op \in {"WRQ", "DATA"}  BY DEF UploadInv, ClientPackets, Request, Data
    <3>4. CASE m.op = "WRQ" /\ CMSG_WRQ  BY <3>4, Request_Step
    <3>5. CASE m.op = "DATA" /\ CMSG__DATA(m)  BY <3>2, <3>5, LastBlock_Step
    <3> QED  BY <3>1, <3>3, <3>4, <3>5 DEF ParsePacket
  <2>2. CASE ServerTimeout  BY <2>2, Retry_Step DEF ServerTimeout
  <2>3. CASE Lose \/ ClientStart \/ ClientSend \/ ClientReceiveAck \/ UNCHANGED vars
    <3>1. TransferDone' = TransferDone
      BY <2>3 DEF Lose, ClientStart, ClientSend, ClientReceiveAck, ClientSends, vars,
                  netVars, sessionVars
    <3> QED  BY <3>1
  <2> QED  BY <2>1, <2>2, <2>3 DEF Next
<1> QED  BY <1>1, UploadInvariant, PTL DEF Spec, LastBlockAcked

-----------------------------------------------------------------------------
(* The refinement *)

(* The server's file as FileTransfer sees it. *)
StoredCopy == [p \in 1 .. filePos |-> stored[p]]

(* It is the sequence of the first filePos blocks. *)
LEMMA CopyOfPrefix ==
  ASSUME UploadInv, SmallUpload
  PROVE  StoredCopy = [p \in 1 .. filePos |-> p]
BY PrefixHolds DEF StoredCopy

(* Such a sequence grows by appending the next number. *)
LEMMA CountingSequence ==
  ASSUME NEW n \in Nat
  PROVE  /\ Len([p \in 1 .. n |-> p]) = n
         /\ Append([p \in 1 .. n |-> p], n + 1) = [p \in 1 .. n + 1 |-> p]
OBVIOUS

(* Every step of an upload is a step of a file transfer or none. *)
LEMMA UploadSimulates ==
  ASSUME UploadInv, UploadInv', SmallUpload, [Next]_vars
  PROVE  [FT!Next]_<<StoredCopy, ServerStatus>>
<1>1. /\ filePos \in Nat /\ LastFilled \in Nat
      /\ StoredCopy = [p \in 1 .. filePos |-> p] /\ Len(StoredCopy) = filePos
  BY Numbers, CopyOfPrefix, CountingSequence DEF SmallUpload
<1>2. CASE (ServerReceive \/ ServerTimeout) /\ UNCHANGED clientVars
  <2>1. (\E m \in toServer : ParsePacket(m)) \/ Timeout
    BY <1>2 DEF ServerReceive, ServerTimeout
  <2>2. alive /\ FileGrows  BY <2>1, Server_Step
  <2>3. ServerStatus = "running"  BY <2>2 DEF ServerStatus
  <2>4. filePos' \in Nat  BY <1>1, <2>2 DEF FileGrows
  <2>5. StoredCopy' = [p \in 1 .. filePos' |-> p]
    <3>1. ASSUME NEW p \in 1 .. filePos' PROVE stored'[p] = p
      <4>1. /\ stored' \in [1 .. BlockMod - 1 -> Nat] /\ StoredPrefix'
            /\ filePos' <= LastFilled /\ LastFilled < BlockMod /\ BlockMod \in Nat
        <5>1. stored' \in [1 .. BlockMod - 1 -> Nat]
          BY DEF UploadInv, OneBlockInv, SessionInv, TypeOK
        <5>2. LastFilled < BlockMod /\ BlockMod \in Nat  BY Numbers DEF SmallUpload
        <5>3. StoredPrefix' /\ filePos' <= LastFilled
          BY <2>2, PrefixGrows DEF SmallUpload
        <5> QED  BY <5>1, <5>2, <5>3
      <4>2. p \in DOMAIN stored' /\ p <= filePos'  BY <1>1, <2>4, <4>1
      <4> QED  BY <4>1, <4>2 DEF StoredPrefix
    <3> QED  BY <3>1 DEF StoredCopy
  <2>6. Len(StoredCopy') = filePos'  BY <2>4, <2>5, CountingSequence
  <2>7. StoredCopy' = StoredCopy \/ FT!NextBlock
    <3>1. CASE filePos' = filePos  BY <1>1, <2>5, <3>1
    <3>2. CASE filePos < LastFilled /\ filePos' = filePos + 1
      <4>1. StoredCopy' = Append(StoredCopy, Len(StoredCopy) + 1)
        BY <1>1, <2>5, <3>2, CountingSequence
      <4> QED  BY <1>1, <3>2, <4>1 DEF FT!NextBlock, StoredCopy
    <3> QED  BY <2>2, <3>1, <3>2 DEF FileGrows
  <2>8. CASE ServerStatus' = "running"
    BY <2>3, <2>7, <2>8 DEF FT!Next, FT!Deliver, StoredCopy
  <2>9. CASE ServerStatus' = "complete"
    <3>1. TransferDone'  BY <2>9 DEF ServerStatus
    <3>2. filePos' = LastFilled'  BY <3>1 DEF UploadInv
    <3>3. LastFilled' = LastFilled  BY DEF LastFilled, LastBlock
    <3>4. Len(StoredCopy') + 0 >= LastFilled  BY <1>1, <2>6, <3>2, <3>3
    <3> QED  BY <2>3, <2>7, <2>9, <3>4 DEF FT!Next, FT!Complete, StoredCopy
  <2>10. CASE ServerStatus' = "failed"
    BY <2>3, <2>7, <2>10 DEF FT!Next, FT!Fail, StoredCopy
  <2> QED  BY <2>8, <2>9, <2>10 DEF ServerStatus
<1>3. CASE \/ Lose /\ UNCHANGED clientVars
           \/ ClientStart \/ ClientSend \/ ClientReceiveAck
           \/ UNCHANGED vars
  <2>1. /\ alive' = alive /\ TransferDone' = TransferDone /\ Error' = Error
        /\ filePos' = filePos /\ stored' = stored
    BY <1>3 DEF Lose, ClientStart, ClientSend, ClientReceiveAck, ClientSends, vars,
                netVars, sessionVars
  <2> QED  BY <2>1 DEF ServerStatus, StoredCopy
<1> QED  BY <1>2, <1>3 DEF Next

(* An upload with one block in the window implements FileTransfer. *)
THEOREM UploadImplementsFileTransfer ==
  ASSUME SmallUpload
  PROVE  Spec => UploadIsFileTransfer
<1>1. Init => FT!Init
  <2> SUFFICES ASSUME Init PROVE FT!Init  OBVIOUS
  <2>1. filePos = 0 /\ alive  BY DEF Init, NetworkInit, SessionInit
  <2>2. [p \in 1 .. filePos |-> stored[p]] = <<>>  BY <2>1
  <2> QED  BY <2>1, <2>2 DEF FT!Init, ServerStatus
<1>2. UploadInv /\ UploadInv' /\ [Next]_vars
        => [FT!Next]_<<[p \in 1 .. filePos |-> stored[p]], ServerStatus>>
  BY UploadSimulates DEF StoredCopy
<1> QED  BY <1>1, <1>2, UploadInvariant, PTL DEF Spec, UploadIsFileTransfer, FT!Spec

-----------------------------------------------------------------------------
(* Any window *)

(* A place of the file holds its block, or nothing. *)
RightPlaces == \A p \in DOMAIN stored : stored[p] \in {p, Hole}

(* The offset of every block of the file fits into an int, or no block is  *)
(* looked for by its offset.                                               *)
FileFits == WindowSize = 1 \/ OffsetFits(FullBlocks)

LEMMA BlockFits ==
  ASSUME OffsetFits(FullBlocks), NEW n \in 1 .. LastBlock
  PROVE  OffsetFits(n - 1)
<1>1. n - 1 <= FullBlocks /\ FullBlocks \in Nat  BY FileAssumption DEF LastBlock
<1>2. INT_MAX \div BlockSize \in Int  BY IntAssumption, BlockSizeAssumption
<1> QED  BY <1>1, <1>2 DEF OffsetFits, LastBlock

PlacesInv ==
  /\ SessionInv
  /\ toServer \subseteq ClientPackets
  /\ acked \in 0 .. LastBlock
  /\ RightPlaces

LEMMA InitPlacesInv ==
  ASSUME Init
  PROVE  PlacesInv
<1> USE DEF Init, NetworkInit
<1>1. SessionInv  BY SessionInit_Inv
<1>2. /\ stored = [p \in 1 .. BlockMod - 1 |-> Hole]
      /\ toServer = {Request("WRQ")} /\ acked = 0
  BY DEF SessionInit
<1>3. RightPlaces  BY <1>2 DEF RightPlaces
<1>4. LastBlock \in Nat  BY FileAssumption DEF LastBlock
<1> QED  BY <1>1, <1>2, <1>3, <1>4 DEF PlacesInv, ClientPackets

(* With more than one block in the window, a block is written at the place *)
(* its number gives it; without a file nothing is.                         *)
LEMMA WriteInPlace ==
  ASSUME PlacesInv, WindowSize # 1 \/ NoFileWriteOnServer, FileFits,
         (\E m \in toServer : ParsePacket(m)) \/ Timeout
  PROVE  RightPlaces'
<1>1. CASE stored' = stored  BY <1>1 DEF PlacesInv, RightPlaces
<1>2. CASE Timeout
  <2>1. stored' = stored  BY <1>2 DEF Timeout, Break, SMSG_DATA
  <2> QED  BY <1>1, <2>1
<1>3. ASSUME NEW m \in toServer, ParsePacket(m)
      PROVE  RightPlaces'
  <2>1. m \in ClientPackets  BY DEF PlacesInv
  <2>2. m.op \in {"WRQ", "DATA"}  BY <2>1 DEF ClientPackets, Request, Data
  <2>3. CASE m.op = "WRQ" /\ CMSG_WRQ
    <3>1. stored' = stored
      BY <2>3 DEF CMSG_WRQ, RefuseRequest, Refuse, Break, sessionVars
    <3> QED  BY <1>1, <3>1
  <2>4. CASE m.op = "DATA" /\ CMSG__DATA(m)
    <3>1. m.block = m.content /\ m.block \in 1 .. LastBlock
      BY <2>1, <2>4 DEF ClientPackets, Request, Data
    <3>2. stored' = stored \/ stored' = [stored EXCEPT ![m.block] = m.block]
      <4>1. stored' = stored \/ WriteBlock(m)  BY <2>4 DEF CMSG__DATA, Refuse
      <4>2. WindowSize # 1 => Position(m.block) = m.block
        BY <3>1, BlockFits DEF Position, FileFits
      <4> QED  BY <3>1, <4>1, <4>2 DEF WriteBlock
    <3> QED  BY <1>1, <3>2 DEF PlacesInv, RightPlaces
  <2> QED  BY <1>3, <2>2, <2>3, <2>4 DEF ParsePacket
<1> QED  BY <1>2, <1>3

LEMMA NextPlacesInv ==
  ASSUME PlacesInv, WindowSize # 1 \/ NoFileWriteOnServer, FileFits,
         LastBlock < BlockMod, [Next]_vars
  PROVE  PlacesInv'
<1>1. CASE (ServerReceive \/ ServerTimeout) /\ UNCHANGED clientVars
  <2>1. /\ acked' = acked /\ toServer' = toServer
        /\ (\E m \in toServer : ParsePacket(m)) \/ Timeout
    BY <1>1 DEF ServerReceive, ServerTimeout, clientVars
  <2>2. SessionNext  BY <2>1, ClientPacketsArePeerPackets DEF PlacesInv, SessionNext
  <2>3. SessionInv'  BY <2>2, SessionNext_Step DEF PlacesInv
  <2>4. RightPlaces'  BY <2>1, WriteInPlace
  <2> QED  BY <2>1, <2>3, <2>4 DEF PlacesInv
<1>2. CASE ClientStart \/ ClientSend \/ ClientReceiveAck \/ UNCHANGED vars
  <2>1. UNCHANGED sessionVars
    BY <1>2 DEF ClientStart, ClientSend, ClientReceiveAck, ClientSends, netVars, vars
  <2>2. SessionInv' /\ RightPlaces'
    BY <2>1, Unchanged_Step DEF PlacesInv, RightPlaces, sessionVars
  <2>3. ASSUME NEW k \in ClientWindow PROVE k \in 1 .. LastBlock /\ k % BlockMod = k
    <3>1. /\ LastBlock \in Nat /\ LastBlock < BlockMod /\ BlockMod \in Nat
          /\ acked \in 0 .. LastBlock /\ WindowSize \in Nat
      BY FileAssumption, BlockModAssumption, WindowSizeAssumption DEF LastBlock, PlacesInv
    <3>2. k \in acked + 1 .. LastBlock  BY <3>1 DEF ClientWindow, Least
    <3> QED  BY <3>1, <3>2
  <2>4. toServer' \subseteq ClientPackets
    <3>1. CASE toServer' = toServer  BY <3>1 DEF PlacesInv
    <3>2. CASE ClientSend
      <4>1. PICK k \in ClientWindow :
              toServer' = toServer \cup {Data(k % BlockMod, k, BlockBytes(k))}
        BY <3>2 DEF ClientSend, ClientSends
      <4> QED  BY <2>3, <4>1 DEF PlacesInv, ClientPackets
    <3> QED  BY <1>2, <3>1, <3>2 DEF ClientStart, ClientReceiveAck, netVars, vars
  <2>5. acked' \in 0 .. LastBlock
    <3>1. CASE acked' = acked  BY <3>1 DEF PlacesInv
    <3>2. CASE ClientReceiveAck
      <4>1. acked' \in ClientWindow  BY <3>2 DEF ClientReceiveAck
      <4>2. LastBlock \in Nat  BY FileAssumption DEF LastBlock
      <4> QED  BY <2>3, <4>1, <4>2
    <3> QED  BY <1>2, <3>1, <3>2 DEF ClientStart, ClientSend, clientVars, vars
  <2> QED  BY <2>2, <2>4, <2>5 DEF PlacesInv
<1>3. CASE Lose /\ UNCHANGED clientVars
  <2>1. /\ UNCHANGED <<alive, SelectedOperation, FirstBlockInWindow, BlockNrInWindowReceived,
                       WindowRetryCount, Error, ReadDone, TransferDone, BytesHandled,
                       filePos, stored, acked>>
        /\ toClient' \subseteq toClient /\ toServer' \subseteq toServer
    BY <1>3 DEF Lose, sessionVars, clientVars
  <2>2. TypeOK' /\ DataFaithful'
    BY <2>1 DEF PlacesInv, SessionInv, TypeOK, DataFaithful
  <2>3. SessionInv'  BY <2>1, <2>2 DEF PlacesInv, SessionInv, ReadWindowInFile
  <2> QED  BY <2>1, <2>3 DEF PlacesInv, RightPlaces
<1> QED  BY <1>1, <1>2, <1>3 DEF Next

(* What is left of StoredPrefix with any window, and whether the server    *)
(* stores uploads or not, for files whose offsets fit into an int: late,   *)
(* lost, repeated and reordered blocks leave holes in the file, but never  *)
(* a block at another block's place.  In a larger file a block whose       *)
(* fseek() fails is written where the last one ended (SessionStoresInPlace *)
(* says of which blocks that can happen).                                  *)
THEOREM UploadStoresInPlace ==
  ASSUME LastBlock < BlockMod, FileFits
  PROVE  Spec => []RightPlaces
<1>1. CASE SmallUpload
  <2>1. UploadInv => RightPlaces  BY DEF UploadInv, StoredPrefix, RightPlaces
  <2> QED  BY <1>1, <2>1, UploadInvariant, PTL
<1>2. CASE WindowSize # 1 \/ NoFileWriteOnServer
  <2>1. PlacesInv /\ [Next]_vars => PlacesInv'  BY <1>2, NextPlacesInv
  <2>2. PlacesInv => RightPlaces  BY DEF PlacesInv
  <2> QED  BY <2>1, <2>2, InitPlacesInv, PTL DEF Spec
<1> QED  BY <1>1, <1>2 DEF SmallUpload

(* How far an ACK can be wrong with more than one block in the window: a   *)
(* block with its number or a higher one is stored.                        *)
Reached(n)   == n = 0 \/ \E p \in DOMAIN stored : p >= n /\ stored[p] = p
AcksReceived == \A a \in toClient : a.op = "ACK" => Reached(a.block)

ReachedInv ==
  /\ PlacesInv
  /\ SelectedOperation # SERVER_TO_CLIENT
  /\ Reached(FirstBlockInWindow)
  /\ AcksReceived

(* What an iteration of the loop does to window and file. *)
WindowFollowsFile ==
  /\ DOMAIN stored' = DOMAIN stored
  /\ \A p \in DOMAIN stored : stored[p] = p => stored'[p] = p
  /\ \/ FirstBlockInWindow' = FirstBlockInWindow
     \/ \E p \in DOMAIN stored : p >= FirstBlockInWindow' /\ stored'[p] = p

(* Without a new entry in the window, SMSG_ACK_Block leaves it where it is. *)
LEMMA EmptyWindowStays ==
  ASSUME NEW done, NEW error, NEW before, FirstBlockInWindow \in 0 .. BlockMod - 1,
         SMSG_ACK_Block({}, done, error, before)
  PROVE  FirstBlockInWindow' = FirstBlockInWindow
<1>1. (FirstBlockInWindow + BlocksReceived({})) % BlockMod = FirstBlockInWindow
  BY BlocksReceivedValue, BlockModAssumption
<1> QED  BY <1>1 DEF SMSG_ACK_Block

(* The window moves on by one block, when a block beyond it was written.   *)
LEMMA WindowFollows ==
  ASSUME ReachedInv, WindowSize # 1, ~NoFileWriteOnServer, FileFits, LastBlock < BlockMod,
         (\E m \in toServer : ParsePacket(m)) \/ Timeout
  PROVE  WindowFollowsFile /\ SelectedOperation' # SERVER_TO_CLIENT
<1> USE BlockModAssumption
<1>1. /\ SelectedOperation # SERVER_TO_CLIENT
      /\ stored \in [1 .. BlockMod - 1 -> Nat] /\ FirstBlockInWindow \in 0 .. BlockMod - 1
      /\ alive => BlockNrInWindowReceived = {}
  BY DEF ReachedInv, PlacesInv, SessionInv, TypeOK, Operations
<1>2. CASE UNCHANGED <<SelectedOperation, FirstBlockInWindow, stored>>
  BY <1>1, <1>2 DEF WindowFollowsFile
<1>3. CASE Timeout
  <2>1. CASE Break(Error)  BY <1>2, <2>1 DEF Break
  <2>2. CASE /\ SMSG_ACK_Block(BlockNrInWindowReceived, TransferDone, Error, {})
             /\ UNCHANGED <<SelectedOperation, ReadDone, BytesHandled, filePos, stored>>
    <3>1. BlockNrInWindowReceived = {}  BY <1>1, <1>3 DEF Timeout
    <3> QED  BY <1>1, <1>2, <2>2, <3>1, EmptyWindowStays
  <2> QED  BY <1>1, <1>3, <2>1, <2>2 DEF Timeout
<1>4. ASSUME NEW m \in toServer, ParsePacket(m)
      PROVE  WindowFollowsFile /\ SelectedOperation' # SERVER_TO_CLIENT
  <2>1. m \in ClientPackets  BY DEF ReachedInv, PlacesInv
  <2>2. m.op \in {"WRQ", "DATA"}  BY <2>1 DEF ClientPackets, Request, Data
  <2>3. CASE m.op = "WRQ" /\ CMSG_WRQ
    <3>1. CASE UNCHANGED sessionVars \/ RefuseRequest
      BY <1>2, <3>1 DEF RefuseRequest, Refuse, Break, sessionVars
    <3>2. CASE /\ SelectedOperation' = CLIENT_TO_SERVER
               /\ \E r \in OptionReplies : SMSG_ACK_Block({}, FALSE, r.error, r.oack)
               /\ UNCHANGED <<WindowRetryCount, ReadDone, BytesHandled, filePos, stored>>
      <4>1. FirstBlockInWindow' = FirstBlockInWindow  BY <1>1, <3>2, EmptyWindowStays
      <4> QED  BY <3>2, <4>1 DEF WindowFollowsFile
    <3> QED  BY <2>3, <3>1, <3>2 DEF CMSG_WRQ
  <2>4. CASE m.op = "DATA" /\ CMSG__DATA(m)
    <3> DEFINE received == BlockNrInWindowReceived
                             \cup (IF m.bytes > 0 THEN {WindowIndex(m.block)} ELSE {})
    <3>1. CASE UNCHANGED <<SelectedOperation, FirstBlockInWindow, stored>>
      BY <1>2, <3>1
    <3>2. CASE /\ ~Dropped(m.block)
               /\ WriteBlock(m)
               /\ SMSG_ACK_Block(received, TransferDone \/ m.bytes < BlockSize, Error, {})
               /\ UNCHANGED SelectedOperation
      <4>1. /\ m.block \in 1 .. LastBlock /\ m.content = m.block
            /\ m.bytes \in 0 .. BlockSize
        <5>1. PICK k \in 1 .. LastBlock : m = Data(k, k, BlockBytes(k))
          BY <2>1, <2>4 DEF ClientPackets, Request
        <5>2. BlockBytes(k) \in 0 .. BlockSize
          BY FileAssumption, BlockSizeAssumption DEF BlockBytes
        <5> QED  BY <5>1, <5>2 DEF Data
      <4>2. m.block \in DOMAIN stored /\ m.block > FirstBlockInWindow
        BY <1>1, <3>2, <4>1, FileAssumption DEF Dropped, LastBlock
      <4>3. CASE m.bytes = 0
        <5>1. received = {} /\ stored' = stored
          BY <1>1, <1>4, <3>2, <4>3 DEF WriteBlock, ParsePacket
        <5> HIDE DEF received
        <5>2. FirstBlockInWindow' = FirstBlockInWindow
          BY <1>1, <3>2, <5>1, EmptyWindowStays
        <5> QED  BY <1>2, <3>2, <5>1, <5>2
      <4>4. CASE m.bytes # 0
        <5>1. stored' = [stored EXCEPT ![m.block] = m.block]
          <6>1. Position(m.block) = m.block  BY <4>1, BlockFits DEF Position, FileFits
          <6> QED  BY <3>2, <4>1, <4>4, <6>1 DEF WriteBlock
        <5>2. /\ DOMAIN stored' = DOMAIN stored /\ stored'[m.block] = m.block
              /\ \A p \in DOMAIN stored : stored[p] = p => stored'[p] = p
          BY <1>1, <4>2, <5>1
        <5>3. BlocksReceived(received) \in 0 .. 1
          <6>1. received = {WindowIndex(m.block)}
            BY <1>1, <1>4, <4>1, <4>4, BlockSizeAssumption DEF ParsePacket
          <6>2. WindowIndex(m.block) \in 0 .. WindowSize - 1
            BY <4>1, FileAssumption, WindowSizeAssumption DEF WindowIndex, LastBlock
          <6> HIDE DEF received
          <6> QED  BY <6>1, <6>2, BlocksReceivedValue
        <5> HIDE DEF received
        <5>4. FirstBlockInWindow' <= m.block
          <6>1. \/ FirstBlockInWindow' = FirstBlockInWindow
                \/ FirstBlockInWindow' = (FirstBlockInWindow + BlocksReceived(received)) % BlockMod
            BY <3>2 DEF SMSG_ACK_Block
          <6>2. FirstBlockInWindow + BlocksReceived(received) \in 0 .. m.block
            BY <1>1, <4>1, <4>2, <5>3
          <6>3. m.block < BlockMod  BY <4>1, FileAssumption DEF LastBlock
          <6>4. (FirstBlockInWindow + BlocksReceived(received)) % BlockMod
                  = FirstBlockInWindow + BlocksReceived(received)
            BY <4>1, <6>2, <6>3
          <6> QED  BY <1>1, <4>1, <4>2, <6>1, <6>2, <6>4
        <5> QED  BY <1>1, <3>2, <4>2, <5>2, <5>4 DEF WindowFollowsFile
      <4> QED  BY <4>3, <4>4
    <3> QED  BY <2>4, <3>1, <3>2 DEF CMSG__DATA, Refuse
  <2> QED  BY <1>4, <2>2, <2>3, <2>4 DEF ParsePacket
<1> QED  BY <1>3, <1>4

LEMMA NextReachedInv ==
  ASSUME ReachedInv, WindowSize # 1, ~NoFileWriteOnServer, FileFits, LastBlock < BlockMod,
         [Next]_vars
  PROVE  ReachedInv'
<1>1. PlacesInv'  BY NextPlacesInv DEF ReachedInv
<1>2. CASE (ServerReceive \/ ServerTimeout) /\ UNCHANGED clientVars
  <2>1. (\E m \in toServer : ParsePacket(m)) \/ Timeout
    BY <1>2 DEF ServerReceive, ServerTimeout
  <2>2. SessionNext
    BY <2>1, ClientPacketsArePeerPackets DEF ReachedInv, PlacesInv, SessionNext
  <2>3. AcksFollowWindow  BY <2>2, SessionNext_Step DEF ReachedInv, PlacesInv
  <2>4. WindowFollowsFile /\ SelectedOperation' # SERVER_TO_CLIENT  BY <2>1, WindowFollows
  <2>5. ASSUME NEW n, Reached(n)
        PROVE  n = 0 \/ \E p \in DOMAIN stored' : p >= n /\ stored'[p] = p
    BY <2>4, <2>5 DEF Reached, WindowFollowsFile
  <2>6. Reached(FirstBlockInWindow)'
    BY <2>4, <2>5 DEF ReachedInv, Reached, WindowFollowsFile
  <2>7. AcksReceived'
    BY <2>3, <2>5, <2>6 DEF ReachedInv, AcksReceived, Reached, AcksFollowWindow
  <2> QED  BY <1>1, <2>4, <2>6, <2>7 DEF ReachedInv
<1>3. CASE \/ Lose /\ UNCHANGED clientVars
           \/ ClientStart \/ ClientSend \/ ClientReceiveAck
           \/ UNCHANGED vars
  <2>1. /\ SelectedOperation' = SelectedOperation /\ stored' = stored
        /\ FirstBlockInWindow' = FirstBlockInWindow /\ toClient' \subseteq toClient
    BY <1>3 DEF Lose, ClientStart, ClientSend, ClientReceiveAck, ClientSends, vars,
                netVars, sessionVars
  <2> QED  BY <1>1, <2>1 DEF ReachedInv, AcksReceived, Reached
<1> QED  BY <1>2, <1>3 DEF Next

(* With any window, and a file whose offsets fit into an int, an upload's  *)
(* ACK never has a number above all blocks that are stored at their places:*)
(* AckedBlocksStored fails for windows (run upload_window), but no client  *)
(* is told of more than what got there.                                    *)
THEOREM UploadAcksReceived ==
  ASSUME LastBlock < BlockMod, ~NoFileWriteOnServer, FileFits
  PROVE  Spec => []AcksReceived
<1>1. CASE SmallUpload
  <2>1. UploadInv => AcksReceived
    <3> SUFFICES ASSUME UploadInv, NEW a \in toClient, a.op = "ACK" PROVE Reached(a.block)
      BY DEF AcksReceived
    <3>1. /\ a.block \in Nat /\ a.block <= FirstBlockInWindow
          /\ FirstBlockInWindow \in Nat /\ filePos \in Nat /\ FirstBlockInWindow <= filePos
          /\ a.block < BlockMod
      <4>1. a \in Packets /\ a.block <= FirstBlockInWindow
        BY DEF UploadInv, OneBlockInv, SessionInv, TypeOK
      <4>2. a.block \in 0 .. BlockMod - 1  BY <4>1 DEF Packets, Block, Oack
      <4> QED  BY <1>1, <4>1, <4>2, Numbers, BlockModAssumption DEF SmallUpload
    <3>2. stored \in [1 .. BlockMod - 1 -> Nat]
      BY DEF UploadInv, OneBlockInv, SessionInv, TypeOK
    <3>3. CASE a.block # 0
      <4>1. a.block \in 1 .. filePos /\ a.block \in DOMAIN stored
        BY <3>1, <3>2, <3>3, BlockModAssumption
      <4>2. stored[a.block] = a.block  BY <1>1, <4>1, PrefixHolds
      <4> QED  BY <3>1, <4>1, <4>2 DEF Reached
    <3> QED  BY <3>3 DEF Reached
  <2> QED  BY <1>1, <2>1, UploadInvariant, PTL
<1>2. CASE WindowSize # 1
  <2>1. Init => ReachedInv
    BY InitPlacesInv DEF Init, NetworkInit, SessionInit, ReachedInv, Reached, AcksReceived
  <2>2. ReachedInv /\ [Next]_vars => ReachedInv'  BY <1>2, NextReachedInv
  <2>3. ReachedInv => AcksReceived  BY DEF ReachedInv
  <2> QED  BY <2>1, <2>2, <2>3, PTL DEF Spec
<1> QED  BY <1>1, <1>2 DEF SmallUpload

=============================================================================
