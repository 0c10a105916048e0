-------------------------- MODULE TFTPSession_proofs --------------------------
(***************************************************************************)
(* Proofs about TFTPSession: the invariants of one session against a peer  *)
(* that may send anything, for every file, window, block size and limit.   *)
(***************************************************************************)
EXTENDS TFTPSession, TLAPS

USE DEF NOT_INITIALIZED, CLIENT_TO_SERVER, SERVER_TO_CLIENT, ERR_UNDEFINED,
        ERR_FILE_NOT_FOUND, ERR_DISK_FULL, ERR_ILLEGAL_OPERATION, NO_ERROR, SMSG_Error,
        TFTP_HEADER_SIZE

(* What a packet handed to ParsePacket looks like. *)
PeerPacketType ==
  [op : {"RRQ", "WRQ", "SHORT", "OTHER"}]
    \cup [op : {"ACK"}, block : Block]
    \cup [op : {"DATA"}, block : Block, content : Nat, bytes : 0 .. BlockSize]
    \cup [op : {"ERROR"}, code : ErrorCodes]

(* The codes the server itself sets are error codes. *)
LEMMA ServerErrors ==
  {NO_ERROR, ERR_UNDEFINED, ERR_FILE_NOT_FOUND, ERR_DISK_FULL, ERR_ILLEGAL_OPERATION}
    \subseteq ErrorCodes
BY SMT DEF ErrorCodes

-----------------------------------------------------------------------------
(* Byte counts *)

(* A burst of SMSG_DATA is a natural number of bytes. *)
LEMMA BurstBytesNat ==
  ASSUME NEW start \in Nat, NEW last \in start .. BurstEnd(start)
  PROVE  BurstBytes(start, last) \in Nat
<1> USE BlockSizeAssumption, WindowSizeAssumption, FileAssumption
<1>1. CASE last <= FullBlocks
  <2>1. last - start \in Nat  OBVIOUS
  <2>2. (last - start) * BlockSize \in Nat  BY <2>1
  <2> QED  BY <1>1, <2>2 DEF BurstBytes
<1>2. CASE ~(last <= FullBlocks) /\ start < LastBlock
  <2>1. FullBlocks - start \in Nat  BY <1>2 DEF LastBlock
  <2>2. (FullBlocks - start) * BlockSize \in Nat  BY <2>1
  <2>3. TailBytes \in Nat OBVIOUS
  <2> QED  BY <1>2, <2>2, <2>3 DEF BurstBytes
<1>3. CASE ~(last <= FullBlocks) /\ start >= LastBlock
  BY <1>3 DEF BurstBytes, LastBlock
<1> QED  BY <1>1, <1>2, <1>3 DEF LastBlock

(* The counter saturates just above the limit. *)
LEMMA CountType ==
  ASSUME BytesHandled \in 0 .. ByteLimit + 1, NEW b \in Nat
  PROVE  /\ Count(b) \in 0 .. ByteLimit + 1
         /\ Saturate(BytesHandled + b) \in 0 .. ByteLimit + 1
BY ConfigAssumption DEF Count, Saturate

-----------------------------------------------------------------------------
(* EndOfIteration keeps the types, and a session that goes on has met no   *)
(* error.                                                                  *)
LEMMA EndOfIterationType ==
  ASSUME NEW error \in ErrorCodes, NEW done \in BOOLEAN, NEW out \in SUBSET Packets,
         toClient \subseteq Packets,
         EndOfIteration(error, done, out)
  PROVE  /\ Error' \in ErrorCodes
         /\ TransferDone' \in BOOLEAN
         /\ alive' \in BOOLEAN
         /\ toClient' \subseteq Packets
         /\ alive' => Error' = NO_ERROR /\ ~TransferDone'
         /\ \A p \in toClient' : p \in toClient \/ p \in out \/ p.op = "ERROR"
<1>1. Error' \in ErrorCodes
  <2>1. Error' \in {error, ERR_UNDEFINED}  BY DEF EndOfIteration
  <2> QED  BY <2>1, ServerErrors
<1>2. ErrorPacket(Error') \in Packets /\ ErrorPacket(Error').op = "ERROR"
  BY <1>1 DEF ErrorPacket, Packets
<1>3. toClient' \subseteq Packets  BY <1>2 DEF EndOfIteration
<1>4. \A p \in toClient' : p \in toClient \/ p \in out \/ p.op = "ERROR"
  BY <1>2 DEF EndOfIteration
<1>5. TransferDone' = done /\ alive' = (error = NO_ERROR /\ ~done)  BY DEF EndOfIteration
<1>6. alive' \in BOOLEAN  BY <1>5
<1>7. ASSUME alive' PROVE Error' = NO_ERROR /\ ~TransferDone'
  <2>1. error = NO_ERROR /\ ~done  BY <1>5, <1>7
  <2> QED  BY <1>5, <2>1 DEF EndOfIteration
<1> QED  BY <1>1, <1>3, <1>4, <1>5, <1>6, <1>7

-----------------------------------------------------------------------------
(* SMSG_DATA keeps the invariant when it starts at a block of the file, and *)
(* adds no ACK.                                                             *)
LEMMA SMSG_DATA_Step ==
  ASSUME SessionInv, alive,
         NEW first \in 1 .. LastBlock,
         first <= BlockMod,
         NEW error \in {NO_ERROR, ERR_ILLEGAL_OPERATION},
         NEW retries \in Nat,
         NEW before \in SUBSET {Oack},
         SMSG_DATA(first, error, retries, before),
         SelectedOperation' = SERVER_TO_CLIENT,
         ReadDone => LastBlock <= first + WindowSize - 1
  PROVE  /\ SessionInv'
         /\ FirstBlockInWindow' = first /\ ~TransferDone'
         /\ \A p \in toClient' : p \in toClient \/ p.op # "ACK"
<1> DEFINE start  == SeekTo(first)
           sent(l) == before \cup {Data((first + b - start - 1) % BlockMod, b, BlockBytes(b))
                                     : b \in start + 1 .. l}
<1> USE BlockModAssumption, BlockSizeAssumption, WindowSizeAssumption, FileAssumption
<1>1. start \in Nat /\ start = first - 1 /\ start < LastBlock  BY DEF SeekTo, LastBlock
<1>2. BurstEnd(start) \in Nat /\ BurstEnd(start) <= LastBlock
  BY <1>1 DEF BurstEnd, LastBlock
<1> HIDE DEF start
<1> DEFINE over(b)     == OverLimit(BytesHandled + BurstBytes(start, b))
           killed(l)   == l > start /\ over(l)
           complete(l) == l = BurstEnd(start) /\ ~killed(l)
           read(l)     == IF killed(l) \/ complete(l) THEN l ELSE l + 1
           outcome(l)  == IF killed(l) THEN ERR_DISK_FULL
                          ELSE IF complete(l) THEN error ELSE ERR_UNDEFINED
<1>3. PICK last \in start .. BurstEnd(start) :
        /\ FirstBlockInWindow' = first
        /\ ReadDone' = (ReadDone \/ ReachedEnd(read(last)))
        /\ BytesHandled' = Count(BurstBytes(start, last))
        /\ WindowRetryCount' = IF complete(last) THEN 0 ELSE retries
        /\ filePos' = read(last)
        /\ EndOfIteration(outcome(last), FALSE, sent(last))
        /\ BlockNrInWindowReceived' = BlockNrInWindowReceived
        /\ stored' = stored
  BY DEF SMSG_DATA, start
<1>4. last \in Nat /\ last <= LastBlock  BY <1>1, <1>2, FileAssumption DEF LastBlock
<1>5. /\ outcome(last) \in ErrorCodes
      /\ outcome(last) = NO_ERROR => complete(last)
      /\ complete(last) => last = BurstEnd(start) /\ read(last) = last
  BY ServerErrors
<1>6. \A p \in sent(last) :
         /\ p \in Packets /\ p.op # "ACK"
         /\ p.op = "DATA" => /\ p.content \in 1 .. LastBlock
                             /\ p.block = p.content % BlockMod
                             /\ p.bytes = BlockBytes(p.content)
  <2>1. ASSUME NEW b \in start + 1 .. last
        PROVE  LET p == Data((first + b - start - 1) % BlockMod, b, BlockBytes(b)) IN
               /\ p \in Packets
               /\ p.op = "DATA"
               /\ p.content = b
               /\ p.block = b % BlockMod
               /\ p.bytes = BlockBytes(b)
               /\ b \in 1 .. LastBlock
    <3>1. b \in Nat /\ b \in 1 .. LastBlock  BY <1>1, <1>4 DEF LastBlock
    <3>2. first + b - start - 1 = b  BY <1>1, <3>1
    <3>3. b % BlockMod \in Block  BY <3>1 DEF Block
    <3>4. BlockBytes(b) \in 0 .. BlockSize  BY DEF BlockBytes
    <3> QED  BY <3>1, <3>2, <3>3, <3>4 DEF Data, Packets
  <2>2. \A p \in before : p \in Packets /\ p.op = "OACK"
    BY DEF Packets, Oack
  <2> QED  BY <2>1, <2>2
<1>7. sent(last) \in SUBSET Packets  BY <1>6
<1>8. toClient \subseteq Packets  BY DEF SessionInv, TypeOK
<1> HIDE DEF sent, outcome, complete, killed
<1>9. /\ Error' \in ErrorCodes
      /\ TransferDone' \in BOOLEAN
      /\ alive' \in BOOLEAN
      /\ toClient' \subseteq Packets
      /\ alive' => Error' = NO_ERROR /\ ~TransferDone'
      /\ \A p \in toClient' : p \in toClient \/ p \in sent(last) \/ p.op = "ERROR"
  BY <1>3, <1>5, <1>7, <1>8, EndOfIterationType
<1>10. alive' => outcome(last) = NO_ERROR  BY <1>3 DEF EndOfIteration
<1>11. BurstBytes(start, last) \in Nat  BY <1>1, BurstBytesNat
<1>12. BytesHandled' \in 0 .. ByteLimit + 1
  BY <1>3, <1>11, CountType DEF SessionInv, TypeOK
<1>13. filePos' \in Nat  BY <1>3, <1>4 DEF read
<1>14. DataFaithful'  BY <1>6, <1>9 DEF SessionInv, DataFaithful
<1>15. FirstBlockInWindow' \in 1 .. LastBlock  BY <1>3
<1>16. ASSUME alive'
       PROVE  ReadDone' <=> LastBlock <= FirstBlockInWindow' + WindowSize - 1
  <2>1. last = BurstEnd(start) /\ read(last) = last  BY <1>5, <1>10, <1>16
  <2>2. ReadDone' <=> ReadDone \/ ReachedEnd(last)  BY Zenon, <1>3, <2>1
  <2>3. ReachedEnd(last) <=> LastBlock <= first + WindowSize - 1
    BY <1>1, <2>1 DEF ReachedEnd, BurstEnd, LastBlock
  <2>4. FirstBlockInWindow' = first  BY <1>3
  <2> QED  BY <2>2, <2>3, <2>4
<1>17. TypeOK'
  <2>1. ReadDone' \in BOOLEAN  BY <1>3
  <2>2. FirstBlockInWindow' \in 0 .. BlockMod  BY <1>3
  <2>3. WindowRetryCount' \in Nat  BY <1>3
  <2>4. SelectedOperation' \in Operations /\ SelectedOperation' # CLIENT_TO_SERVER
    BY DEF Operations
  <2>5. stored' \in [1 .. BlockMod - 1 -> Nat]  BY <1>3 DEF SessionInv, TypeOK
  <2>6. BlockNrInWindowReceived' \subseteq 0 .. WindowSize - 1
    BY <1>3 DEF SessionInv, TypeOK
  <2> QED  BY <1>9, <1>12, <1>13, <2>1, <2>2, <2>3, <2>4, <2>5, <2>6 DEF TypeOK
<1>18. BlockNrInWindowReceived' = {}  BY <1>3 DEF SessionInv
<1>19. \A p \in toClient' : p \in toClient \/ p.op # "ACK"  BY <1>6, <1>9
<1>20. ~TransferDone'  BY <1>3 DEF EndOfIteration
<1> QED
  BY <1>3, <1>9, <1>14, <1>15, <1>16, <1>17, <1>18, <1>19, <1>20
  DEF SessionInv, ReadWindowInFile

-----------------------------------------------------------------------------
(* What a step does about ACKs: it acknowledges no more than the window it  *)
(* leaves, in uploads only, and with one block in the window no more than   *)
(* it leaves written.                                                       *)
AcksFollowWindow ==
  /\ SelectedOperation = CLIENT_TO_SERVER => SelectedOperation' = CLIENT_TO_SERVER
  /\ \A p \in toClient' :
       p.op = "ACK" => \/ p \in toClient
                       \/ /\ SelectedOperation' = CLIENT_TO_SERVER
                          /\ p.block = FirstBlockInWindow'
  /\ SelectedOperation' = CLIENT_TO_SERVER /\ WindowSize = 1 /\ ~NoFileWriteOnServer
       => FirstBlockInWindow' <= filePos'

(* A step that sends no ACK and changes neither window nor file.            *)
LEMMA NoAck_Step ==
  ASSUME SessionInv, alive,
         FirstBlockInWindow' = FirstBlockInWindow, filePos' = filePos,
         SelectedOperation' = SelectedOperation,
         \A p \in toClient' : p \in toClient \/ p.op # "ACK"
  PROVE  AcksFollowWindow
BY DEF AcksFollowWindow, SessionInv, TypeOK

(* A download's step sends no ACK.                                          *)
LEMMA NoUpload_Step ==
  ASSUME SelectedOperation # CLIENT_TO_SERVER, SelectedOperation' # CLIENT_TO_SERVER,
         \A p \in toClient' : p \in toClient \/ p.op # "ACK"
  PROVE  AcksFollowWindow
BY DEF AcksFollowWindow

(* SMSG_ACK_Block finds no block received in an empty window, and one in a  *)
(* window that holds its first block only.                                  *)
LEMMA BlocksReceivedValue ==
  /\ BlocksReceived({}) = 0
  /\ \A i \in 0 .. WindowSize - 1 : BlocksReceived({i}) = IF i = 0 THEN 1 ELSE 0
<1> USE WindowSizeAssumption
<1>1. BlocksReceived({}) = 0
  <2> DEFINE P(n) == (\A i \in 0 .. n - 1 : i \in {}) /\ n \notin {}
  <2>1. 0 \in 0 .. WindowSize /\ P(0)  OBVIOUS
  <2>2. \A n \in 0 .. WindowSize : P(n) => n = 0  OBVIOUS
  <2>3. BlocksReceived({}) = CHOOSE n \in 0 .. WindowSize : P(n)  BY DEF BlocksReceived
  <2> HIDE DEF P
  <2> QED  BY <2>1, <2>2, <2>3
<1>2. ASSUME NEW j \in 0 .. WindowSize - 1
      PROVE  BlocksReceived({j}) = IF j = 0 THEN 1 ELSE 0
  <2> DEFINE P(n) == (\A i \in 0 .. n - 1 : i \in {j}) /\ n \notin {j}
             v    == IF j = 0 THEN 1 ELSE 0
  <2>1. v \in 0 .. WindowSize /\ P(v)  OBVIOUS
  <2>2. ASSUME NEW n \in 0 .. WindowSize, P(n) PROVE n = v
    <3>1. CASE n = 0  BY <2>2, <3>1
    <3>2. CASE n > 0
      <4>1. 0 \in {j}  BY <2>2, <3>2
      <4>2. n > 1 => 1 \in {j}  BY <2>2
      <4> QED  BY <3>2, <4>1, <4>2
    <3> QED  BY <3>1, <3>2
  <2>3. BlocksReceived({j}) = CHOOSE n \in 0 .. WindowSize : P(n)  BY DEF BlocksReceived
  <2> HIDE DEF P, v
  <2>4. BlocksReceived({j}) = v  BY <2>1, <2>2, <2>3
  <2> QED  BY <2>4 DEF v
<1> QED  BY <1>1, <1>2

(* SMSG_ACK_Block keeps the invariant, and the only ACK it adds is that of  *)
(* the new window.                                                          *)
LEMMA SMSG_ACK_Block_Step ==
  ASSUME SessionInv, alive,
         NEW received \in SUBSET (0 .. WindowSize - 1),
         BlocksReceived(received) \in Nat,
         NEW done \in BOOLEAN,
         NEW error \in {NO_ERROR, ERR_ILLEGAL_OPERATION},
         NEW before \in SUBSET {Oack},
         SMSG_ACK_Block(received, done, error, before),
         FirstBlockInWindow < BlockMod,
         SelectedOperation' = CLIENT_TO_SERVER,
         WindowRetryCount' \in Nat,
         ReadDone' \in BOOLEAN,
         BytesHandled' \in 0 .. ByteLimit + 1,
         filePos' \in 0 .. BlockMod - 1,
         WindowSize = 1 /\ ~NoFileWriteOnServer
           => /\ filePos' = (FirstBlockInWindow + BlocksReceived(received)) % BlockMod
              /\ filePos' >= FirstBlockInWindow,
         stored' \in [1 .. BlockMod - 1 -> Nat]
  PROVE  /\ SessionInv' /\ AcksFollowWindow
         /\ \/ FirstBlockInWindow' = (FirstBlockInWindow + BlocksReceived(received)) % BlockMod
            \/ FirstBlockInWindow' = FirstBlockInWindow /\ ~alive'
<1> USE BlockModAssumption, WindowSizeAssumption
<1> DEFINE n == (FirstBlockInWindow + BlocksReceived(received)) % BlockMod
<1>1. n \in Block
  <2> DEFINE k == BlocksReceived(received)
  <2>1. FirstBlockInWindow \in 0 .. BlockMod  BY DEF SessionInv, TypeOK
  <2>2. k \in Nat  OBVIOUS
  <2> HIDE DEF k
  <2>3. (FirstBlockInWindow + k) % BlockMod \in 0 .. BlockMod - 1  BY <2>1, <2>2
  <2> QED  BY <2>3 DEF Block, k
<1>2. /\ Ack(n) \in Packets /\ Ack(n).op = "ACK"
      /\ Oack \in Packets /\ Oack.op = "OACK"
  BY <1>1 DEF Ack, Oack, Packets
<1>3. toClient \subseteq Packets  BY DEF SessionInv, TypeOK
<1>4. PICK e \in ErrorCodes, out \in SUBSET Packets :
        /\ EndOfIteration(e, done, out)
        /\ out \subseteq before \cup {Ack(FirstBlockInWindow')}
        /\ \/ FirstBlockInWindow' = n /\ BlockNrInWindowReceived' = {}
           \/ /\ FirstBlockInWindow' = FirstBlockInWindow
              /\ BlockNrInWindowReceived' = received
              /\ e = ERR_UNDEFINED
  <2>1. CASE /\ FirstBlockInWindow' = n
             /\ BlockNrInWindowReceived' = {}
             /\ EndOfIteration(error, done, before \cup {Ack(n)})
    <3>1. error \in ErrorCodes  BY ServerErrors
    <3>2. before \cup {Ack(n)} \in SUBSET Packets  BY <1>2
    <3> QED  BY <2>1, <3>1, <3>2
  <2>2. CASE /\ FirstBlockInWindow' = FirstBlockInWindow
             /\ BlockNrInWindowReceived' = received
             /\ EndOfIteration(ERR_UNDEFINED, done, before)
    <3>1. ERR_UNDEFINED \in ErrorCodes  BY ServerErrors
    <3>2. before \in SUBSET Packets  BY <1>2
    <3> QED  BY <2>2, <3>1, <3>2
  <2> QED  BY <2>1, <2>2 DEF SMSG_ACK_Block
<1> HIDE DEF n
<1>5. /\ Error' \in ErrorCodes
      /\ TransferDone' \in BOOLEAN
      /\ alive' \in BOOLEAN
      /\ toClient' \subseteq Packets
      /\ alive' => Error' = NO_ERROR /\ ~TransferDone'
      /\ \A p \in toClient' : p \in toClient \/ p \in out \/ p.op = "ERROR"
  BY <1>3, <1>4, EndOfIterationType
<1>6. alive' => e = NO_ERROR  BY <1>4 DEF EndOfIteration
<1>7. alive' => FirstBlockInWindow' = n /\ BlockNrInWindowReceived' = {}  BY <1>4, <1>6
<1>8. \A p \in toClient' :
         p \in toClient \/ p = Ack(FirstBlockInWindow') \/ p.op \in {"OACK", "ERROR"}
  BY <1>2, <1>4, <1>5
<1>9. Ack(FirstBlockInWindow').op = "ACK"  BY DEF Ack
<1>10. DataFaithful'  BY <1>8, <1>9 DEF SessionInv, DataFaithful
<1>11. TypeOK'
  <2>0. FirstBlockInWindow \in 0 .. BlockMod  BY DEF SessionInv, TypeOK
  <2>1. FirstBlockInWindow' \in 0 .. BlockMod  BY <1>1, <1>4, <2>0 DEF Block
  <2>2. BlockNrInWindowReceived' \subseteq 0 .. WindowSize - 1  BY <1>4
  <2> QED  BY <1>5, <2>1, <2>2 DEF TypeOK, Operations
<1>12. SessionInv'
  <2>1. FirstBlockInWindow' < BlockMod  BY <1>1, <1>4 DEF Block
  <2>2. alive' /\ WindowSize = 1 /\ ~NoFileWriteOnServer => filePos' = FirstBlockInWindow'
    BY <1>7 DEF n
  <2> QED  BY <1>5, <1>7, <1>10, <1>11, <2>1, <2>2 DEF SessionInv, ReadWindowInFile
<1>13. FirstBlockInWindow' = n \/ (FirstBlockInWindow' = FirstBlockInWindow /\ ~alive')
  BY <1>4, <1>6
<1>14. AcksFollowWindow
  <2>1. \A p \in toClient' : p.op = "ACK" => p \in toClient \/ p.block = FirstBlockInWindow'
    BY <1>8 DEF Ack
  <2>2. WindowSize = 1 /\ ~NoFileWriteOnServer => FirstBlockInWindow' <= filePos'
    BY <1>1, <1>4 DEF n, Block, SessionInv, TypeOK
  <2> QED  BY <2>1, <2>2 DEF AcksFollowWindow
<1> QED  BY <1>12, <1>13, <1>14 DEF n

-----------------------------------------------------------------------------
(* The handlers.  Each keeps SessionInv and does not move the window back. *)

(* A refused packet, or an ERROR packet, changes nothing but the error. *)
LEMMA Refuse_Step ==
  ASSUME SessionInv, alive, NEW error \in ErrorCodes, Refuse(error)
  PROVE  /\ SessionInv' /\ FirstBlockInWindow' >= FirstBlockInWindow /\ AcksFollowWindow
         /\ FirstBlockInWindow' = FirstBlockInWindow /\ filePos' = filePos
         /\ SelectedOperation' = SelectedOperation /\ TransferDone' = TransferDone
         /\ \A p \in toClient' : p \in toClient \/ p.op \notin {"ACK", "DATA"}
<1>1. /\ EndOfIteration(error, TransferDone, {})
      /\ UNCHANGED <<SelectedOperation, FirstBlockInWindow, BlockNrInWindowReceived,
                     WindowRetryCount, ReadDone, BytesHandled, filePos, stored>>
  BY DEF Refuse
<1>2. toClient \subseteq Packets /\ TransferDone \in BOOLEAN  BY DEF SessionInv, TypeOK
<1>3. /\ Error' \in ErrorCodes
      /\ TransferDone' \in BOOLEAN
      /\ alive' \in BOOLEAN
      /\ toClient' \subseteq Packets
      /\ alive' => Error' = NO_ERROR /\ ~TransferDone'
      /\ \A p \in toClient' : p \in toClient \/ p \in {} \/ p.op = "ERROR"
  BY <1>1, <1>2, EndOfIterationType
<1>4. TypeOK'  BY <1>1, <1>3 DEF SessionInv, TypeOK
<1>5. DataFaithful'  BY <1>3 DEF SessionInv, DataFaithful
<1>6. SessionInv'  BY <1>1, <1>3, <1>4, <1>5 DEF SessionInv, ReadWindowInFile
<1>7. FirstBlockInWindow \in Int  BY DEF SessionInv, TypeOK
<1>8. TransferDone' = TransferDone  BY <1>1 DEF EndOfIteration
<1>9. AcksFollowWindow  BY <1>1, <1>3, NoAck_Step
<1> QED  BY <1>1, <1>3, <1>6, <1>7, <1>8, <1>9

(* A session that is given up says nothing. *)
LEMMA Break_Step ==
  ASSUME SessionInv, alive, NEW error \in ErrorCodes, Break(error), WindowRetryCount' \in Nat
  PROVE  /\ SessionInv' /\ FirstBlockInWindow' >= FirstBlockInWindow /\ AcksFollowWindow
         /\ FirstBlockInWindow' = FirstBlockInWindow /\ filePos' = filePos
         /\ SelectedOperation' = SelectedOperation /\ TransferDone' = TransferDone
         /\ toClient' = toClient /\ ~alive'
<1>1. FirstBlockInWindow \in Int  BY DEF SessionInv, TypeOK
<1>2. TypeOK'  BY DEF Break, SessionInv, TypeOK
<1>3. SessionInv'  BY <1>2 DEF Break, SessionInv, ReadWindowInFile, DataFaithful
<1>4. AcksFollowWindow  BY NoAck_Step DEF Break
<1> QED  BY <1>1, <1>3, <1>4 DEF Break

(* A refused request starts no transfer. *)
LEMMA RefuseRequest_Step ==
  ASSUME SessionInv, alive, RefuseRequest
  PROVE  /\ SessionInv' /\ FirstBlockInWindow' >= FirstBlockInWindow /\ AcksFollowWindow
         /\ FirstBlockInWindow' = FirstBlockInWindow
         /\ SelectedOperation' = SelectedOperation /\ TransferDone' = TransferDone
         /\ \A p \in toClient' : p \in toClient \/ p.op \notin {"ACK", "DATA"}
<1>1. ERR_ILLEGAL_OPERATION \in ErrorCodes /\ ERR_FILE_NOT_FOUND \in ErrorCodes
  BY ServerErrors
<1>2. CASE Break(ERR_ILLEGAL_OPERATION) /\ UNCHANGED WindowRetryCount
  <2>1. WindowRetryCount' \in Nat  BY <1>2 DEF SessionInv, TypeOK
  <2> QED  BY <1>1, <1>2, <2>1, Break_Step
<1>3. CASE Refuse(ERR_FILE_NOT_FOUND)  BY <1>1, <1>3, Refuse_Step
<1> QED  BY <1>2, <1>3 DEF RefuseRequest

(* The state a handler left alone. *)
LEMMA Unchanged_Step ==
  ASSUME SessionInv, UNCHANGED sessionVars
  PROVE  /\ SessionInv' /\ FirstBlockInWindow' >= FirstBlockInWindow
         /\ alive => AcksFollowWindow
<1>1. TypeOK'  BY DEF SessionInv, TypeOK, sessionVars
<1>2. DataFaithful'  BY DEF SessionInv, DataFaithful, sessionVars
<1>3. SessionInv'  BY <1>1, <1>2 DEF SessionInv, ReadWindowInFile, sessionVars
<1>4. alive => AcksFollowWindow  BY NoAck_Step DEF sessionVars
<1> QED  BY <1>3, <1>4 DEF SessionInv, TypeOK, sessionVars

(* A download starts at block 1. *)
LEMMA CMSG_RRQ_Step ==
  ASSUME SessionInv, alive, CMSG_RRQ
  PROVE  SessionInv' /\ FirstBlockInWindow' >= FirstBlockInWindow /\ AcksFollowWindow
<1>1. CASE SelectedOperation # NOT_INITIALIZED /\ UNCHANGED sessionVars
  BY <1>1, Unchanged_Step
<1>2. CASE SelectedOperation = NOT_INITIALIZED /\ RefuseRequest
  BY <1>2, RefuseRequest_Step
<1>3. CASE /\ SelectedOperation = NOT_INITIALIZED
           /\ SelectedOperation' = SERVER_TO_CLIENT
           /\ \E r \in OptionReplies : SMSG_DATA(1, r.error, WindowRetryCount, r.oack)
  <2>1. PICK r \in OptionReplies : SMSG_DATA(1, r.error, WindowRetryCount, r.oack)
    BY <1>3
  <2>2. r.error \in {NO_ERROR, ERR_ILLEGAL_OPERATION} /\ r.oack \in SUBSET {Oack}
    BY DEF OptionReplies
  <2>3. 1 \in 1 .. LastBlock /\ 1 <= BlockMod
    BY FileAssumption, BlockModAssumption DEF LastBlock
  <2>4. WindowRetryCount \in Nat /\ FirstBlockInWindow = 0 /\ ~ReadDone
    BY <1>3 DEF SessionInv, TypeOK
  <2>5. /\ SessionInv' /\ FirstBlockInWindow' = 1
        /\ \A p \in toClient' : p \in toClient \/ p.op # "ACK"
    BY <1>3, <2>1, <2>2, <2>3, <2>4, SMSG_DATA_Step
  <2>6. AcksFollowWindow  BY <1>3, <2>5, NoUpload_Step
  <2> QED  BY <2>4, <2>5, <2>6
<1> QED  BY <1>1, <1>2, <1>3 DEF CMSG_RRQ

(* An upload starts with ACK 0. *)
LEMMA CMSG_WRQ_Step ==
  ASSUME SessionInv, alive, CMSG_WRQ
  PROVE  SessionInv' /\ FirstBlockInWindow' >= FirstBlockInWindow /\ AcksFollowWindow
<1>1. CASE SelectedOperation # NOT_INITIALIZED /\ UNCHANGED sessionVars
  BY <1>1, Unchanged_Step
<1>2. CASE SelectedOperation = NOT_INITIALIZED /\ RefuseRequest
  BY <1>2, RefuseRequest_Step
<1>3. CASE /\ SelectedOperation = NOT_INITIALIZED
           /\ SelectedOperation' = CLIENT_TO_SERVER
           /\ \E r \in OptionReplies : SMSG_ACK_Block({}, FALSE, r.error, r.oack)
           /\ UNCHANGED <<WindowRetryCount, ReadDone, BytesHandled, filePos, stored>>
  <2>1. PICK e \in {NO_ERROR, ERR_ILLEGAL_OPERATION}, out \in SUBSET {Oack} :
          SMSG_ACK_Block({}, FALSE, e, out)
    <3>1. \A r \in OptionReplies :
             r.error \in {NO_ERROR, ERR_ILLEGAL_OPERATION} /\ r.oack \in SUBSET {Oack}
      BY DEF OptionReplies
    <3> QED  BY <1>3, <3>1
  <2>3. FirstBlockInWindow = 0 /\ filePos = 0
    BY <1>3 DEF SessionInv, TypeOK
  <2>4. /\ WindowRetryCount' \in Nat
        /\ ReadDone' \in BOOLEAN
        /\ BytesHandled' \in 0 .. ByteLimit + 1
        /\ stored' \in [1 .. BlockMod - 1 -> Nat]
    BY <1>3 DEF SessionInv, TypeOK
  <2>5. filePos' \in 0 .. BlockMod - 1 /\ FirstBlockInWindow < BlockMod
    BY <1>3, <2>3, BlockModAssumption
  <2>6. /\ {} \in SUBSET (0 .. WindowSize - 1) /\ FALSE \in BOOLEAN
        /\ BlocksReceived({}) \in Nat
        /\ filePos' = (FirstBlockInWindow + BlocksReceived({})) % BlockMod
        /\ filePos' >= FirstBlockInWindow
    BY <1>3, <2>3, BlocksReceivedValue, BlockModAssumption
  <2>7. SelectedOperation' = CLIENT_TO_SERVER  BY <1>3
  <2>8. SessionInv' /\ AcksFollowWindow
    BY <2>1, <2>4, <2>5, <2>6, <2>7, SMSG_ACK_Block_Step
  <2> QED  BY <2>3, <2>8 DEF SessionInv, TypeOK
<1> QED  BY <1>1, <1>2, <1>3 DEF CMSG_WRQ

(* An ACK inside the window opens the next one, still inside the file. *)
LEMMA CMSG_ACK_Step ==
  ASSUME SessionInv, alive, NEW m \in [op : {"ACK"}, block : Block], CMSG_ACK(m)
  PROVE  SessionInv' /\ FirstBlockInWindow' >= FirstBlockInWindow /\ AcksFollowWindow
<1> USE BlockModAssumption, WindowSizeAssumption, FileAssumption
<1>1. CASE Refuse(ERR_ILLEGAL_OPERATION)
  <2>1. ERR_ILLEGAL_OPERATION \in ErrorCodes  BY ServerErrors
  <2> QED  BY <1>1, <2>1, Refuse_Step
<1>2. CASE UNCHANGED sessionVars  BY <1>2, Unchanged_Step
<1>3. m.block \in 0 .. BlockMod - 1  BY DEF Block
<1>4. FirstBlockInWindow \in Nat /\ Error = NO_ERROR /\ WindowRetryCount \in Nat
  BY DEF SessionInv, TypeOK
<1>5. ASSUME InWindow(m.block)
      PROVE  /\ WindowAfterAck(m.block) \in 1 .. BlockMod
             /\ WindowAfterAck(m.block) > FirstBlockInWindow
             /\ WindowAfterAck(m.block) <= FirstBlockInWindow + WindowSize
  BY <1>3, <1>4, <1>5 DEF InWindow, WindowAfterAck
<1>6. CASE /\ SelectedOperation = SERVER_TO_CLIENT
           /\ InWindow(m.block)
           /\ FirstBlockInWindow' = WindowAfterAck(m.block)
           /\ EndOfIteration(Error, TRUE, {})
           /\ UNCHANGED <<SelectedOperation, BlockNrInWindowReceived, WindowRetryCount,
                          ReadDone, BytesHandled, filePos, stored>>
  <2>1. Error \in ErrorCodes /\ toClient \subseteq Packets  BY DEF SessionInv, TypeOK
  <2> TRUE \in BOOLEAN /\ {} \in SUBSET Packets  OBVIOUS
  <2>2. /\ Error' \in ErrorCodes
        /\ TransferDone' \in BOOLEAN
        /\ alive' \in BOOLEAN
        /\ toClient' \subseteq Packets
        /\ \A p \in toClient' : p \in toClient \/ p \in {} \/ p.op = "ERROR"
    BY <1>6, <2>1, EndOfIterationType
  <2>3. ~alive'  BY <1>6 DEF EndOfIteration
  <2>4. TypeOK'  BY <1>5, <1>6, <2>2 DEF SessionInv, TypeOK
  <2>5. DataFaithful'  BY <2>2 DEF SessionInv, DataFaithful
  <2>6. SessionInv'  BY <1>6, <2>3, <2>4, <2>5 DEF SessionInv, ReadWindowInFile
  <2>7. AcksFollowWindow  BY <1>6, <2>2, NoUpload_Step
  <2> QED  BY <1>4, <1>5, <1>6, <2>6, <2>7
<1>7. CASE /\ SelectedOperation = SERVER_TO_CLIENT
           /\ InWindow(m.block)
           /\ ~ReadDone
           /\ SMSG_DATA(WindowAfterAck(m.block), Error, WindowRetryCount, {})
           /\ UNCHANGED SelectedOperation
  <2>1. FirstBlockInWindow + WindowSize - 1 <= FullBlocks
    BY <1>4, <1>7 DEF SessionInv, LastBlock
  <2>2. WindowAfterAck(m.block) \in 1 .. LastBlock /\ WindowAfterAck(m.block) <= BlockMod
    BY <1>4, <1>5, <1>7, <2>1 DEF LastBlock
  <2>3. SelectedOperation' = SERVER_TO_CLIENT /\ {} \in SUBSET {Oack}  BY <1>7
  <2>4. /\ SessionInv' /\ FirstBlockInWindow' = WindowAfterAck(m.block)
        /\ \A p \in toClient' : p \in toClient \/ p.op # "ACK"
    BY <1>4, <1>7, <2>2, <2>3, SMSG_DATA_Step
  <2>5. AcksFollowWindow  BY <1>7, <2>3, <2>4, NoUpload_Step
  <2> QED  BY <1>4, <1>5, <1>7, <2>4, <2>5
<1> QED  BY <1>1, <1>2, <1>6, <1>7 DEF CMSG_ACK

(* A block beyond those acknowledged is written and acknowledged: with one  *)
(* block in the window the ACK is that of the next block.                   *)
LEMMA CMSG__DATA_Step ==
  ASSUME SessionInv, alive,
         NEW m \in [op : {"DATA"}, block : Block, content : Nat, bytes : 0 .. BlockSize],
         CMSG__DATA(m)
  PROVE  SessionInv' /\ FirstBlockInWindow' >= FirstBlockInWindow /\ AcksFollowWindow
<1> USE BlockModAssumption, WindowSizeAssumption, BlockSizeAssumption
<1> DEFINE bytes    == BytesHandled + TFTP_HEADER_SIZE + m.bytes
           received == BlockNrInWindowReceived
                         \cup (IF m.bytes > 0 THEN {WindowIndex(m.block)} ELSE {})
<1>1. /\ m.block \in 0 .. BlockMod - 1 /\ m.content \in Nat /\ m.bytes \in 0 .. BlockSize
      /\ FirstBlockInWindow \in Nat /\ WindowRetryCount \in Nat
      /\ TransferDone \in BOOLEAN /\ BytesHandled \in 0 .. ByteLimit + 1
      /\ Error = NO_ERROR /\ ~TransferDone /\ BlockNrInWindowReceived = {}
      /\ toClient \subseteq Packets
  BY DEF Block, SessionInv, TypeOK
<1>2. CASE Refuse(ERR_ILLEGAL_OPERATION)
  <2>1. ERR_ILLEGAL_OPERATION \in ErrorCodes  BY ServerErrors
  <2> QED  BY <1>2, <2>1, Refuse_Step
<1>3. CASE /\ BytesHandled' = Saturate(bytes)
           /\ EndOfIteration(ERR_DISK_FULL, TransferDone, {})
           /\ UNCHANGED <<SelectedOperation, FirstBlockInWindow, BlockNrInWindowReceived,
                          WindowRetryCount, ReadDone, filePos, stored>>
  <2>1. ERR_DISK_FULL \in ErrorCodes /\ {} \in SUBSET Packets  BY ServerErrors
  <2>2. /\ Error' \in ErrorCodes
        /\ TransferDone' \in BOOLEAN
        /\ alive' \in BOOLEAN
        /\ toClient' \subseteq Packets
        /\ alive' => Error' = NO_ERROR /\ ~TransferDone'
        /\ \A p \in toClient' : p \in toClient \/ p \in {} \/ p.op = "ERROR"
    BY <1>1, <1>3, <2>1, EndOfIterationType
  <2>3. ~alive'
    <3>1. alive' => ERR_DISK_FULL = NO_ERROR  BY <1>1, <1>3 DEF EndOfIteration
    <3> QED  BY <3>1
  <2>4. TFTP_HEADER_SIZE + m.bytes \in Nat
        /\ bytes = BytesHandled + (TFTP_HEADER_SIZE + m.bytes)
    BY <1>1, ConfigAssumption
  <2>5. BytesHandled' \in 0 .. ByteLimit + 1  BY <1>1, <1>3, <2>4, CountType
  <2>6. TypeOK'  BY <1>3, <2>2, <2>5 DEF SessionInv, TypeOK
  <2>7. DataFaithful'  BY <2>2 DEF SessionInv, DataFaithful
  <2>8. SessionInv'  BY <1>3, <2>3, <2>6, <2>7 DEF SessionInv, ReadWindowInFile
  <2>9. \A p \in toClient' : p \in toClient \/ p.op # "ACK"  BY <2>2
  <2>10. AcksFollowWindow  BY <1>3, <2>9, NoAck_Step
  <2> QED  BY <1>1, <1>3, <2>8, <2>10
<1>4. TFTP_HEADER_SIZE + m.bytes \in Nat  BY <1>1
<1>5. CASE /\ BytesHandled' = Count(TFTP_HEADER_SIZE + m.bytes)
           /\ UNCHANGED <<alive, SelectedOperation, FirstBlockInWindow,
                          BlockNrInWindowReceived, WindowRetryCount, Error, ReadDone,
                          TransferDone, filePos, stored, toClient>>
  <2>1. BytesHandled' \in 0 .. ByteLimit + 1  BY <1>1, <1>4, <1>5, CountType
  <2>2. TypeOK'  BY <1>5, <2>1 DEF SessionInv, TypeOK
  <2>3. DataFaithful'  BY <1>5 DEF SessionInv, DataFaithful
  <2>4. SessionInv'  BY <1>5, <2>2, <2>3 DEF SessionInv, ReadWindowInFile
  <2>5. AcksFollowWindow  BY <1>5, NoAck_Step
  <2> QED  BY <1>1, <1>5, <2>4, <2>5
<1>6. CASE /\ SelectedOperation = CLIENT_TO_SERVER
           /\ ~Dropped(m.block)
           /\ BytesHandled' = Count(TFTP_HEADER_SIZE + m.bytes)
           /\ WriteBlock(m)
           /\ WindowRetryCount' = IF m.bytes > 0 THEN 0 ELSE WindowRetryCount
           /\ SMSG_ACK_Block(received, TransferDone \/ m.bytes < BlockSize, Error, {})
           /\ UNCHANGED <<SelectedOperation, ReadDone>>
  <2>1. m.block > FirstBlockInWindow  BY <1>1, <1>6 DEF Dropped
  <2>2. WindowIndex(m.block) \in 0 .. WindowSize - 1  BY <1>1, <2>1 DEF WindowIndex
  <2>3. /\ received \in SUBSET (0 .. WindowSize - 1)
        /\ BlocksReceived(received) \in 0 .. 1
        /\ WindowSize = 1 => BlocksReceived(received) = IF m.bytes > 0 THEN 1 ELSE 0
    <3>1. CASE m.bytes > 0
      <4>1. received = {WindowIndex(m.block)}  BY <1>1, <3>1
      <4>2. WindowSize = 1 => WindowIndex(m.block) = 0  BY <2>2
      <4> HIDE DEF received
      <4> QED  BY <2>2, <3>1, <4>1, <4>2, BlocksReceivedValue
    <3>2. CASE ~(m.bytes > 0)
      <4>1. received = {}  BY <1>1, <3>2
      <4> HIDE DEF received
      <4> QED  BY <3>2, <4>1, BlocksReceivedValue
    <3> QED  BY <3>1, <3>2
  <2> HIDE DEF received
  <2>4. /\ FirstBlockInWindow + BlocksReceived(received) \in 0 .. BlockMod - 1
        /\ (FirstBlockInWindow + BlocksReceived(received)) % BlockMod
             = FirstBlockInWindow + BlocksReceived(received)
    BY <1>1, <2>1, <2>3
  <2>5. /\ filePos' \in 0 .. BlockMod - 1
        /\ stored' \in [1 .. BlockMod - 1 -> Nat]
        /\ WindowSize = 1 /\ ~NoFileWriteOnServer
             => filePos' = FirstBlockInWindow + BlocksReceived(received)
    <3>1. /\ filePos \in 0 .. BlockMod - 1
          /\ stored \in [1 .. BlockMod - 1 -> Nat]
          /\ WindowSize = 1 /\ ~NoFileWriteOnServer => filePos = FirstBlockInWindow
      BY <1>6 DEF SessionInv, TypeOK
    <3>2. CASE m.bytes = 0 \/ NoFileWriteOnServer
      <4>1. UNCHANGED <<filePos, stored>>  BY <1>6, <3>2 DEF WriteBlock
      <4> QED  BY <1>1, <2>3, <3>1, <3>2, <4>1
    <3>3. CASE ~(m.bytes = 0 \/ NoFileWriteOnServer)
      <4> DEFINE position == Position(m.block)
      <4>1. /\ WindowSize # 1 => position < BlockMod
            /\ filePos' = position /\ stored' = [stored EXCEPT ![position] = m.content]
        BY <1>6, <3>3 DEF WriteBlock
      <4>2. position \in 1 .. BlockMod - 1
        <5>1. position = m.block \/ position = filePos + 1  BY DEF Position
        <5>2. WindowSize = 1 => position = filePos + 1  BY DEF Position
        <5>3. WindowSize = 1 => position <= m.block
          BY <1>1, <2>1, <3>1, <3>3, <5>2
        <5> HIDE DEF position
        <5> QED  BY <1>1, <2>1, <3>1, <4>1, <5>1, <5>3
      <4>3. WindowSize = 1 => position = FirstBlockInWindow + BlocksReceived(received)
        <5>1. WindowSize = 1 => position = filePos + 1  BY DEF Position
        <5> QED  BY <1>1, <2>3, <3>1, <3>3, <5>1
      <4> HIDE DEF position
      <4> QED  BY <1>1, <3>1, <4>1, <4>2, <4>3
    <3> QED  BY <3>2, <3>3
  <2>6. BytesHandled' \in 0 .. ByteLimit + 1  BY <1>1, <1>4, <1>6, CountType
  <2>7. WindowRetryCount' \in Nat /\ SelectedOperation' = CLIENT_TO_SERVER  BY <1>1, <1>6
  <2>8. ReadDone' \in BOOLEAN  BY <1>6 DEF SessionInv, TypeOK
  <2>9. PICK done \in BOOLEAN : SMSG_ACK_Block(received, done, NO_ERROR, {})
    BY <1>1, <1>6
  <2>10. FirstBlockInWindow < BlockMod /\ BlocksReceived(received) \in Nat
    BY <1>1, <2>1, <2>3
  <2>11. WindowSize = 1 /\ ~NoFileWriteOnServer
           => /\ filePos' = (FirstBlockInWindow + BlocksReceived(received)) % BlockMod
              /\ filePos' >= FirstBlockInWindow
    <3>1. FirstBlockInWindow + BlocksReceived(received) >= FirstBlockInWindow
      BY <1>1, <2>3
    <3> QED  BY <2>4, <2>5, <3>1
  <2>12. {} \in SUBSET {Oack} /\ NO_ERROR \in {NO_ERROR, ERR_ILLEGAL_OPERATION}  OBVIOUS
  <2>13. /\ SessionInv' /\ AcksFollowWindow
         /\ \/ FirstBlockInWindow' = (FirstBlockInWindow + BlocksReceived(received)) % BlockMod
            \/ FirstBlockInWindow' = FirstBlockInWindow /\ ~alive'
    BY <2>3, <2>5, <2>6, <2>7, <2>8, <2>9, <2>10, <2>11, <2>12, SMSG_ACK_Block_Step
  <2> QED  BY <1>1, <2>3, <2>4, <2>13
<1> QED  BY <1>2, <1>3, <1>5, <1>6 DEF CMSG__DATA

(* An iteration that handled a packet, whatever it was. *)
LEMMA ParsePacket_Step ==
  ASSUME SessionInv, NEW m \in PeerPacketType, ParsePacket(m)
  PROVE  SessionInv' /\ FirstBlockInWindow' >= FirstBlockInWindow /\ AcksFollowWindow
<1>0. alive  BY DEF ParsePacket
<1>1. CASE m.op = "RRQ" /\ CMSG_RRQ  BY <1>0, <1>1, CMSG_RRQ_Step
<1>2. CASE m.op = "WRQ" /\ CMSG_WRQ  BY <1>0, <1>2, CMSG_WRQ_Step
<1>3. CASE m.op = "ACK" /\ CMSG_ACK(m)
  <2>1. m \in [op : {"ACK"}, block : Block]  BY <1>3 DEF PeerPacketType
  <2> QED  BY <1>0, <1>3, <2>1, CMSG_ACK_Step
<1>4. CASE m.op = "DATA" /\ CMSG__DATA(m)
  <2>1. m \in [op : {"DATA"}, block : Block, content : Nat, bytes : 0 .. BlockSize]
    BY <1>4 DEF PeerPacketType
  <2> QED  BY <1>0, <1>4, <2>1, CMSG__DATA_Step
<1>5. CASE m.op = "ERROR" /\ CMSG_ERROR(m)
  <2>1. m.code \in ErrorCodes  BY <1>5 DEF PeerPacketType
  <2> QED  BY <1>0, <1>5, <2>1, Refuse_Step DEF CMSG_ERROR
<1>6. CASE Refuse(ERR_ILLEGAL_OPERATION)
  <2>1. ERR_ILLEGAL_OPERATION \in ErrorCodes  BY ServerErrors
  <2> QED  BY <1>0, <1>6, <2>1, Refuse_Step
<1>7. CASE Refuse(ERR_UNDEFINED)
  <2>1. ERR_UNDEFINED \in ErrorCodes  BY ServerErrors
  <2> QED  BY <1>0, <1>7, <2>1, Refuse_Step
<1> QED  BY <1>1, <1>2, <1>3, <1>4, <1>5, <1>6, <1>7 DEF ParsePacket

(* An iteration whose recv() timed out. *)
LEMMA Timeout_Step ==
  ASSUME SessionInv, Timeout
  PROVE  SessionInv' /\ FirstBlockInWindow' >= FirstBlockInWindow /\ AcksFollowWindow
<1> DEFINE retries == NextRetry
<1>1. /\ alive
      /\ SelectedOperation # NOT_INITIALIZED
      /\ FirstBlockInWindow \in Nat /\ TransferDone \in BOOLEAN
      /\ Error = NO_ERROR /\ ~TransferDone /\ BlockNrInWindowReceived = {}
  BY DEF Timeout, SessionInv, TypeOK
<1>2. retries \in Nat  BY DEF NextRetry, SessionInv, TypeOK
<1> HIDE DEF retries
<1>3. CASE WindowRetryCount' = retries /\ Break(Error)
  <2>1. Error \in ErrorCodes  BY DEF SessionInv, TypeOK
  <2> QED  BY <1>1, <1>2, <1>3, <2>1, Break_Step
<1>4. CASE /\ SelectedOperation = SERVER_TO_CLIENT
           /\ SMSG_DATA(FirstBlockInWindow, Error, retries, {})
           /\ UNCHANGED SelectedOperation
  <2>1. FirstBlockInWindow \in 1 .. LastBlock /\ FirstBlockInWindow <= BlockMod
    BY <1>1, <1>4 DEF SessionInv, ReadWindowInFile, TypeOK
  <2>2. SelectedOperation' = SERVER_TO_CLIENT /\ {} \in SUBSET {Oack}  BY <1>4
  <2>3. ReadDone => LastBlock <= FirstBlockInWindow + WindowSize - 1
    BY <1>1, <1>4 DEF SessionInv
  <2>4. /\ SessionInv' /\ FirstBlockInWindow' = FirstBlockInWindow
        /\ \A p \in toClient' : p \in toClient \/ p.op # "ACK"
    BY <1>1, <1>2, <1>4, <2>1, <2>2, <2>3, SMSG_DATA_Step
  <2>5. AcksFollowWindow  BY <1>4, <2>2, <2>4, NoUpload_Step
  <2> QED  BY <1>1, <2>4, <2>5
<1>5. CASE /\ SelectedOperation = CLIENT_TO_SERVER
           /\ WindowRetryCount' = retries
           /\ SMSG_ACK_Block(BlockNrInWindowReceived, TransferDone, Error, {})
           /\ UNCHANGED <<SelectedOperation, ReadDone, BytesHandled, filePos, stored>>
  <2>1. PICK done \in BOOLEAN : SMSG_ACK_Block({}, done, NO_ERROR, {})
    BY <1>1, <1>5
  <2>2. /\ WindowRetryCount' \in Nat
        /\ SelectedOperation' = CLIENT_TO_SERVER
        /\ ReadDone' \in BOOLEAN
        /\ BytesHandled' \in 0 .. ByteLimit + 1
        /\ filePos' \in 0 .. BlockMod - 1
        /\ stored' \in [1 .. BlockMod - 1 -> Nat]
        /\ FirstBlockInWindow \in 0 .. BlockMod - 1
        /\ WindowSize = 1 /\ ~NoFileWriteOnServer
             => filePos' = FirstBlockInWindow /\ filePos' >= FirstBlockInWindow
    BY <1>1, <1>2, <1>5, BlockModAssumption DEF SessionInv, TypeOK
  <2>3. /\ BlocksReceived({}) \in Nat
        /\ (FirstBlockInWindow + BlocksReceived({})) % BlockMod = FirstBlockInWindow
    <3>1. FirstBlockInWindow \in 0 .. BlockMod - 1 /\ BlocksReceived({}) = 0
      BY <2>2, BlocksReceivedValue
    <3> QED  BY <3>1, BlockModAssumption
  <2>4. /\ {} \in SUBSET {Oack} /\ {} \in SUBSET (0 .. WindowSize - 1)
        /\ NO_ERROR \in {NO_ERROR, ERR_ILLEGAL_OPERATION}
        /\ FirstBlockInWindow < BlockMod
    BY <2>2, BlockModAssumption
  <2>5. SessionInv' /\ AcksFollowWindow /\ FirstBlockInWindow' = FirstBlockInWindow
    BY <1>1, <2>1, <2>2, <2>3, <2>4, SMSG_ACK_Block_Step
  <2> QED  BY <1>1, <2>5
<1> QED  BY <1>3, <1>4, <1>5 DEF Timeout, retries

-----------------------------------------------------------------------------
(* What an arbitrary peer can send is well-formed as far as ParsePacket     *)
(* looks at it.                                                             *)
LEMMA PeerPacketsType == PeerPackets \subseteq PeerPacketType
<1> USE BlockModAssumption
<1>1. \A op \in {"RRQ", "WRQ", "SHORT", "OTHER"} : Request(op) \in PeerPacketType
  BY DEF Request, PeerPacketType
<1>2. \A n \in Block : Ack(n) \in PeerPacketType  BY DEF Ack, PeerPacketType
<1>3. \A n \in Block, size \in 0 .. BlockSize : Data(n, n, size) \in PeerPacketType
  <2>1. Block \subseteq Nat  BY DEF Block
  <2> QED  BY <2>1 DEF Data, PeerPacketType
<1>4. \A e \in ErrorCodes : ErrorPacket(e) \in PeerPacketType
  BY DEF ErrorPacket, PeerPacketType
<1> QED  BY <1>1, <1>2, <1>3, <1>4, ServerErrors DEF PeerPackets

(* The invariant holds in the state the constructor of TFTPSession leaves.  *)
LEMMA SessionInit_Inv == SessionInit => SessionInv
<1> SUFFICES ASSUME SessionInit PROVE SessionInv  OBVIOUS
<1> USE BlockModAssumption, WindowSizeAssumption, ConfigAssumption DEF SessionInit
<1>1. stored \in [1 .. BlockMod - 1 -> Nat]  BY DEF Hole
<1>2. Error \in ErrorCodes  BY ServerErrors
<1>3. SelectedOperation \in Operations  BY DEF Operations
<1>4. TypeOK
  <2>1. /\ FirstBlockInWindow \in 0 .. BlockMod
        /\ WindowRetryCount \in Nat
        /\ BytesHandled \in 0 .. ByteLimit + 1
        /\ filePos \in Nat
        /\ filePos < BlockMod
    OBVIOUS
  <2>2. alive \in BOOLEAN /\ ReadDone \in BOOLEAN /\ TransferDone \in BOOLEAN  OBVIOUS
  <2>3. BlockNrInWindowReceived \subseteq 0 .. WindowSize - 1 /\ toClient \subseteq Packets
    OBVIOUS
  <2> QED  BY <1>1, <1>2, <1>3, <2>1, <2>2, <2>3 DEF TypeOK
<1>5. DataFaithful  BY DEF DataFaithful
<1> QED  BY <1>4, <1>5 DEF SessionInv, ReadWindowInFile

(* Every iteration of the loop of ThreadDirectComm keeps SessionInv and     *)
(* does not move the window back.                                           *)
LEMMA SessionNext_Step ==
  ASSUME SessionInv, SessionNext
  PROVE  SessionInv' /\ FirstBlockInWindow' >= FirstBlockInWindow /\ AcksFollowWindow
<1>1. CASE \E m \in PeerPackets : ParsePacket(m)
  <2>1. PICK m \in PeerPackets : ParsePacket(m)  BY <1>1
  <2>2. m \in PeerPacketType  BY PeerPacketsType
  <2> QED  BY <2>1, <2>2, ParsePacket_Step
<1>2. CASE Timeout  BY <1>2, Timeout_Step
<1> QED  BY <1>1, <1>2 DEF SessionNext

(* SessionInv is an invariant of a session, whatever its peer sends. *)
THEOREM SessionInvariant == SessionSpec => []SessionInv
<1>1. SessionInv /\ UNCHANGED sessionVars => SessionInv'  BY Unchanged_Step
<1>2. SessionInv /\ [SessionNext]_sessionVars => SessionInv'
  BY <1>1, SessionNext_Step
<1> QED  BY <1>2, SessionInit_Inv, PTL DEF SessionSpec

(* The types of TFTPSession's fields; an upload's file position stays in    *)
(* the range of block numbers.                                              *)
THEOREM SessionTypes == SessionSpec => []TypeOK
<1>1. SessionInv => TypeOK  BY DEF SessionInv
<1> QED  BY <1>1, SessionInvariant, PTL

(* SMSG_DATA never reads past the short block of the file. *)
THEOREM SessionReadsInFile == SessionSpec => []ReadWindowInFile
<1>1. SessionInv => ReadWindowInFile  BY DEF SessionInv
<1> QED  BY <1>1, SessionInvariant, PTL

(* Every DATA packet, first sent or resent, carries the block its number    *)
(* stands for.                                                              *)
THEOREM SessionSendsFaithfully == SessionSpec => []DataFaithful
<1>1. SessionInv => DataFaithful  BY DEF SessionInv
<1> QED  BY <1>1, SessionInvariant, PTL

(* No packet moves the window back. *)
THEOREM SessionWindowMonotone == SessionSpec => WindowNeverMovesBack
<1>1. SessionInv /\ [SessionNext]_sessionVars
        => [FirstBlockInWindow' >= FirstBlockInWindow]_sessionVars
  BY SessionNext_Step
<1> QED  BY <1>1, SessionInvariant, PTL DEF SessionSpec, WindowNeverMovesBack

-----------------------------------------------------------------------------
(* Where an upload's blocks are written *)

(* A step leaves the stored file alone or writes the block of a DATA packet *)
(* whose content is the one its number stands for.                          *)
LEMMA Stored_Step ==
  ASSUME SessionNext
  PROVE  \/ UNCHANGED stored
         \/ \E m \in PeerPackets : m.op = "DATA" /\ m.content = m.block /\ WriteBlock(m)
<1>1. ASSUME NEW first, NEW error, NEW retries, NEW before,
             SMSG_DATA(first, error, retries, before)
      PROVE  UNCHANGED stored
  BY <1>1 DEF SMSG_DATA
<1>2. CASE Timeout  BY <1>1, <1>2 DEF Timeout, Break
<1>3. ASSUME NEW m \in PeerPackets, ParsePacket(m)
      PROVE  UNCHANGED stored \/ (m.op = "DATA" /\ WriteBlock(m))
  <2>1. CASE CMSG_RRQ  BY <1>1, <2>1 DEF CMSG_RRQ, RefuseRequest, Refuse, Break, sessionVars
  <2>2. CASE CMSG_WRQ  BY <2>2 DEF CMSG_WRQ, RefuseRequest, Refuse, Break, sessionVars
  <2>3. CASE CMSG_ACK(m)  BY <1>1, <2>3 DEF CMSG_ACK, Refuse, sessionVars
  <2>4. CASE m.op = "DATA" /\ CMSG__DATA(m)  BY <2>4 DEF CMSG__DATA, Refuse
  <2> QED  BY <1>3, <2>1, <2>2, <2>3, <2>4 DEF ParsePacket, CMSG_ERROR, Refuse
<1>4. ASSUME NEW m \in PeerPackets, m.op = "DATA"
      PROVE  m.content = m.block
  BY <1>4 DEF PeerPackets, Request, Ack, Data, ErrorPacket
<1> QED  BY <1>2, <1>3, <1>4 DEF SessionNext

(* A block lands at its own place if its offset fits, else it is one whose  *)
(* offset does not.                                                         *)
LEMMA BlocksInPlace_Step ==
  ASSUME BlocksInPlace, [SessionNext]_sessionVars
  PROVE  BlocksInPlace'
<1>1. CASE UNCHANGED stored  BY <1>1 DEF BlocksInPlace
<1>2. CASE \E m \in PeerPackets : m.op = "DATA" /\ m.content = m.block /\ WriteBlock(m)
  <2>1. PICK m \in PeerPackets : m.op = "DATA" /\ m.content = m.block /\ WriteBlock(m)
    BY <1>2
  <2>2. CASE stored' = [stored EXCEPT ![Position(m.block)] = m.content]
    <3> SUFFICES ASSUME WindowSize # 1, NEW p \in DOMAIN stored
                 PROVE  stored'[p] \in {Hole, p} \/ ~OffsetFits(stored'[p] - 1)
      BY <2>2 DEF BlocksInPlace
    <3>1. CASE p # Position(m.block)
      <4>1. stored'[p] = stored[p]  BY <2>2, <3>1
      <4> QED  BY <4>1 DEF BlocksInPlace
    <3>2. CASE p = Position(m.block)
      <4>1. stored'[p] = m.block  BY <2>1, <2>2, <3>2
      <4>2. p = m.block \/ ~OffsetFits(m.block - 1)  BY <3>2 DEF Position
      <4> QED  BY <4>1, <4>2
    <3> QED  BY <3>1, <3>2
  <2> QED  BY <1>1, <2>1, <2>2 DEF WriteBlock
<1>3. UNCHANGED sessionVars => UNCHANGED stored  BY DEF sessionVars
<1> QED  BY <1>1, <1>2, <1>3, Stored_Step

(* In a windowed upload no block is written at another's place, whatever is *)
(* sent and however often, as long as (BlockNr-1)*BlockSize fits into an    *)
(* int.  A block whose offset does not fit, which a negotiated window and   *)
(* block size can reach, is not held to its place.                          *)
THEOREM SessionStoresInPlace == SessionSpec => []BlocksInPlace
<1>1. SessionInit => BlocksInPlace  BY DEF SessionInit, BlocksInPlace
<1>2. BlocksInPlace /\ [SessionNext]_sessionVars => BlocksInPlace'  BY BlocksInPlace_Step
<1> QED  BY <1>1, <1>2, PTL DEF SessionSpec

-----------------------------------------------------------------------------
(* Files with more blocks than there are numbers *)

(* A download that is not taken for done. *)
NeverDone == SelectedOperation = SERVER_TO_CLIENT => ~TransferDone

(* The window is compared with block numbers as they travel, so it cannot   *)
(* reach the short block.                                                   *)
LEMMA NeverDone_Step ==
  ASSUME SessionInv, NeverDone, LastBlock >= BlockMod + WindowSize - 1,
         [SessionNext]_sessionVars
  PROVE  NeverDone'
<1>1. CASE UNCHANGED sessionVars  BY <1>1 DEF NeverDone, sessionVars
<1>2. ASSUME NEW first, NEW error, NEW retries, NEW before,
             SMSG_DATA(first, error, retries, before)
      PROVE  NeverDone'
  BY <1>2 DEF SMSG_DATA, EndOfIteration, NeverDone
<1>3. ASSUME NEW error, Refuse(error) \/ Break(error)
      PROVE  NeverDone'
  BY <1>3 DEF Refuse, Break, EndOfIteration, NeverDone
<1>4. CASE UNCHANGED <<SelectedOperation, TransferDone>>  BY <1>4 DEF NeverDone
<1>5. CASE SelectedOperation' = CLIENT_TO_SERVER  BY <1>5 DEF NeverDone
<1>6. ASSUME NEW m \in PeerPackets, ParsePacket(m)
      PROVE  NeverDone'
  <2>1. alive  BY <1>6 DEF ParsePacket
  <2>2. CASE CMSG_RRQ
    BY <1>2, <1>3, <1>4, <2>2 DEF CMSG_RRQ, RefuseRequest, sessionVars
  <2>3. CASE CMSG_WRQ
    BY <1>3, <1>4, <1>5, <2>3 DEF CMSG_WRQ, RefuseRequest, sessionVars
  <2>4. CASE m.op = "ACK" /\ CMSG_ACK(m)
    <3>1. m \in [op : {"ACK"}, block : Block]
      BY <1>6, <2>4, PeerPacketsType DEF PeerPacketType
    <3>2. m.block \in 0 .. BlockMod - 1  BY <3>1 DEF Block
    <3>3. ~(SelectedOperation = SERVER_TO_CLIENT /\ InWindow(m.block) /\ ReadDone)
      <4> SUFFICES ASSUME SelectedOperation = SERVER_TO_CLIENT, InWindow(m.block), ReadDone
                   PROVE  FALSE
        OBVIOUS
      <4>1. LastBlock <= FirstBlockInWindow + WindowSize - 1 /\ FirstBlockInWindow \in Nat
        BY <2>1 DEF SessionInv, TypeOK
      <4>2. FirstBlockInWindow <= BlockMod - 1
        BY <3>2, <4>1, BlockModAssumption DEF InWindow
      <4>3. LastBlock \in Nat  BY FileAssumption DEF LastBlock
      <4> QED  BY <4>1, <4>2, <4>3, BlockModAssumption, WindowSizeAssumption
    <3> QED  BY <1>2, <1>3, <1>4, <2>4, <3>3 DEF CMSG_ACK, sessionVars
  <2>5. CASE CMSG__DATA(m)
    <3>1. CASE SelectedOperation = CLIENT_TO_SERVER /\ UNCHANGED SelectedOperation
      BY <1>5, <3>1
    <3>2. CASE EndOfIteration(ERR_DISK_FULL, TransferDone, {}) /\ UNCHANGED SelectedOperation
      BY <1>4, <3>2 DEF EndOfIteration
    <3> QED  BY <1>3, <1>4, <2>5, <3>1, <3>2 DEF CMSG__DATA
  <2> QED  BY <1>3, <1>6, <2>2, <2>3, <2>4, <2>5 DEF ParsePacket, CMSG_ERROR
<1>7. CASE Timeout
  BY <1>2, <1>3, <1>5, <1>7 DEF Timeout
<1> QED  BY <1>1, <1>6, <1>7 DEF SessionNext

(* Block numbers do not roll over in a download: CMSG_ACK compares the 16   *)
(* bits of the ACK with a FirstBlockInWindow that counts on.  No download   *)
(* of a file whose short block has a number of 2^16 or more, 32 MiB of 512  *)
(* bytes with one block in the window, is ever taken for done, whatever the *)
(* client sends.                                                            *)
THEOREM LongDownloadsNeverComplete ==
  ASSUME LastBlock >= BlockMod + WindowSize - 1
  PROVE  SessionSpec => []NeverDone
<1>1. SessionInit => NeverDone  BY DEF SessionInit, NeverDone
<1>2. SessionInv /\ NeverDone /\ [SessionNext]_sessionVars => NeverDone'
  BY NeverDone_Step
<1> QED  BY <1>1, <1>2, SessionInvariant, PTL DEF SessionSpec

-----------------------------------------------------------------------------
(* One block in the window of a server that stores what is uploaded *)

(* OneBlockInv is inductive: old ACKs stay behind a window that only moves  *)
(* forward.                                                                 *)
LEMMA OneBlock_Step ==
  ASSUME OneBlockInv, WindowSize = 1, ~NoFileWriteOnServer, [SessionNext]_sessionVars
  PROVE  OneBlockInv'
<1>1. CASE UNCHANGED sessionVars
  <2>1. SessionInv'  BY <1>1, Unchanged_Step DEF OneBlockInv
  <2> QED  BY <1>1, <2>1 DEF OneBlockInv, sessionVars
<1>2. CASE SessionNext
  <2>1. /\ SessionInv'
        /\ FirstBlockInWindow' >= FirstBlockInWindow
        /\ AcksFollowWindow
    BY <1>2, SessionNext_Step DEF OneBlockInv
  <2>2. FirstBlockInWindow \in Nat /\ FirstBlockInWindow' \in Nat
    BY <2>1, BlockModAssumption DEF OneBlockInv, SessionInv, TypeOK
  <2>3. toClient \subseteq Packets /\ \A a \in Packets : a.op = "ACK" => a.block \in Nat
    BY BlockModAssumption DEF OneBlockInv, SessionInv, TypeOK, Packets, Block, Oack
  <2>4. ASSUME NEW a \in toClient', a.op = "ACK"
        PROVE  SelectedOperation' = CLIENT_TO_SERVER /\ a.block <= FirstBlockInWindow'
    <3>1. CASE a \in toClient
      <4>1. SelectedOperation = CLIENT_TO_SERVER /\ a.block <= FirstBlockInWindow
        BY <2>4, <3>1 DEF OneBlockInv
      <4> QED  BY <2>1, <2>2, <2>3, <2>4, <3>1, <4>1 DEF AcksFollowWindow
    <3>2. CASE a \notin toClient
      BY <2>1, <2>2, <2>4, <3>2 DEF AcksFollowWindow
    <3> QED  BY <3>1, <3>2
  <2>5. SelectedOperation' = CLIENT_TO_SERVER => FirstBlockInWindow' <= filePos'
    BY <2>1 DEF AcksFollowWindow
  <2> QED  BY <2>1, <2>4, <2>5 DEF OneBlockInv
<1> QED  BY <1>1, <1>2

(* No upload with one block in the window is acknowledged ahead of its      *)
(* file.                                                                    *)
THEOREM SessionOneBlockInvariant ==
  ASSUME WindowSize = 1, ~NoFileWriteOnServer
  PROVE  SessionSpec => []OneBlockInv
<1>1. SessionInit => OneBlockInv
  BY SessionInit_Inv DEF OneBlockInv, SessionInit
<1>2. OneBlockInv /\ [SessionNext]_sessionVars => OneBlockInv'  BY OneBlock_Step
<1> QED  BY <1>1, <1>2, PTL DEF SessionSpec

(* Such an upload acknowledges n only after n blocks were written.          *)
THEOREM SessionAcksWritten ==
  ASSUME WindowSize = 1, ~NoFileWriteOnServer
  PROVE  SessionSpec => []AckedBlocksWritten
<1>1. OneBlockInv => AckedBlocksWritten
  <2> SUFFICES ASSUME OneBlockInv, NEW a \in toClient, a.op = "ACK"
               PROVE  a.block <= filePos
    BY DEF AckedBlocksWritten
  <2>1. a \in Packets /\ FirstBlockInWindow \in Nat /\ filePos \in Nat
    BY BlockModAssumption DEF OneBlockInv, SessionInv, TypeOK
  <2>2. a.block \in Nat  BY <2>1, BlockModAssumption DEF Packets, Block, Oack
  <2> QED  BY <2>1, <2>2 DEF OneBlockInv
<1> QED  BY <1>1, SessionOneBlockInvariant, PTL

=============================================================================
