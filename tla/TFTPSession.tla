----------------------------- MODULE TFTPSession -----------------------------
(***************************************************************************)
(* One TFTPSession of the server and the thread that runs it: the loop of  *)
(* ThreadDirectComm and every packet handler it reaches, for downloads     *)
(* (SERVER_TO_CLIENT) and uploads (CLIENT_TO_SERVER) alike.                *)
(*                                                                         *)
(* A step is one iteration of the loop: a packet is parsed and handled, or *)
(* recv() runs into its timeout, and then the loop looks at the error and  *)
(* the end of the transfer.  An iteration works on state only its thread   *)
(* sees, so nothing can interleave with it.                                *)
(*                                                                         *)
(* The peer is left open: SessionSpec runs the session against a peer that *)
(* may send anything at any time.  Download and Upload close the system    *)
(* with an RFC 1350 / RFC 7440 client and a network that loses, duplicates *)
(* and reorders datagrams.                                                 *)
(*                                                                         *)
(* Data: a full block of a file is known by its position, 1, 2, ...; the   *)
(* stored file maps positions to the block written there, 0 for a hole.    *)
(***************************************************************************)
EXTENDS Integers, FiniteSets

CONSTANTS
  BlockMod,            \* block numbers travel as unsigned short: 2^16
  BlockSize,           \* negotiated bytes of a full block
  WindowSize,          \* negotiated blocks in a window
  FullBlocks,          \* full blocks of the file that is transferred ...
  TailBytes,           \* ... and the bytes, fewer than a block, after them
  RetryMax,            \* sConf.RetryResendPacketMax
  ByteLimit,           \* sConf.KillConnectionAfterxBytesReceived, 0 is no limit
  NoFileWriteOnServer, \* sConf.NoFileWriteOnServer: uploads are not stored
  INT_MAX              \* 2^31 - 1

ASSUME BlockModAssumption   == BlockMod \in Nat /\ BlockMod > 1
ASSUME BlockSizeAssumption  == BlockSize \in Nat \ {0}
ASSUME WindowSizeAssumption == WindowSize \in Nat \ {0}
ASSUME FileAssumption       == /\ FullBlocks \in Nat
                               /\ TailBytes \in 0 .. BlockSize - 1
ASSUME ConfigAssumption     == /\ RetryMax \in Nat
                               /\ ByteLimit \in Nat
                               /\ NoFileWriteOnServer \in BOOLEAN
ASSUME IntAssumption        == INT_MAX \in Nat /\ ByteLimit <= INT_MAX

VARIABLES
  alive,                    \* the thread is in its loop
  SelectedOperation,
  FirstBlockInWindow,       \* read: first block not acknowledged; write: last block acknowledged
  BlockNrInWindowReceived,  \* indices of the window whose entry is not 0
  WindowRetryCount,
  Error,
  ReadDone,
  TransferDone,
  BytesHandled,             \* counted up to ByteLimit + 1, which is all the code compares it with
  filePos,                  \* hFile's position, in blocks from the start
  stored,                   \* an upload's file
  toClient                  \* datagrams sent to the peer and not lost

sessionVars == <<alive, SelectedOperation, FirstBlockInWindow, BlockNrInWindowReceived,
                 WindowRetryCount, Error, ReadDone, TransferDone, BytesHandled,
                 filePos, stored, toClient>>

-----------------------------------------------------------------------------
(* Enumerations of TFTP.h *)

NOT_INITIALIZED  == "NOT_INITIALIZED"
CLIENT_TO_SERVER == "CLIENT_TO_SERVER"
SERVER_TO_CLIENT == "SERVER_TO_CLIENT"

Operations == {NOT_INITIALIZED, CLIENT_TO_SERVER, SERVER_TO_CLIENT}

ERR_UNDEFINED         == 0
ERR_FILE_NOT_FOUND    == 1
ERR_DISK_FULL         == 3
ERR_ILLEGAL_OPERATION == 4
NO_ERROR              == 255

(* Packets.  SHORT is one with too few bytes for its handler, OTHER one    *)
(* with an opcode ParsePacket does not know.                               *)
Block == 0 .. BlockMod - 1

Request(op)      == [op |-> op]
Ack(n)           == [op |-> "ACK", block |-> n]
Data(n, c, size) == [op |-> "DATA", block |-> n, content |-> c, bytes |-> size]
ErrorPacket(e)   == [op |-> "ERROR", code |-> e]
Oack             == [op |-> "OACK"]

(* The chunks a file is cut into: FullBlocks full ones and a short one,    *)
(* empty when the size is a multiple of BlockSize, and nothing after it.   *)
LastBlock     == FullBlocks + 1
BlockBytes(b) == IF b <= FullBlocks THEN BlockSize
                 ELSE IF b = LastBlock THEN TailBytes ELSE 0

TFTP_HEADER_SIZE == 4

Hole == 0

-----------------------------------------------------------------------------
(* The end of an iteration of the loop: an error is reported to the client *)
(* and ends the session, so does a finished transfer.  The packets `out`   *)
(* were sent by the handler.  SMSG_Error reports DISK_FULL as UNDEFINED.   *)

SMSG_Error(error) == IF error = ERR_DISK_FULL THEN ERR_UNDEFINED ELSE error

EndOfIteration(error, done, out) ==
  /\ Error' = SMSG_Error(error)
  /\ TransferDone' = done
  /\ alive' = (error = NO_ERROR /\ ~done)
  /\ toClient' = toClient \cup out
                   \cup (IF error = NO_ERROR THEN {} ELSE {ErrorPacket(Error')})

(* A handler that only sets sess->Error. *)
Refuse(error) ==
  /\ EndOfIteration(error, TransferDone, {})
  /\ UNCHANGED <<SelectedOperation, FirstBlockInWindow, BlockNrInWindowReceived,
                 WindowRetryCount, ReadDone, BytesHandled, filePos, stored>>

(* The loop ends with nothing said to the client. *)
Break(error) ==
  /\ alive' = FALSE
  /\ Error' = error
  /\ UNCHANGED <<SelectedOperation, FirstBlockInWindow, BlockNrInWindowReceived,
                 ReadDone, TransferDone, BytesHandled, filePos, stored, toClient>>

(* Both directions count into BytesHandled and are held to the limit of    *)
(* received bytes.                                                         *)
Count_Nothing(bytes) == BytesHandled                   \* mutant

Saturate(bytes)  == IF bytes > ByteLimit THEN ByteLimit + 1 ELSE bytes
OverLimit(bytes) == ByteLimit # 0 /\ bytes > ByteLimit
Count(bytes)     == IF ByteLimit = 0 THEN 0 ELSE Saturate(BytesHandled + bytes)

-----------------------------------------------------------------------------
(* SMSG_DATA sends the blocks of the window that starts at block `first`,  *)
(* up to the short one.  It rewinds the file, then reads and sends block   *)
(* after block, and stops where send() fails or the byte limit is passed.  *)
(* `last` is the last block that was sent, `error` the error the handler   *)
(* has met before.  Past the end of the file there are only empty blocks.  *)

(* The offset, (first-1) * BlockSize, is an int.  It is taken to fit: with  *)
(* a byte limit it does (OffsetWithinLimit), without one it does in a file *)
(* of at most INT_MAX bytes.                                               *)
SeekTo_NoRewind(first) == filePos                     \* mutant

SeekTo(first) == first - 1

BurstEnd(start) ==
  LET short == IF start < LastBlock THEN LastBlock ELSE start + 1
  IN  IF start + WindowSize < short THEN start + WindowSize ELSE short

BurstBytes(start, last) ==
  IF last <= FullBlocks THEN (last - start) * BlockSize
  ELSE IF start < LastBlock THEN (FullBlocks - start) * BlockSize + TailBytes
  ELSE 0

ReachedEnd_LastFullBlock(b) == b >= FullBlocks         \* mutant

ReachedEnd(b) == b >= LastBlock

SMSG_DATA(first, error, retries, before) ==
  LET start == SeekTo(first) IN
  \E last \in start .. BurstEnd(start) :
    LET over(b)   == OverLimit(BytesHandled + BurstBytes(start, b))
        killed    == last > start /\ over(last)
        complete  == last = BurstEnd(start) /\ ~killed
        read      == IF killed \/ complete THEN last ELSE last + 1
        outcome   == IF killed THEN ERR_DISK_FULL
                     ELSE IF complete THEN error ELSE ERR_UNDEFINED
        packet(b) == Data((first + b - start - 1) % BlockMod, b, BlockBytes(b))
    IN
    /\ \A b \in start + 1 .. last - 1 : ~over(b)
    /\ FirstBlockInWindow' = first
    /\ ReadDone' = (ReadDone \/ ReachedEnd(read))
    /\ BytesHandled' = Count(BurstBytes(start, last))
    /\ WindowRetryCount' = IF complete THEN 0 ELSE retries
    /\ filePos' = read
    /\ EndOfIteration(outcome, FALSE, before \cup {packet(b) : b \in start + 1 .. last})
    /\ UNCHANGED <<BlockNrInWindowReceived, stored>>

(* SMSG_ACK_Block acknowledges the blocks received at the start of the     *)
(* window and opens the next window, unless send() fails.                  *)

BlocksReceived_WholeWindow(received) == WindowSize    \* mutant

BlocksReceived(received) ==
  CHOOSE n \in 0 .. WindowSize : /\ \A i \in 0 .. n - 1 : i \in received
                                 /\ n \notin received

SMSG_ACK_Block(received, done, error, before) ==
  LET BlockNrToACK == (FirstBlockInWindow + BlocksReceived(received)) % BlockMod IN
  \/ /\ FirstBlockInWindow' = BlockNrToACK
     /\ BlockNrInWindowReceived' = {}
     /\ EndOfIteration(error, done, before \cup {Ack(BlockNrToACK)})
  \/ /\ FirstBlockInWindow' = FirstBlockInWindow
     /\ BlockNrInWindowReceived' = received
     /\ EndOfIteration(ERR_UNDEFINED, done, before)

-----------------------------------------------------------------------------
(* The handlers of client packets *)

(* Negotiated options are answered with an OACK before anything else; a    *)
(* window of more than one block exists only if it was negotiated.  After  *)
(* a malformed option there is no OACK and an error, but the handler goes  *)
(* on.                                                                     *)
OptionReplies ==
  [error : {NO_ERROR}, oack : IF WindowSize = 1 THEN {{}, {Oack}} ELSE {{Oack}}]
    \cup {[error |-> ERR_ILLEGAL_OPERATION, oack |-> {}]}

(* A request can be malformed, which the handler notices before there is a *)
(* socket to answer on, or name a file that may not or cannot be opened.   *)
(* A socket that could not be created is met later, when the first send()  *)
(* on it fails.                                                            *)
RefuseRequest ==
  \/ Break(ERR_ILLEGAL_OPERATION) /\ UNCHANGED WindowRetryCount
  \/ Refuse(ERR_FILE_NOT_FOUND)

CMSG_RRQ ==
  \/ /\ SelectedOperation # NOT_INITIALIZED
     /\ UNCHANGED sessionVars
  \/ /\ SelectedOperation = NOT_INITIALIZED
     /\ RefuseRequest
  \/ /\ SelectedOperation = NOT_INITIALIZED
     /\ SelectedOperation' = SERVER_TO_CLIENT
     /\ \E r \in OptionReplies : SMSG_DATA(1, r.error, WindowRetryCount, r.oack)

CMSG_WRQ ==
  \/ /\ SelectedOperation # NOT_INITIALIZED
     /\ UNCHANGED sessionVars
  \/ /\ SelectedOperation = NOT_INITIALIZED
     /\ RefuseRequest
  \/ /\ SelectedOperation = NOT_INITIALIZED
     /\ SelectedOperation' = CLIENT_TO_SERVER
     /\ \E r \in OptionReplies : SMSG_ACK_Block({}, FALSE, r.error, r.oack)
     /\ UNCHANGED <<WindowRetryCount, ReadDone, BytesHandled, filePos, stored>>

InWindow_NoUpperBound(n) == n >= FirstBlockInWindow                       \* mutant
InWindow_NoLowerBound(n) == n <= FirstBlockInWindow + WindowSize - 1      \* mutant
InWindow_PastFirst(n)    == n > FirstBlockInWindow /\ InWindow_NoLowerBound(n)   \* mutant

InWindow(n) == n >= FirstBlockInWindow /\ n <= FirstBlockInWindow + WindowSize - 1

(* The block after the acknowledged one starts the next window, also when  *)
(* it lies inside the window that was sent.                                *)
WindowAfterAck_WholeWindow(n) == FirstBlockInWindow + WindowSize   \* mutant

WindowAfterAck(n) == n + 1

CMSG_ACK(m) ==
  \/ /\ SelectedOperation # SERVER_TO_CLIENT
     /\ Refuse(ERR_ILLEGAL_OPERATION)
  \/ /\ SelectedOperation = SERVER_TO_CLIENT
     /\ ~InWindow(m.block)
     /\ UNCHANGED sessionVars
  \/ /\ SelectedOperation = SERVER_TO_CLIENT
     /\ InWindow(m.block)
     /\ ReadDone
     /\ FirstBlockInWindow' = WindowAfterAck(m.block)
     /\ EndOfIteration(Error, TRUE, {})
     /\ UNCHANGED <<SelectedOperation, BlockNrInWindowReceived, WindowRetryCount,
                    ReadDone, BytesHandled, filePos, stored>>
  \/ /\ SelectedOperation = SERVER_TO_CLIENT
     /\ InWindow(m.block)
     /\ ~ReadDone
     /\ SMSG_DATA(WindowAfterAck(m.block), Error, WindowRetryCount, {})
     /\ UNCHANGED SelectedOperation

(* A block is dropped when it is acknowledged already or its entry in the  *)
(* window is taken.  The entry of a block is its size, so the entry of an  *)
(* empty block stays free.                                                 *)

WindowIndex_NoModulo(n) == n - 1                       \* mutant

WindowIndex(n) == (n - 1) % WindowSize

Dropped_OnlyTaken(n) == WindowIndex(n) \in BlockNrInWindowReceived        \* mutant

Dropped(n) == n <= FirstBlockInWindow \/ WindowIndex(n) \in BlockNrInWindowReceived

(* Blocks are written in the order they arrive if the window is one block, *)
(* else at the place their number gives them.  That offset, (n-1) *        *)
(* BlockSize, is an int: above INT_MAX its low 32 bits are negative,       *)
(* fseek() fails, and the block is written where the last one ended.       *)
OffsetFits(blocks) == blocks <= INT_MAX \div BlockSize

Position_NoSeek(n) == filePos + 1                      \* mutant

Position(n) == IF WindowSize # 1 /\ OffsetFits(n - 1) THEN n ELSE filePos + 1

(* Bound: files of at most BlockMod - 1 blocks.  Only blocks that are      *)
(* written after a failed fseek() could make a longer one.                 *)
WriteBlock(m) ==
  IF m.bytes = 0 \/ NoFileWriteOnServer
  THEN UNCHANGED <<filePos, stored>>
  ELSE /\ WindowSize # 1 => Position(m.block) < BlockMod
       /\ filePos' = Position(m.block)
       /\ stored' = [stored EXCEPT ![Position(m.block)] = m.content]

CMSG__DATA(m) ==
  LET bytes    == BytesHandled + TFTP_HEADER_SIZE + m.bytes
      received == BlockNrInWindowReceived
                    \cup (IF m.bytes > 0 THEN {WindowIndex(m.block)} ELSE {})
  IN
  \/ /\ SelectedOperation # CLIENT_TO_SERVER
     /\ Refuse(ERR_ILLEGAL_OPERATION)
  \/ /\ SelectedOperation = CLIENT_TO_SERVER
     /\ OverLimit(bytes)
     /\ BytesHandled' = Saturate(bytes)
     /\ EndOfIteration(ERR_DISK_FULL, TransferDone, {})
     /\ UNCHANGED <<SelectedOperation, FirstBlockInWindow, BlockNrInWindowReceived,
                    WindowRetryCount, ReadDone, filePos, stored>>
  \/ /\ SelectedOperation = CLIENT_TO_SERVER
     /\ ~OverLimit(bytes)
     /\ Dropped(m.block)
     /\ BytesHandled' = Count(TFTP_HEADER_SIZE + m.bytes)
     /\ UNCHANGED <<alive, SelectedOperation, FirstBlockInWindow, BlockNrInWindowReceived,
                    WindowRetryCount, Error, ReadDone, TransferDone, filePos, stored,
                    toClient>>
  \/ /\ SelectedOperation = CLIENT_TO_SERVER
     /\ ~OverLimit(bytes)
     /\ ~Dropped(m.block)
     /\ BytesHandled' = Count(TFTP_HEADER_SIZE + m.bytes)
     /\ WriteBlock(m)
     /\ WindowRetryCount' = IF m.bytes > 0 THEN 0 ELSE WindowRetryCount
     /\ SMSG_ACK_Block(received, TransferDone \/ m.bytes < BlockSize, Error, {})
     /\ UNCHANGED <<SelectedOperation, ReadDone>>

(* Any code but NO_ERROR's ends the session, and is sent back. *)
CMSG_ERROR(m) == Refuse(m.code)

-----------------------------------------------------------------------------
(* The loop of ThreadDirectComm *)

(* The listener starts a session with a request, whose handler ends the    *)
(* session or chooses its operation.                                       *)
ParsePacket(m) ==
  /\ alive
  /\ SelectedOperation = NOT_INITIALIZED => m.op \in {"RRQ", "WRQ"}
  /\ \/ m.op = "RRQ"   /\ CMSG_RRQ
     \/ m.op = "WRQ"   /\ CMSG_WRQ
     \/ m.op = "ACK"   /\ CMSG_ACK(m)
     \/ m.op = "DATA"  /\ CMSG__DATA(m)
     \/ m.op = "ERROR" /\ CMSG_ERROR(m)
     \/ m.op = "SHORT" /\ Refuse(ERR_ILLEGAL_OPERATION)
     \/ m.op = "OTHER" /\ Refuse(ERR_UNDEFINED)

(* recv() ran into its timeout and PacketTimeout has passed since the      *)
(* session's last activity.                                                *)
NextRetry_AlwaysFirst == 1                             \* mutant

NextRetry == WindowRetryCount + 1

Timeout ==
  LET retries == NextRetry IN
  /\ alive
  /\ SelectedOperation # NOT_INITIALIZED
  /\ \/ /\ retries >= RetryMax
        /\ WindowRetryCount' = retries
        /\ Break(Error)
     \/ /\ retries < RetryMax
        /\ SelectedOperation = SERVER_TO_CLIENT
        /\ SMSG_DATA(FirstBlockInWindow, Error, retries, {})
        /\ UNCHANGED SelectedOperation
     \/ /\ retries < RetryMax
        /\ SelectedOperation = CLIENT_TO_SERVER
        /\ WindowRetryCount' = retries
        /\ SMSG_ACK_Block(BlockNrInWindowReceived, TransferDone, Error, {})
        /\ UNCHANGED <<SelectedOperation, ReadDone, BytesHandled, filePos, stored>>

-----------------------------------------------------------------------------
SessionInit ==
  /\ alive = TRUE
  /\ SelectedOperation = NOT_INITIALIZED
  /\ FirstBlockInWindow = 0
  /\ BlockNrInWindowReceived = {}
  /\ WindowRetryCount = 0
  /\ Error = NO_ERROR
  /\ ReadDone = FALSE
  /\ TransferDone = FALSE
  /\ BytesHandled = 0
  /\ filePos = 0
  /\ stored = [p \in 1 .. BlockMod - 1 |-> Hole]
  /\ toClient = {}

(* Everything an arbitrary peer can send. *)
ErrorCodes  == 0 .. 65535
PeerPackets ==
  {Request(op) : op \in {"RRQ", "WRQ", "SHORT", "OTHER"}}
    \cup {Ack(n) : n \in Block}
    \cup {Data(n, n, size) : n \in Block, size \in 0 .. BlockSize}
    \cup {ErrorPacket(e) : e \in {ERR_UNDEFINED, ERR_DISK_FULL, NO_ERROR}}

SessionNext == (\E m \in PeerPackets : ParsePacket(m)) \/ Timeout

SessionSpec == SessionInit /\ [][SessionNext]_sessionVars

(* A socket nobody sends to times out, and nothing depends on send()       *)
(* failing then.                                                           *)
SendsWork == Error' = Error

SessionFairSpec == SessionSpec /\ WF_sessionVars(Timeout /\ SendsWork)

-----------------------------------------------------------------------------
Packets ==
  [op : {"ACK"}, block : Block]
    \cup [op : {"DATA"}, block : Block, content : Nat, bytes : 0 .. BlockSize]
    \cup [op : {"ERROR"}, code : ErrorCodes]
    \cup {Oack}

(* The state has the types the declarations of TFTPSession give it, and an *)
(* upload writes no further than block numbers reach (WriteBlock's bound   *)
(* sees to it only where fseek() fails).                                   *)
TypeOK ==
  /\ alive \in BOOLEAN
  /\ SelectedOperation \in Operations
  /\ FirstBlockInWindow \in 0 .. BlockMod
  /\ BlockNrInWindowReceived \subseteq 0 .. WindowSize - 1
  /\ WindowRetryCount \in Nat
  /\ Error \in ErrorCodes
  /\ ReadDone \in BOOLEAN
  /\ TransferDone \in BOOLEAN
  /\ BytesHandled \in 0 .. ByteLimit + 1
  /\ filePos \in Nat
  /\ SelectedOperation = CLIENT_TO_SERVER => filePos < BlockMod
  /\ stored \in [1 .. BlockMod - 1 -> Nat]
  /\ toClient \subseteq Packets

(* Whatever is acknowledged, the window of a download starts at a block    *)
(* the file has: SMSG_DATA never seeks past the short block, where it      *)
(* would send empty blocks the client takes for the end of the file.       *)
ReadWindowInFile ==
  alive /\ SelectedOperation = SERVER_TO_CLIENT => FirstBlockInWindow \in 1 .. LastBlock

(* Every DATA packet, resent or not, carries the bytes of the file that    *)
(* its block number stands for: the rewind in SMSG_DATA and the number in  *)
(* the header agree, also after a partly acknowledged window.              *)
DataFaithful ==
  \A d \in toClient :
    d.op = "DATA" => /\ d.content \in 1 .. LastBlock
                     /\ d.block = d.content % BlockMod
                     /\ d.bytes = BlockBytes(d.content)

(* With one block in the window, a server that stores uploads acknowledges *)
(* n only after it has written n blocks, whatever the numbers and sizes of *)
(* the DATA packets it got (CMSG__DATA writes before SMSG_ACK_Block counts).*)
AckedBlocksWritten ==
  \A a \in toClient : a.op = "ACK" => a.block <= filePos

(* Whatever a peer sends, and however often, an upload writes no more      *)
(* blocks than fit into the byte limit: every DATA packet is counted       *)
(* before it is written, overwritten blocks and headers included.          *)
StoredWithinLimit ==
  ByteLimit # 0 =>
    (TFTP_HEADER_SIZE + 1) * Cardinality({p \in DOMAIN stored : stored[p] # Hole}) <= ByteLimit

(* With a limit, a download gives fseek() no offset above it: what came    *)
(* before the window was sent, and counted, before.  The limit is an int,  *)
(* as is the product (FirstBlockInWindow - 1) * BlockSize, which would     *)
(* overflow for large blocks without one.                                  *)
OffsetWithinLimit ==
  ByteLimit # 0 /\ alive /\ SelectedOperation = SERVER_TO_CLIENT
    => (FirstBlockInWindow - 1) * BlockSize <= ByteLimit

(* With more than one block in the window, lost, late, repeated and        *)
(* reordered DATA packets leave holes in an upload's file, and no block is *)
(* at another's place but one whose own offset does not fit into an int.   *)
BlocksInPlace ==
  WindowSize # 1 =>
    \A p \in DOMAIN stored : stored[p] \in {Hole, p} \/ ~OffsetFits(stored[p] - 1)

(* The window never moves back to blocks acknowledged before, although     *)
(* old packets arrive again and block numbers are cut to 16 bits.          *)
WindowNeverMovesBack == [][FirstBlockInWindow' >= FirstBlockInWindow]_sessionVars

(* What makes these inductive.  A session that goes on has met no error    *)
(* and has an empty window: every DATA packet is acknowledged as it        *)
(* arrives.  The end of a download's file was read exactly when the window *)
(* reaches the short block.  With one block in the window an upload has    *)
(* written what it acknowledged.                                           *)
SessionInv ==
  /\ TypeOK
  /\ DataFaithful
  /\ ReadWindowInFile
  /\ alive => Error = NO_ERROR /\ ~TransferDone /\ BlockNrInWindowReceived = {}
  /\ alive /\ SelectedOperation = SERVER_TO_CLIENT
       => (ReadDone <=> LastBlock <= FirstBlockInWindow + WindowSize - 1)
  /\ SelectedOperation = NOT_INITIALIZED
       => FirstBlockInWindow = 0 /\ filePos = 0 /\ ~ReadDone
  /\ SelectedOperation = CLIENT_TO_SERVER => FirstBlockInWindow < BlockMod
  /\ alive /\ SelectedOperation = CLIENT_TO_SERVER /\ WindowSize = 1 /\ ~NoFileWriteOnServer
       => filePos = FirstBlockInWindow

(* With one block in the window: only an upload sends ACKs, none is ahead  *)
(* of the window, and the file is not behind it.                           *)
OneBlockInv ==
  /\ SessionInv
  /\ \A a \in toClient :
       a.op = "ACK" => SelectedOperation = CLIENT_TO_SERVER /\ a.block <= FirstBlockInWindow
  /\ SelectedOperation = CLIENT_TO_SERVER => FirstBlockInWindow <= filePos

(* A client that falls silent.  Dropped packets do not end the silence.    *)
SilentPeer == <>[][Timeout]_sessionVars

(* config.h: "After N retries we disconnect".  The session of an upload    *)
(* whose client fell silent ends.                                          *)
SilentUploadEnds == SilentPeer => (SelectedOperation = CLIENT_TO_SERVER ~> ~alive)

=============================================================================
