--------------------------- MODULE ByteLimit_proofs ---------------------------
(***************************************************************************)
(* Proofs about TFTPSession's byte limit: what a session has counted in    *)
(* BytesHandled bounds what it stores and how far it seeks, whatever its   *)
(* peer sends.                                                             *)
(***************************************************************************)
EXTENDS TFTPSession_proofs, FiniteSetTheorems

USE DEF NOT_INITIALIZED, CLIENT_TO_SERVER, SERVER_TO_CLIENT, ERR_UNDEFINED,
        ERR_FILE_NOT_FOUND, ERR_DISK_FULL, ERR_ILLEGAL_OPERATION, NO_ERROR, SMSG_Error,
        TFTP_HEADER_SIZE

(* The places of a file that hold a block. *)
Filled(file) == {p \in DOMAIN file : file[p] # Hole}

(* Every block in the file was counted, with its header and one byte at    *)
(* least.                                                                  *)
StoredCounted ==
  /\ (TFTP_HEADER_SIZE + 1) * Cardinality(Filled(stored)) <= BytesHandled
  /\ (TFTP_HEADER_SIZE + 1) * Cardinality(Filled(stored)) <= ByteLimit

(* The full blocks up to the end of the window that starts at block f.     *)
SentUpTo(f) == IF BurstEnd(f - 1) <= FullBlocks THEN BurstEnd(f - 1) ELSE FullBlocks

(* A download that goes on has counted all full blocks up to the end of    *)
(* its window, and has not passed the limit.                               *)
SentCounted ==
  alive /\ SelectedOperation = SERVER_TO_CLIENT
    => /\ SentUpTo(FirstBlockInWindow) * BlockSize <= BytesHandled
       /\ BytesHandled <= ByteLimit

LimitInv == SessionInv /\ (ByteLimit # 0 => StoredCounted /\ SentCounted)

-----------------------------------------------------------------------------
(* Counting *)

(* The counter never goes back; below the limit it is exact. *)
LEMMA CountGrows ==
  ASSUME ByteLimit # 0, BytesHandled \in 0 .. ByteLimit + 1, NEW b \in Nat
  PROVE  /\ Count(b) >= BytesHandled
         /\ Saturate(BytesHandled + b) >= BytesHandled
         /\ ~OverLimit(BytesHandled + b)
              => Count(b) = BytesHandled + b /\ BytesHandled + b <= ByteLimit
BY ConfigAssumption DEF Count, Saturate, OverLimit

(* One write fills one place at most. *)
LEMMA OneMoreFilled ==
  ASSUME NEW file \in [1 .. BlockMod - 1 -> Nat], NEW p, NEW c
  PROVE  /\ Cardinality(Filled(file)) \in Nat
         /\ Cardinality(Filled([file EXCEPT ![p] = c])) \in Nat
         /\ Cardinality(Filled([file EXCEPT ![p] = c])) <= Cardinality(Filled(file)) + 1
<1> DEFINE new == [file EXCEPT ![p] = c]
<1>1. IsFiniteSet(1 .. BlockMod - 1)  BY FS_Interval, BlockModAssumption
<1>2. Filled(file) \in SUBSET (1 .. BlockMod - 1)  BY DEF Filled
<1>3. IsFiniteSet(Filled(file))  BY <1>1, <1>2, FS_Subset
<1>4. Filled(new) \in SUBSET (Filled(file) \cup {p})  BY DEF Filled
<1> HIDE DEF new
<1>5. Cardinality(Filled(file)) \in Nat  BY <1>3, FS_CardinalityType
<1>6. /\ IsFiniteSet(Filled(file) \cup {p})
      /\ Cardinality(Filled(file) \cup {p}) <= Cardinality(Filled(file)) + 1
      /\ Cardinality(Filled(file) \cup {p}) \in Nat
  BY <1>3, <1>5, FS_AddElement
<1>7. /\ IsFiniteSet(Filled(new))
      /\ Cardinality(Filled(new)) <= Cardinality(Filled(file) \cup {p})
  BY <1>4, <1>6, FS_Subset
<1>8. Cardinality(Filled(new)) \in Nat  BY <1>7, FS_CardinalityType
<1> QED  BY <1>5, <1>6, <1>7, <1>8 DEF new

(* The bytes of a burst are those of its full blocks at least. *)
LEMMA BurstBytesAtLeast ==
  ASSUME NEW start \in Nat, start < LastBlock,
         NEW full \in Nat, start <= full,
         full = IF BurstEnd(start) <= FullBlocks THEN BurstEnd(start) ELSE FullBlocks
  PROVE  full * BlockSize <= start * BlockSize + BurstBytes(start, BurstEnd(start))
<1> USE FileAssumption, BlockSizeAssumption, WindowSizeAssumption
<1>1. BurstBytes(start, BurstEnd(start)) >= (full - start) * BlockSize
  <2>1. BurstEnd(start) \in Nat /\ LastBlock = FullBlocks + 1 /\ FullBlocks \in Nat
    BY DEF BurstEnd, LastBlock
  <2>2. (FullBlocks - start) * BlockSize \in Int /\ TailBytes \in Nat  BY <2>1
  <2>3. CASE BurstEnd(start) <= FullBlocks
    <3>1. BurstBytes(start, BurstEnd(start)) = (full - start) * BlockSize
      BY <2>3 DEF BurstBytes
    <3>2. (full - start) * BlockSize \in Int  OBVIOUS
    <3> QED  BY <3>1, <3>2
  <2>4. CASE ~(BurstEnd(start) <= FullBlocks)
    <3>1. BurstBytes(start, BurstEnd(start)) = (FullBlocks - start) * BlockSize + TailBytes
      BY <2>4 DEF BurstBytes
    <3>2. full = FullBlocks  BY <2>4
    <3> QED  BY <2>2, <3>1, <3>2
  <2> QED  BY <2>3, <2>4
<1>2. start * BlockSize + (full - start) * BlockSize = full * BlockSize  OBVIOUS
<1>3. start * BlockSize \in Int /\ (full - start) * BlockSize \in Int /\ full * BlockSize \in Int
  OBVIOUS
<1>4. BurstBytes(start, BurstEnd(start)) \in Int
  <2>1. BurstEnd(start) \in start .. BurstEnd(start)  BY DEF BurstEnd, LastBlock
  <2> QED  BY <2>1, BurstBytesNat
<1> QED  BY <1>1, <1>2, <1>3, <1>4

(* Products are monotone. *)
LEMMA ProductMonotone ==
  ASSUME NEW a \in Nat, NEW b \in Nat, NEW c \in Nat, a <= b
  PROVE  a * c <= b * c
<1>1. PICK d \in Nat : b = a + d
  <2>1. b - a \in Nat /\ b = a + (b - a)  OBVIOUS
  <2> QED  BY <2>1
<1>2. b * c = a * c + d * c  BY <1>1
<1>3. d * c \in Nat /\ a * c \in Nat  OBVIOUS
<1> QED  BY <1>2, <1>3

-----------------------------------------------------------------------------
(* What an iteration does about the counter: a burst, a DATA packet, or    *)
(* nothing.                                                                *)
NotCounted ==
  /\ stored' = stored /\ BytesHandled' = BytesHandled
  /\ alive' /\ SelectedOperation' = SERVER_TO_CLIENT
       => SelectedOperation = SERVER_TO_CLIENT /\ FirstBlockInWindow' = FirstBlockInWindow

(* A burst starts at the file's first block, or in or just after the       *)
(* window before.                                                          *)
Burst ==
  /\ SelectedOperation' = SERVER_TO_CLIENT
  /\ \E first \in 1 .. LastBlock :
       /\ \E error, retries, before : SMSG_DATA(first, error, retries, before)
       /\ \/ first = 1
          \/ /\ SelectedOperation = SERVER_TO_CLIENT
             /\ first >= FirstBlockInWindow
             /\ first <= FirstBlockInWindow + WindowSize

(* A handler that refuses its packet counts nothing. *)
LEMMA RefuseNotCounted ==
  ASSUME NEW error, Refuse(error) \/ Break(error)
  PROVE  NotCounted
BY DEF Refuse, Break, NotCounted

(* The request starts with the first block. *)
LEMMA CMSG_RRQ_Counts ==
  ASSUME CMSG_RRQ
  PROVE  NotCounted \/ Burst
<1>1. CASE UNCHANGED sessionVars  BY <1>1 DEF sessionVars, NotCounted
<1>2. CASE RefuseRequest  BY <1>2, RefuseNotCounted DEF RefuseRequest
<1>3. CASE /\ SelectedOperation' = SERVER_TO_CLIENT
           /\ \E r \in OptionReplies : SMSG_DATA(1, r.error, WindowRetryCount, r.oack)
  <2>1. 1 \in 1 .. LastBlock  BY FileAssumption DEF LastBlock
  <2> QED  BY <1>3, <2>1 DEF Burst
<1> QED  BY <1>1, <1>2, <1>3 DEF CMSG_RRQ

(* So does the request of an upload, which counts nothing. *)
LEMMA CMSG_WRQ_Counts ==
  ASSUME CMSG_WRQ
  PROVE  NotCounted
<1>1. CASE UNCHANGED sessionVars  BY <1>1 DEF sessionVars, NotCounted
<1>2. CASE RefuseRequest  BY <1>2, RefuseNotCounted DEF RefuseRequest
<1>3. CASE /\ SelectedOperation' = CLIENT_TO_SERVER
           /\ UNCHANGED <<WindowRetryCount, ReadDone, BytesHandled, filePos, stored>>
  BY <1>3 DEF NotCounted
<1> QED  BY <1>1, <1>2, <1>3 DEF CMSG_WRQ

(* An ACK inside the window opens the next one, unless the file is read to *)
(* its end.                                                                *)
LEMMA CMSG_ACK_Counts ==
  ASSUME SessionInv, alive, NEW m, m.block \in Block, CMSG_ACK(m)
  PROVE  NotCounted \/ Burst
<1> USE BlockModAssumption, WindowSizeAssumption, FileAssumption
<1>1. CASE Refuse(ERR_ILLEGAL_OPERATION)  BY <1>1, RefuseNotCounted
<1>2. CASE UNCHANGED sessionVars  BY <1>2 DEF sessionVars, NotCounted
<1>3. CASE /\ EndOfIteration(Error, TRUE, {})
           /\ UNCHANGED <<SelectedOperation, BlockNrInWindowReceived, WindowRetryCount,
                          ReadDone, BytesHandled, filePos, stored>>
  BY <1>3 DEF EndOfIteration, NotCounted
<1>4. CASE /\ SelectedOperation = SERVER_TO_CLIENT
           /\ InWindow(m.block)
           /\ ~ReadDone
           /\ SMSG_DATA(WindowAfterAck(m.block), Error, WindowRetryCount, {})
           /\ UNCHANGED SelectedOperation
  <2>1. FirstBlockInWindow \in Nat /\ m.block \in Nat  BY DEF SessionInv, TypeOK, Block
  <2>2. FirstBlockInWindow + WindowSize - 1 <= FullBlocks
    BY <1>4, <2>1 DEF SessionInv, LastBlock
  <2>3. /\ WindowAfterAck(m.block) \in 1 .. LastBlock
        /\ WindowAfterAck(m.block) >= FirstBlockInWindow
        /\ WindowAfterAck(m.block) <= FirstBlockInWindow + WindowSize
    BY <1>4, <2>1, <2>2 DEF InWindow, WindowAfterAck, LastBlock
  <2> QED  BY <1>4, <2>3 DEF Burst
<1> QED  BY <1>1, <1>2, <1>3, <1>4 DEF CMSG_ACK

(* A retry repeats the window. *)
LEMMA Timeout_Counts ==
  ASSUME SessionInv, Timeout
  PROVE  NotCounted \/ Burst
<1>1. CASE Break(Error)  BY <1>1, RefuseNotCounted
<1>2. CASE /\ SelectedOperation = SERVER_TO_CLIENT
           /\ SMSG_DATA(FirstBlockInWindow, Error, NextRetry, {})
           /\ UNCHANGED SelectedOperation
  <2>1. FirstBlockInWindow \in 1 .. LastBlock
    BY <1>2 DEF Timeout, SessionInv, ReadWindowInFile
  <2>2. /\ FirstBlockInWindow >= FirstBlockInWindow
        /\ FirstBlockInWindow <= FirstBlockInWindow + WindowSize
    BY <2>1, WindowSizeAssumption, FileAssumption DEF LastBlock
  <2> QED  BY <1>2, <2>1, <2>2 DEF Burst
<1>3. CASE /\ SelectedOperation = CLIENT_TO_SERVER
           /\ UNCHANGED <<SelectedOperation, ReadDone, BytesHandled, filePos, stored>>
  BY <1>3 DEF NotCounted
<1> QED  BY <1>1, <1>2, <1>3 DEF Timeout

-----------------------------------------------------------------------------
(* The three kinds of step keep what was counted. *)

(* A file that is left alone stays counted. *)
LEMMA SameFileCounted ==
  ASSUME SessionInv, StoredCounted, stored' = stored,
         BytesHandled' \in Nat, BytesHandled' >= BytesHandled
  PROVE  StoredCounted'
<1> DEFINE size == Cardinality(Filled(stored))
<1>1. /\ stored \in [1 .. BlockMod - 1 -> Nat]
      /\ BytesHandled \in Nat /\ ByteLimit \in Nat
  BY ConfigAssumption DEF SessionInv, TypeOK
<1>2. size \in Nat  BY <1>1, OneMoreFilled
<1>3. Cardinality(Filled(stored')) = size  OBVIOUS
<1>4. (TFTP_HEADER_SIZE + 1) * size <= BytesHandled
      /\ (TFTP_HEADER_SIZE + 1) * size <= ByteLimit
  BY DEF StoredCounted
<1> HIDE DEF size
<1>5. (TFTP_HEADER_SIZE + 1) * size <= BytesHandled'  BY <1>1, <1>2, <1>4
<1> QED  BY <1>3, <1>4, <1>5 DEF StoredCounted

(* Nothing is counted, nothing is stored. *)
LEMMA NotCountedStep ==
  ASSUME StoredCounted, SentCounted, alive, NotCounted
  PROVE  StoredCounted' /\ SentCounted'
<1>1. StoredCounted'  BY DEF StoredCounted, NotCounted
<1>2. SentCounted'  BY DEF SentCounted, SentUpTo, BurstEnd, LastBlock, NotCounted
<1> QED  BY <1>1, <1>2

(* SMSG_DATA counts what it sends; the session goes on only if all blocks  *)
(* were sent and the limit was not passed.                                 *)
LEMMA SMSG_DATA_Counts ==
  ASSUME NEW first, NEW error, NEW retries, NEW before,
         SMSG_DATA(first, error, retries, before)
  PROVE  \E last \in SeekTo(first) .. BurstEnd(SeekTo(first)) :
           /\ FirstBlockInWindow' = first
           /\ BytesHandled' = Count(BurstBytes(SeekTo(first), last))
           /\ stored' = stored
           /\ alive' => /\ last = BurstEnd(SeekTo(first))
                        /\ last > SeekTo(first)
                             => ~OverLimit(BytesHandled + BurstBytes(SeekTo(first), last))
<1> DEFINE start       == SeekTo(first)
           killed(l)   == l > start /\ OverLimit(BytesHandled + BurstBytes(start, l))
           complete(l) == l = BurstEnd(start) /\ ~killed(l)
           outcome(l)  == IF killed(l) THEN ERR_DISK_FULL
                          ELSE IF complete(l) THEN error ELSE ERR_UNDEFINED
           sent(l)     == before \cup {Data((first + b - start - 1) % BlockMod, b, BlockBytes(b))
                                         : b \in start + 1 .. l}
<1>1. PICK last \in start .. BurstEnd(start) :
        /\ FirstBlockInWindow' = first
        /\ BytesHandled' = Count(BurstBytes(start, last))
        /\ stored' = stored
        /\ EndOfIteration(outcome(last), FALSE, sent(last))
  BY DEF SMSG_DATA
<1> HIDE DEF start
<1>2. alive' => outcome(last) = NO_ERROR  BY <1>1 DEF EndOfIteration
<1>3. outcome(last) = NO_ERROR => complete(last)  OBVIOUS
<1> QED  BY <1>1, <1>2, <1>3 DEF start

(* A burst that is complete has counted the blocks it sent, and those      *)
(* before its first were counted in the windows before.                    *)
LEMMA BurstStep ==
  ASSUME SessionInv, ByteLimit # 0, StoredCounted, SentCounted, alive, Burst
  PROVE  StoredCounted' /\ SentCounted'
<1> USE BlockModAssumption, WindowSizeAssumption, FileAssumption, BlockSizeAssumption
<1>1. BytesHandled \in 0 .. ByteLimit + 1 /\ stored \in [1 .. BlockMod - 1 -> Nat]
  BY DEF SessionInv, TypeOK
<1>2. PICK first \in 1 .. LastBlock :
        /\ \E error, retries, before : SMSG_DATA(first, error, retries, before)
        /\ \/ first = 1
           \/ /\ SelectedOperation = SERVER_TO_CLIENT
              /\ first >= FirstBlockInWindow
              /\ first <= FirstBlockInWindow + WindowSize
  BY DEF Burst
<1>3. first \in Nat /\ LastBlock = FullBlocks + 1 /\ LastBlock \in Nat  BY DEF LastBlock
<1> DEFINE start == first - 1
<1>4. start \in Nat /\ start < LastBlock /\ SeekTo(first) = start
  BY <1>3 DEF SeekTo
<1>5. BurstEnd(start) \in Nat /\ BurstEnd(start) > start  BY <1>3, <1>4 DEF BurstEnd
<1>6. PICK error, retries, before : SMSG_DATA(first, error, retries, before)  BY <1>2
<1> HIDE DEF start
<1>7. PICK last \in start .. BurstEnd(start) :
        /\ FirstBlockInWindow' = first
        /\ BytesHandled' = Count(BurstBytes(start, last))
        /\ stored' = stored
        /\ alive' => /\ last = BurstEnd(start)
                     /\ last > start => ~OverLimit(BytesHandled + BurstBytes(start, last))
  BY <1>4, <1>6, SMSG_DATA_Counts
<1>8. ASSUME alive'
      PROVE  last = BurstEnd(start) /\ ~OverLimit(BytesHandled + BurstBytes(start, last))
  BY <1>4, <1>5, <1>7, <1>8
<1>9. BurstBytes(start, last) \in Nat  BY <1>4, BurstBytesNat
<1>10. BytesHandled' >= BytesHandled  BY <1>1, <1>7, <1>9, CountGrows
<1>11. BytesHandled' \in 0 .. ByteLimit + 1  BY <1>1, <1>7, <1>9, CountType
<1>12. BytesHandled' \in Nat  BY <1>11
<1>13. StoredCounted'  BY <1>7, <1>10, <1>12, SameFileCounted
<1>14. ASSUME alive'
       PROVE  SentUpTo(first) * BlockSize <= BytesHandled' /\ BytesHandled' <= ByteLimit
  <2>1. last = BurstEnd(start) /\ ~OverLimit(BytesHandled + BurstBytes(start, last))
    BY <1>14, <1>8
  <2>2. /\ BytesHandled' = BytesHandled + BurstBytes(start, last)
        /\ BytesHandled + BurstBytes(start, last) <= ByteLimit
    BY <1>1, <1>7, <1>9, <2>1, CountGrows
  <2>3. start * BlockSize <= BytesHandled
    <3>1. CASE first = 1
      <4>1. start * BlockSize = 0  BY <3>1 DEF start
      <4> QED  BY <1>1, <4>1
    <3>2. CASE /\ SelectedOperation = SERVER_TO_CLIENT
               /\ first <= FirstBlockInWindow + WindowSize
      <4>1. FirstBlockInWindow \in 1 .. LastBlock
        BY <3>2 DEF SessionInv, ReadWindowInFile
      <4>2. SentUpTo(FirstBlockInWindow) \in Nat /\ start <= SentUpTo(FirstBlockInWindow)
        BY <1>3, <1>4, <3>2, <4>1 DEF start, SentUpTo, BurstEnd
      <4>3. start * BlockSize <= SentUpTo(FirstBlockInWindow) * BlockSize
        BY <1>4, <4>2, ProductMonotone
      <4>4. SentUpTo(FirstBlockInWindow) * BlockSize <= BytesHandled
        BY <3>2 DEF SentCounted
      <4>5. /\ start * BlockSize \in Nat
            /\ SentUpTo(FirstBlockInWindow) * BlockSize \in Nat
        BY <1>4, <4>2
      <4> QED  BY <1>1, <4>3, <4>4, <4>5
    <3> QED  BY <1>2, <3>1, <3>2
  <2>4. SentUpTo(first) \in Nat /\ start <= SentUpTo(first)
    BY <1>3, <1>4, <1>5 DEF start, SentUpTo
  <2>5. SentUpTo(first) = IF BurstEnd(start) <= FullBlocks THEN BurstEnd(start) ELSE FullBlocks
    BY DEF start, SentUpTo
  <2>6. SentUpTo(first) * BlockSize <= start * BlockSize + BurstBytes(start, last)
    BY <1>4, <2>1, <2>4, <2>5, BurstBytesAtLeast
  <2>7. SentUpTo(first) * BlockSize \in Nat /\ start * BlockSize \in Nat
    BY <1>4, <2>4
  <2> QED  BY <1>1, <1>9, <2>2, <2>3, <2>6, <2>7
<1>15. SentCounted'
  BY <1>7, <1>14 DEF SentCounted, SentUpTo, BurstEnd, LastBlock
<1> QED  BY <1>13, <1>15

(* A DATA packet is counted before it is written. *)
LEMMA CMSG__DATA_Counts ==
  ASSUME SessionInv, ByteLimit # 0, StoredCounted, SentCounted, alive,
         NEW m, m.bytes \in Nat, CMSG__DATA(m)
  PROVE  StoredCounted' /\ SentCounted'
<1> DEFINE bytes == BytesHandled + TFTP_HEADER_SIZE + m.bytes
<1>1. BytesHandled \in 0 .. ByteLimit + 1 /\ stored \in [1 .. BlockMod - 1 -> Nat]
  BY DEF SessionInv, TypeOK
<1>2. ByteLimit \in Nat /\ Cardinality(Filled(stored)) \in Nat
  BY <1>1, ConfigAssumption, OneMoreFilled
<1>3. TFTP_HEADER_SIZE + m.bytes \in Nat /\ bytes = BytesHandled + (TFTP_HEADER_SIZE + m.bytes)
  BY <1>1, <1>2
<1>4. CASE Refuse(ERR_ILLEGAL_OPERATION)
  BY <1>4, RefuseNotCounted, NotCountedStep
<1>5. CASE /\ SelectedOperation = CLIENT_TO_SERVER
           /\ BytesHandled' = Saturate(bytes)
           /\ UNCHANGED <<SelectedOperation, FirstBlockInWindow, BlockNrInWindowReceived,
                          WindowRetryCount, ReadDone, filePos, stored>>
  <2>1. BytesHandled' >= BytesHandled /\ BytesHandled' \in Nat
    <3>1. BytesHandled' >= BytesHandled  BY <1>1, <1>3, <1>5, CountGrows
    <3>2. BytesHandled' \in 0 .. ByteLimit + 1  BY <1>1, <1>3, <1>5, CountType
    <3> QED  BY <3>1, <3>2
  <2>2. StoredCounted'  BY <1>5, <2>1, SameFileCounted
  <2> QED  BY <1>5, <2>2 DEF SentCounted
<1>6. CASE /\ SelectedOperation = CLIENT_TO_SERVER
           /\ BytesHandled' = Count(TFTP_HEADER_SIZE + m.bytes)
           /\ UNCHANGED <<alive, SelectedOperation, FirstBlockInWindow,
                          BlockNrInWindowReceived, WindowRetryCount, Error, ReadDone,
                          TransferDone, filePos, stored, toClient>>
  <2>1. BytesHandled' >= BytesHandled /\ BytesHandled' \in Nat
    <3>1. BytesHandled' >= BytesHandled  BY <1>1, <1>3, <1>6, CountGrows
    <3>2. BytesHandled' \in 0 .. ByteLimit + 1  BY <1>1, <1>3, <1>6, CountType
    <3> QED  BY <3>1, <3>2
  <2>2. StoredCounted'  BY <1>6, <2>1, SameFileCounted
  <2> QED  BY <1>6, <2>2 DEF SentCounted
<1>7. CASE /\ SelectedOperation = CLIENT_TO_SERVER
           /\ ~OverLimit(bytes)
           /\ BytesHandled' = Count(TFTP_HEADER_SIZE + m.bytes)
           /\ WriteBlock(m)
           /\ UNCHANGED <<SelectedOperation, ReadDone>>
  <2>0. SentCounted'  BY <1>7 DEF SentCounted
  <2>1. /\ BytesHandled' = BytesHandled + (TFTP_HEADER_SIZE + m.bytes)
        /\ BytesHandled + (TFTP_HEADER_SIZE + m.bytes) <= ByteLimit
    BY <1>1, <1>3, <1>7, CountGrows
  <2>2. CASE stored' = stored
    <3>1. BytesHandled' >= BytesHandled /\ BytesHandled' \in Nat
      BY <1>1, <1>3, <2>1
    <3> QED  BY <2>0, <2>2, <3>1, SameFileCounted
  <2>3. CASE m.bytes > 0 /\ \E p : stored' = [stored EXCEPT ![p] = m.content]
    <3>1. PICK p : stored' = [stored EXCEPT ![p] = m.content]  BY <2>3
    <3>2. /\ Cardinality(Filled(stored')) \in Nat
          /\ Cardinality(Filled(stored')) <= Cardinality(Filled(stored)) + 1
      BY <1>1, <3>1, OneMoreFilled
    <3>3. BytesHandled' >= BytesHandled + 5 /\ BytesHandled' <= ByteLimit
      BY <1>1, <1>2, <2>1, <2>3
    <3>4. 5 * Cardinality(Filled(stored)) <= BytesHandled  BY DEF StoredCounted
    <3>5. BytesHandled' \in Nat  BY <1>1, <1>3, <2>1
    <3>6. 5 * Cardinality(Filled(stored')) <= BytesHandled'
      BY <1>1, <1>2, <3>2, <3>3, <3>4, <3>5
    <3>7. 5 * Cardinality(Filled(stored')) <= ByteLimit
      BY <1>2, <3>2, <3>3, <3>5, <3>6
    <3>8. StoredCounted'  BY <3>2, <3>6, <3>7 DEF StoredCounted
    <3> QED  BY <2>0, <3>8
  <2>4. stored' = stored \/ (m.bytes > 0 /\ \E p : stored' = [stored EXCEPT ![p] = m.content])
    BY <1>7 DEF WriteBlock
  <2> QED  BY <2>2, <2>3, <2>4
<1> QED  BY <1>4, <1>5, <1>6, <1>7 DEF CMSG__DATA

-----------------------------------------------------------------------------
(* LimitInv is inductive. *)
LEMMA LimitStep ==
  ASSUME LimitInv, [SessionNext]_sessionVars
  PROVE  LimitInv'
<1>1. SessionInv  BY DEF LimitInv
<1>2. CASE UNCHANGED sessionVars
  <2>1. SessionInv'  BY <1>1, <1>2, Unchanged_Step
  <2> QED  BY <1>2, <2>1 DEF LimitInv, StoredCounted, SentCounted, SentUpTo, BurstEnd,
                             LastBlock, sessionVars
<1>3. CASE SessionNext
  <2>1. SessionInv'  BY <1>1, <1>3, SessionNext_Step
  <2>2. SUFFICES ASSUME ByteLimit # 0 PROVE StoredCounted' /\ SentCounted'
    BY <2>1 DEF LimitInv
  <2>3. StoredCounted /\ SentCounted  BY <2>2 DEF LimitInv
  <2>4. CASE alive /\ (NotCounted \/ Burst)
    BY <1>1, <2>2, <2>3, <2>4, NotCountedStep, BurstStep
  <2>5. CASE Timeout
    <3>1. alive  BY <2>5 DEF Timeout
    <3> QED  BY <1>1, <2>4, <2>5, <3>1, Timeout_Counts
  <2>6. ASSUME NEW m \in PeerPackets, ParsePacket(m)
        PROVE  StoredCounted' /\ SentCounted'
    <3>1. m \in PeerPacketType /\ alive  BY <2>6, PeerPacketsType DEF ParsePacket
    <3>2. CASE m.op = "RRQ" /\ CMSG_RRQ  BY <2>4, <3>1, <3>2, CMSG_RRQ_Counts
    <3>3. CASE m.op = "WRQ" /\ CMSG_WRQ  BY <2>4, <3>1, <3>3, CMSG_WRQ_Counts
    <3>4. CASE m.op = "ACK" /\ CMSG_ACK(m)
      <4>1. m.block \in Block  BY <3>1, <3>4 DEF PeerPacketType
      <4> QED  BY <1>1, <2>4, <3>1, <3>4, <4>1, CMSG_ACK_Counts
    <3>5. CASE m.op = "DATA" /\ CMSG__DATA(m)
      <4>1. m.bytes \in 0 .. BlockSize  BY <3>1, <3>5 DEF PeerPacketType
      <4>2. m.bytes \in Nat  BY <4>1
      <4> QED  BY <1>1, <2>2, <2>3, <3>1, <3>5, <4>2, CMSG__DATA_Counts
    <3>6. CASE \E error : Refuse(error)  BY <2>4, <3>1, <3>6, RefuseNotCounted
    <3> QED  BY <2>6, <3>2, <3>3, <3>4, <3>5, <3>6 DEF ParsePacket, CMSG_ERROR
  <2> QED  BY <1>3, <2>5, <2>6 DEF SessionNext
<1> QED  BY <1>2, <1>3

(* Nothing is stored or sent before the first packet. *)
LEMMA LimitInit ==
  ASSUME SessionInit
  PROVE  LimitInv
<1>1. SessionInv  BY SessionInit_Inv
<1>2. Filled(stored) = {}  BY DEF SessionInit, Filled
<1>3. Cardinality(Filled(stored)) = 0  BY <1>2, FS_EmptySet
<1>4. StoredCounted  BY <1>3, ConfigAssumption DEF StoredCounted, SessionInit
<1>5. SentCounted  BY DEF SentCounted, SessionInit
<1> QED  BY <1>1, <1>4, <1>5 DEF LimitInv

(* What is stored and what is sent was counted, whatever the peer sends.   *)
THEOREM LimitInvariant == SessionSpec => []LimitInv
BY LimitInit, LimitStep, PTL DEF SessionSpec

(* An upload stores no more blocks than fit into the byte limit.           *)
THEOREM SessionStoresWithinLimit == SessionSpec => []StoredWithinLimit
<1>1. LimitInv => StoredWithinLimit
  BY DEF LimitInv, StoredCounted, StoredWithinLimit, Filled
<1> QED  BY <1>1, LimitInvariant, PTL

(* With a limit, no offset given to fseek() lies above it. *)
THEOREM SessionSeeksWithinLimit == SessionSpec => []OffsetWithinLimit
<1>1. LimitInv => OffsetWithinLimit
  <2> SUFFICES ASSUME LimitInv, ByteLimit # 0, alive, SelectedOperation = SERVER_TO_CLIENT
               PROVE  (FirstBlockInWindow - 1) * BlockSize <= ByteLimit
    BY DEF OffsetWithinLimit
  <2> USE BlockSizeAssumption, WindowSizeAssumption, FileAssumption, ConfigAssumption
  <2>1. /\ FirstBlockInWindow \in 1 .. LastBlock
        /\ BytesHandled \in 0 .. ByteLimit + 1
    BY DEF LimitInv, SessionInv, ReadWindowInFile, TypeOK
  <2>2. /\ SentUpTo(FirstBlockInWindow) * BlockSize <= BytesHandled
        /\ BytesHandled <= ByteLimit
    BY DEF LimitInv, SentCounted
  <2>3. /\ FirstBlockInWindow - 1 \in Nat /\ SentUpTo(FirstBlockInWindow) \in Nat
        /\ FirstBlockInWindow - 1 <= SentUpTo(FirstBlockInWindow)
    BY <2>1 DEF SentUpTo, BurstEnd, LastBlock
  <2>4. (FirstBlockInWindow - 1) * BlockSize <= SentUpTo(FirstBlockInWindow) * BlockSize
    BY <2>3, ProductMonotone
  <2>5. /\ (FirstBlockInWindow - 1) * BlockSize \in Nat
        /\ SentUpTo(FirstBlockInWindow) * BlockSize \in Nat
    BY <2>3
  <2> QED  BY <2>1, <2>2, <2>4, <2>5
<1> QED  BY <1>1, LimitInvariant, PTL

=============================================================================
