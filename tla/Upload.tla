-------------------------------- MODULE Upload --------------------------------
(***************************************************************************)
(* An upload: a session of the server, an RFC 1350 / RFC 7440 client and   *)
(* the network between them.  The client is not in                         *)
(* src/: once the server answered its request it sends the blocks of its   *)
(* window, as often and in whatever order it likes, and moves the window   *)
(* to the block after the one the server acknowledged.                     *)
(***************************************************************************)
EXTENDS Network

VARIABLES
  started,    \* the client has seen ACK 0 or an OACK
  acked       \* the last block the client knows to be acknowledged

clientVars == <<started, acked>>
vars       == <<netVars, clientVars>>

Least(a, b) == IF a < b THEN a ELSE b

-----------------------------------------------------------------------------
Init ==
  /\ NetworkInit(Request("WRQ"))
  /\ started = FALSE
  /\ acked = 0

ClientStart ==
  /\ ~started
  /\ toClient \cap {Ack(0), Oack} # {}
  /\ started' = TRUE
  /\ UNCHANGED <<netVars, acked>>

ClientWindow == acked + 1 .. Least(acked + WindowSize, LastBlock)

ClientSend ==
  /\ started
  /\ \E k \in ClientWindow : ClientSends(Data(k % BlockMod, k, BlockBytes(k)))
  /\ UNCHANGED clientVars

ClientReceiveAck ==
  /\ started
  /\ \E k \in ClientWindow : Ack(k % BlockMod) \in toClient /\ acked' = k
  /\ UNCHANGED <<netVars, started>>

Next ==
  \/ ServerReceive /\ UNCHANGED clientVars
  \/ ServerTimeout /\ UNCHANGED clientVars
  \/ Lose /\ UNCHANGED clientVars
  \/ ClientStart
  \/ ClientSend
  \/ ClientReceiveAck

Spec == Init /\ [][Next]_vars

-----------------------------------------------------------------------------
(* TFTPSession's variables have their types, so have the client's. *)
UploadTypeOK ==
  /\ TypeOK
  /\ toServer \subseteq [op : {"WRQ"}]
                          \cup [op : {"DATA"}, block : Block, content : Nat, bytes : 0 .. BlockSize]
  /\ started \in BOOLEAN
  /\ acked \in 0 .. LastBlock

(* With one block in the window the server's file is a prefix of the       *)
(* client's: no packet that is late or arrives twice is written twice, or  *)
(* at the wrong place, although CMSG__DATA writes where the last write     *)
(* ended.                                                                  *)
StoredPrefix ==
  \A p \in DOMAIN stored : stored[p] = IF p <= filePos THEN p ELSE Hole

(* The blocks of the file that have bytes. *)
LastFilled == IF TailBytes = 0 THEN FullBlocks ELSE LastBlock

(* TFTP.h: "We can ACK a window if all blocks got received within it".     *)
(* The server acknowledges a block only when it has stored every block up  *)
(* to that one.                                                            *)
AckedBlocksStored ==
  \A a \in toClient : a.op = "ACK" => \A p \in 1 .. a.block : stored[p] = p

(* "we are done receiving data from client": the file is whole by then.    *)
UploadCompletionSound == TransferDone => \A p \in 1 .. LastFilled : stored[p] = p

(* The client takes its upload for done when its last block is             *)
(* acknowledged; the server has the whole file by then.                    *)
ClientSuccessSound == acked = LastBlock => \A p \in 1 .. LastFilled : stored[p] = p

(* What makes these inductive when the window is one block and LastBlock is *)
(* below BlockMod: what the client sends is at most one block ahead of the *)
(* server's window, as it waits for the ACK of the block before, and the   *)
(* file ends where the last block that has bytes ends.                     *)
ClientPackets == {Request("WRQ")} \cup {Data(k, k, BlockBytes(k)) : k \in 1 .. LastBlock}

UploadInv ==
  /\ OneBlockInv
  /\ SelectedOperation # SERVER_TO_CLIENT
  /\ toServer \subseteq ClientPackets
  /\ \A d \in toServer : d.op = "DATA" => d.block <= FirstBlockInWindow + 1
  /\ started \in BOOLEAN
  /\ acked \in 0 .. LastBlock /\ acked <= FirstBlockInWindow
  /\ StoredPrefix
  /\ filePos <= LastFilled
  /\ TransferDone => filePos = LastFilled

(* An upload is a file transfer to the server. *)
FT == INSTANCE FileTransfer
        WITH Total <- LastFilled, Slack <- 0,
             copy <- [p \in 1 .. filePos |-> stored[p]], status <- ServerStatus

UploadIsFileTransfer == FT!Spec

(* "Tell the client we received he's data block": the handler that takes   *)
(* the last block acknowledges it, unless send() fails.                    *)
LastBlockAcked ==
  [][TransferDone' /\ ~TransferDone /\ Error' = NO_ERROR => Ack(LastBlock) \in toClient']_vars

=============================================================================
