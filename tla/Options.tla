------------------------------- MODULE Options -------------------------------
(***************************************************************************)
(* The options of a request: ParseOptions takes them one after the other,  *)
(* changes the session and collects the answers, which SMSG_OACK sends.    *)
(* The request's options are left open: any number of any options in any   *)
(* order.  An accepted blksize moves LastRecvPacket, and the rest of the   *)
(* packet is read from the memory it was in: the options after it may be   *)
(* any options as well, and a name printed into the answer may be anything *)
(* (Stale).  The answers have to fit into OackContent; what happens after  *)
(* one that does not is undefined.                                         *)
(***************************************************************************)
EXTENDS Integers, Sequences

CONSTANTS
  Proposals,            \* the options clients send that the server knows
  MaxAnswers,           \* bound on the options of a request that are answered
  OackHolds,            \* answers of any length OackContent has room for: 516 bytes, 17 each
  AllowTSizeOption,     \* sConf.AllowTSizeOption = 1
  FileSize,             \* the size of the file at hFile
  ClientTimeoutSecMin, ClientTimeoutSecMax,   \* of sConf, as the next two
  WindowSizeMin, WindowSizeMax

OptionNames == {"tsize", "timeout", "blksize", "windowsize"}
Stale       == "Stale"

ASSUME OptionsAssumption ==
  /\ Proposals \subseteq [name : OptionNames, value : Int]
  /\ OackHolds \in Nat
  /\ AllowTSizeOption \in BOOLEAN
  /\ FileSize \in Nat
  /\ ClientTimeoutSecMin \in 1 .. ClientTimeoutSecMax
  /\ WindowSizeMin \in 1 .. WindowSizeMax
  /\ ClientTimeoutSecMax \in Nat /\ WindowSizeMax \in Nat

VARIABLES
  SelectedOperation,
  BlockSize, PacketTimeout, WindowSize,
  LastRecvPacket,   \* the bytes malloc'ed or realloc'ed for it
  answers,          \* OackContent so far: a sequence of [name, value]
  cut,              \* its last answer did not fit; its length was added all the same
  sent,             \* the answers in the OACK that was sent
  oackFailed,       \* the OACK could not be sent
  Error             \* sess->Error is not TFTP_ERR_NO_ERROR

optionVars == <<SelectedOperation, BlockSize, PacketTimeout, WindowSize, LastRecvPacket, answers,
                cut, sent, oackFailed, Error>>

TFTP_DATA_BLOCK_SIZE   == 512
TFTP_HEADER_SIZE       == 4
TFTP_PACKET_SAFETY_PAD == 2

Capacity(size) == size + TFTP_HEADER_SIZE + TFTP_PACKET_SAFETY_PAD

(* The file is open while options are parsed. *)
Operations == {"CLIENT_TO_SERVER", "SERVER_TO_CLIENT"}

-----------------------------------------------------------------------------
(* ParseOptions *)

Garbled(list) == \E i \in 1 .. Len(list) : list[i].name = Stale

(* OptionName points into the packet that realloc() may have freed. *)
InFreedMemory(name) ==
  name = "blksize" \/ \E i \in 1 .. Len(answers) : answers[i].name \in {"blksize", Stale}

(* snprintf() cuts an answer that does not fit, as one may that comes after *)
(* OackHolds others or after a name of any length, and returns the length  *)
(* it would have had.                                                      *)
Answer(name, value) ==
  /\ \E printed \in {name} \cup (IF InFreedMemory(name) THEN {Stale} ELSE {}) :
       answers' = Append(answers, [name |-> printed, value |-> value])
  /\ \/ cut' = cut
     \/ (Len(answers) >= OackHolds \/ Garbled(answers')) /\ cut' = TRUE

(* The size of the file that will be sent; "wb" has made it 0 for an upload. *)
TSize(value) ==
  /\ AllowTSizeOption
  /\ Answer("tsize", IF value # 0 THEN value
                     ELSE IF SelectedOperation = "SERVER_TO_CLIENT" THEN FileSize ELSE 0)
  /\ UNCHANGED <<BlockSize, PacketTimeout, WindowSize, LastRecvPacket>>

Clamped(value) ==
  LET raised == IF value < ClientTimeoutSecMin THEN ClientTimeoutSecMin ELSE value
  IN  IF raised > ClientTimeoutSecMax THEN ClientTimeoutSecMax ELSE raised

(* mutant: answers what the client asked for *)
TimeoutOption_EchoesProposal(value) ==
  /\ value >= 1 /\ value <= 255
  /\ PacketTimeout' = Clamped(value)
  /\ Answer("timeout", value)
  /\ UNCHANGED <<BlockSize, WindowSize, LastRecvPacket>>

TimeoutOption(value) ==
  /\ value >= 1 /\ value <= 255
  /\ PacketTimeout' = Clamped(value)
  /\ Answer("timeout", PacketTimeout')
  /\ UNCHANGED <<BlockSize, WindowSize, LastRecvPacket>>

(* mutant: the buffer keeps its size *)
BlkSize_NoRealloc(value) ==
  /\ value >= 8 /\ value <= 65464
  /\ BlockSize' = value
  /\ Answer("blksize", BlockSize')
  /\ UNCHANGED <<PacketTimeout, WindowSize, LastRecvPacket>>

BlkSize(value) ==
  /\ value >= 8 /\ value <= 65464
  /\ BlockSize' = value
  /\ LastRecvPacket' = Capacity(BlockSize')
  /\ Answer("blksize", BlockSize')
  /\ UNCHANGED <<PacketTimeout, WindowSize>>

(* mutant: the larger window of the client is taken *)
WindowSizeOption_NoCap(value) ==
  /\ value >= 1 /\ value <= 65535 /\ value >= WindowSizeMin
  /\ WindowSize' = value
  /\ Answer("windowsize", WindowSize')
  /\ UNCHANGED <<BlockSize, PacketTimeout, LastRecvPacket>>

(* A window is made smaller, never larger; one below the least is refused. *)
WindowSizeOption(value) ==
  /\ value >= 1 /\ value <= 65535 /\ value >= WindowSizeMin
  /\ WindowSize' = IF value > WindowSizeMax THEN WindowSizeMax ELSE value
  /\ Answer("windowsize", WindowSize')
  /\ UNCHANGED <<BlockSize, PacketTimeout, LastRecvPacket>>

(* Options that are out of range, unknown or switched off, and multicast,  *)
(* are passed over: no step.  Bound: nothing is answered after a cut        *)
(* answer, where snprintf() would write behind OackContent.                *)
ParseOption ==
  /\ Len(answers) < MaxAnswers
  /\ ~cut
  /\ \E o \in Proposals :
       \/ o.name = "tsize" /\ TSize(o.value)
       \/ o.name = "timeout" /\ TimeoutOption(o.value)
       \/ o.name = "blksize" /\ BlkSize(o.value)
       \/ o.name = "windowsize" /\ WindowSizeOption(o.value)
  /\ UNCHANGED <<SelectedOperation, sent, oackFailed, Error>>

(* The end of the packet: what was answered is sent, a cut answer with     *)
(* what lies behind OackContent; a failure is only logged.                 *)
SMSG_OACK ==
  \/ sent' = answers /\ UNCHANGED oackFailed
  \/ answers # <<>> /\ oackFailed' = TRUE /\ UNCHANGED sent

(* A name without a value: ParseOptions returns at once, and nothing is    *)
(* answered.  Its caller goes on with what was accepted before it, and the *)
(* loop meets the error after the first window or ACK.                     *)
MissingValue == Error' = TRUE /\ UNCHANGED <<sent, oackFailed>>

EndOfOptions ==
  /\ \/ SMSG_OACK /\ UNCHANGED Error
     \/ MissingValue
  /\ UNCHANGED <<SelectedOperation, BlockSize, PacketTimeout, WindowSize, LastRecvPacket, answers, cut>>

(* TFTPSession::TFTPSession *)
OptionsInit ==
  /\ SelectedOperation \in Operations
  /\ BlockSize = TFTP_DATA_BLOCK_SIZE
  /\ PacketTimeout = ClientTimeoutSecMin
  /\ WindowSize = 1
  /\ LastRecvPacket = Capacity(TFTP_DATA_BLOCK_SIZE)
  /\ answers = <<>>
  /\ cut = FALSE
  /\ sent = <<>>
  /\ oackFailed = FALSE
  /\ Error = FALSE

-----------------------------------------------------------------------------
(* The value in use of an option, and that of a session without options.   *)
Used == [timeout |-> PacketTimeout, blksize |-> BlockSize, windowsize |-> WindowSize]
Default == [timeout |-> ClientTimeoutSecMin, blksize |-> TFTP_DATA_BLOCK_SIZE, windowsize |-> 1]

OptionsTypeOK ==
  /\ SelectedOperation \in Operations
  /\ BlockSize \in Nat /\ 8 <= BlockSize /\ BlockSize <= 65464
  /\ PacketTimeout \in ClientTimeoutSecMin .. ClientTimeoutSecMax
  /\ WindowSize \in 1 .. WindowSizeMax
  /\ LastRecvPacket \in Nat
  /\ answers \in Seq([name : OptionNames \cup {Stale}, value : Int])
  /\ cut \in BOOLEAN
  /\ sent \in {<<>>, answers}
  /\ oackFailed \in BOOLEAN /\ Error \in BOOLEAN
=============================================================================
