# Formal model of the TFTP server

TLA+ modules, TLC configurations and TLAPS proofs for the TFTP server in `src/`
(C++, RFC 1350 with the `blksize`, `timeout`, `tsize` and `windowsize` options).
Paths below are relative to the repository root; line numbers are those of
`src/TFTP.cpp` unless a file is named.

## 1. The system

| Part | Source | State | Operations |
|---|---|---|---|
| Transfer session | `TFTP.h` `class TFTPSession`, `ThreadDirectComm`, `ParsePacket`, `CMSG_*`, `SMSG_*` | one `TFTPSession` object, its file, the datagrams it sent | receive a packet, time out, end |
| Option negotiation | `ParseOptions`, `SMSG_OACK` | `BlockSize`, `WindowSize`, `PacketTimeout` of the session, the OACK | parse the options of a request |
| Communication sockets | `CreateCommUDPSocket`, `NextPortToUse` | socket of each session, next port (shared) | bind, connect, retry |
| Listener and registry | `RunTFTPServer`, `IsDuplicateClientConnectionRequest`, start and end of `ThreadDirectComm` | `TransferCounter`, `ActiveClientList` (shared, not locked) | admit a request, register, deregister |
| AWS SQS relay | `AWSSQS.cpp` | list of relay sessions | packet arrived, session closed, callback |
| Configuration | `config.cpp`, `config.h`, `init.cfg` | `sConf`, constant after start | load a line |
| Logger | `Logger.cpp` | the log file | write a line |
| Platform shim | `pthread_win.cpp` | none | ticks, socket timeout, base64, guid |

**How they interact.** The listener receives the first packet of a client and
starts a thread (or, with `ReuseServerPortForComm`, runs it itself) for the
session. From then on the session talks to its client over its own connected
socket; it never talks to another session. Sessions and the listener share
`TransferCounter`, `ActiveClientList` and `NextPortToUse`, the files, and the list
of the relay. Each received packet is also handed to the relay. `sConf` is only
read after `InitConfig`.

**What is hard.** In a session: datagrams lost, duplicated and reordered; retries
and their counter; windows acknowledged in part; the end of the transfer seen by
each side at a different time; 16-bit block numbers; `send()` failing within a
window; a byte limit that also counts what is sent again. Between threads: the
unlocked counter, list and port. `PROJECT.json` lists each hazard at its line, with the
properties that would fail if it struck. A hazard that a property's hypothesis excludes
(`~overlapped`, `~failed`, `~wrapped`, a window of one block) has a note instead.

**What makes each part correct.**

* Session, download: every DATA packet carries the bytes of its number; the
  client's file is a prefix of the server's; the server is done only when the
  client is; every transfer ends.
* Session, upload: the stored file is a prefix of the client's, nothing is
  acknowledged before it is stored, nothing is stored beyond the limit.
* Options: a client that was told the terms is served on them, and they lie in
  the configured range.
* Sockets: each session owns the socket it uses; ports stay in the range.
* Listener: at most `ParallelTransfersMax` sessions, one per client; the list
  holds the clients of exactly the sessions that run.
* Relay: one relay session per socket, freed when the socket closes.

## 2. Modules

| Module | Models | Depends on |
|---|---|---|
| `TFTPSession` | one session and its thread, both directions, against any peer | |
| `Network` | the session's datagrams: sets that lose, duplicate and reorder | `TFTPSession` |
| `Download` | session + network + downloading client | `Network`, `FileTransfer` |
| `Upload` | session + network + uploading client | `Network`, `FileTransfer` |
| `FileTransfer` | the abstract promise of a transfer | |
| `TFTPSession_proofs`, `Download_proofs`, `Upload_proofs`, `SessionClock_proofs`, `Server_proofs`, `Registry_proofs`, `ByteLimit_proofs`, `Terms_proofs` | theorems about the module they are named for; `Registry_proofs` is about `Server`, `ByteLimit_proofs` about `TFTPSession`, `Terms_proofs` about `SessionClock` | TLAPS |
| `Threads` | the session threads' program counters, the settings they read | |
| `Registry` | the listener, `TransferCounter`, `ActiveClientList` | `Threads` |
| `CommPorts` | sockets, descriptors, the search for a port | `Threads` |
| `Server` | listener, registry, sockets and session threads together | `Registry`, `CommPorts` |
| `Options` | `ParseOptions`, the answers of the OACK and what fits into it | |
| `SessionClock` | when a session resends and gives up, by a 32-bit tick | `Options` |
| `MCServer`, `MCSessionClock` | symmetry and the proposed options, for TLC | |

There are three specifications, by what the code shares. A transfer
(`TFTPSession` and its compositions) touches only its own session, so it is
modelled one iteration at a time against its peer. What the threads share (counter,
list, next port, descriptors) is in `Server`, at single loads and stores, with
the whole transfer as one label. The timers and the options that set them are in
`SessionClock`, with the contents of packets left out.

### Session

A step of `TFTPSession` is one iteration of the loop of `ThreadDirectComm`
(lines 171-239): `ParsePacket(m)` is the handler of a received packet followed by
the tests of `Error` and `TransferDone`; `Timeout` is `recv()` timing out after
`PacketTimeout`, with the resend it triggers and the same tests. No other thread
reads or writes the session's state, so iterations are atomic. An iteration in
which `recv()` times out before `PacketTimeout` changes nothing and is a stutter.

The variables have the names of the fields of `TFTPSession`. The rest:
`alive` (the loop runs), `filePos` and `stored` (`hFile`'s position and an
upload's content), `toClient` (what was sent). Each handler is the operator of
its name, each of its early returns a disjunct. `EndOfIteration` is the end of the
loop body with `SMSG_Error`; `Break` is a `break` with nothing sent.

Abstractions:

* A full block of the file is its position. A file is `FullBlocks` full blocks and
  `TailBytes` more; `BlockBytes` is what `fread` returns for a block.
* `SMSG_DATA` sends a burst: `last` is the last block that went out. It is the
  end of the window or of the file, or an earlier block if `send()` fails, or the
  block that passes the byte limit. All three leave the loop as the code does.
* `BytesHandled` saturates at `ByteLimit + 1`; the code only compares it with the
  limit. Without a limit it is 0.
* An OACK is a single message; block and window size are constants of the
  session. A malformed option (`OptionReplies`) sets an error but does not stop
  the handler, as its result is ignored (lines 757, 923).
* A socket that could not be created or connected is a first `send()` that fails.
* `SHORT` is a packet its handler finds too small, `OTHER` has an unknown opcode.
* `malloc` does not fail; `fwrite` does not fail (a listed hazard).
* Both file offsets are `int` products. `WriteBlock` follows the one of an upload (line
  998): an offset above `INT_MAX` (`OffsetFits`) is a failed `fseek`, nobody looks, and
  `Position` is where the last write ended. (The low 32 bits of such a product are
  negative as long as it is below 2^32, which 65535 blocks of 65464 bytes are.) A write
  beyond `BlockMod - 1` blocks, which only blocks misplaced like this could reach, is a
  bound of the model. `SeekTo` takes the offset of a download (line 570) to fit: with a
  byte limit it does (`OffsetWithinLimit`), without one it does for files of up to
  `INT_MAX` bytes, and longer ones are not modelled.

### Network, clients

`toServer` and `toClient` are sets of datagrams. Receiving does not remove a
datagram, so it can arrive again and in any order; `Lose` removes one at any
time. The clients are not part of the repository: `Download`'s appends the block
it expects and may acknowledge what it has at any time, in particular again;
`Upload`'s sends any block of its window at any time and moves the window by the
ACKs. Both are what RFC 1350 and RFC 7440 clients do, with every timing.
`Download`'s client may abort with an ERROR packet, whose code can be 255, which the
server takes for `TFTP_ERR_NO_ERROR`.

### FileTransfer

Blocks 1 .. Total arrive in order, once each; the status becomes `complete` only
with all of them delivered but for `Slack`, or `failed`. `Download` implements it with
the client's file as `copy` and `Slack` one less than the window, which is what the
end test of `CMSG_ACK` is worth; `Upload`, with one block in the window, with the
stored file and no slack. The status is `ServerStatus`, what the end of the thread
shows.

### Server

`pc[s]` is the place of session `s`'s thread: before the loop of
`ThreadDirectComm` (`load_slot` to `store_inc`), in `CreateCommUDPSocket`
(`socket` to `fix_port`), in the loop (`transfer`), after it (`load_dec` to
`store_clear`), in the destructor (`delete`). `TransferCounter++`, `--` and the
indexing by it are a load and a store each, `loaded[s]` the register in between;
so is `NextPortToUse = (NextPortToUse + 1) % ...`, with `nextPort[s]`. The
duplicate scan loads the counter once for each entry, and an entry twice: to test
the pointer and to use it (lines 256-257). If the entry was cleared in between the
listener crashes (`Crash`).

* `ActiveClientList` has some memory around it, with indices below 0 and above
  the end: a wrong index writes there, as in the program. Its content is not
  initialised (`Other`); what such a pointer, or one to a deleted session, points
  to is left open.
* A descriptor is a number; `socket()` gives the lowest free one. `fds` says which
  session it was made for, so a number kept after `closesocket()` can be seen to
  mean another session's socket. `socket()`, `bind()` and `connect()` may fail at
  any time; a `bind()` to port 0 (the first one, if `NextPortToUse` was initialised
  before `sConf`) gets a port of the system's.
* Ports are not 0 and fit into 16 bits, and nothing else is assumed of them: `init.cfg`
  may give them in any order. That they fit is assumed; `InitConfig` does not check it.
* With `ReuseServerPortForComm` the listener runs the session itself and is at
  `session` until it ended; there is one thread then.
* `ServerIsRunning` is never changed in the code, so the listener never ends.
  `malloc` and `pthread_create` do not fail.

Auxiliary variables say what has happened: `overlapped`, two threads were in the
registry's code at once; `misplaced`, a session ended that did not have the last
entry of the list; `failed`, a socket call failed; `searched`, some thread stored a
next port. The properties say what the code keeps without these events; after
the first two it keeps neither the counter nor the list.

### Options and SessionClock

`Options` takes the request apart one option at a time, in any order, any number
of times: `TSize`, `TimeoutOption`, `BlkSize` and `WindowSizeOption` are the
branches of `ParseOptions`, each with its range, its effect and its answer. An
option that is out of range, unknown or switched off has no effect and is no step.
`LastRecvPacket` is the size of that buffer.

`Answer` is the `snprintf` of each branch. Two things can go wrong with it, and do in the
model. `realloc` (line 425) may have freed the packet that is being parsed: from an
accepted `blksize` on, its own name included, a name may be printed as anything (`Stale`);
that the options after it may be anything as well is no more than the model's client may
ask for. And `OackContent` has 518 bytes: `OackHolds` is the number of answers that
always fit, so one after these, or after a name of unknown length, may be cut (`cut`).
Its full length is added all the same, and what the next answer would then write behind
the buffer is undefined; no option is answered after a cut one, a bound of the model.
What a client makes of the OACK's bytes is not modelled: no value that ends an OACK has the
NUL that RFC 2347 asks for, as lines 403, 415, 426 and 440 add the number of characters
without it, and two answers run together.

A request with an option that lacks its value sets `Error` and answers nothing, but its
handler ignores what `ParseOptions` returns (lines 757, 923) and sends the first window or
ACK with the sizes accepted before the fault; `StartTransfer` is that step, and the error
ends the session after it.

`SessionClock` continues with the loop: `TimePasses` is one tick, modulo
`TickMod` (2^32 in the code); `recv()` returns nothing after `Second` ticks, or
earlier with an error; then the difference of the tick and `LastActivityStamp`
decides between `KeepWaiting`, `Resend` and `GiveUp`. A packet is answered, which
refreshes the stamp, or dropped, which only makes `recv()` wait anew. `elapsed`,
`silence` and `wrapped` are auxiliary: the ticks since the stamp was set and since a
packet came, and whether the tick has wrapped. When it wraps the difference is
negative, as the stamp is 64 bits wide and the comparison signed: a session
does not time out until the tick is back at the stamp, 49 days later, and never
for a stamp so high that stamp + timeout is beyond 2^32. The tick only goes forward: on
Linux `getTick` reads `CLOCK_REALTIME`, and that nobody sets this clock during a session
is an assumption of the model.

## 3. Properties

| Property | Why it is not obvious |
|---|---|
| `DataFaithful` | rewind, header number and a partly acknowledged window must agree for every resend |
| `ReadWindowInFile` | an ACK for a block beyond the short one would make the server send empty blocks, each an end of file |
| `WindowNeverMovesBack` | late packets, and numbers cut to 16 bits while `FirstBlockInWindow` is an `int` |
| `AckedBlocksWritten`, `AckedBlocksStored` | the count of entries and the window's start are separate pieces of state |
| `StoredWithinLimit` | the counter is bumped before several early returns |
| `DeliveredPrefix`, `StoredPrefix` | duplicates and late packets of either direction |
| `WindowWaitsForClient` | the window moves on any ACK inside it, however old |
| `CompletionSound`, `UploadCompletionSound`, `ClientSuccessSound` | each side decides the end by itself |
| `DownloadEnds`, `SilentUploadEnds`, `SilentDownloadEnds` | retries are counted in one place and reset in two |
| `DownloadIsFileTransfer`, `UploadIsFileTransfer` | refinement: order, completeness and end of a transfer together; for downloads with any window, all but `WindowSize - 1` blocks |
| `BlocksInPlace` | with a window, blocks are written by number, out of order and again; the offset is an `int` that may not fit and a `fseek` nobody checks |
| `OffsetWithinLimit` | the offset is computed in `int`; all that bounds it for a download is the byte limit, which counts blocks and headers as they are sent |
| `CounterExact`, `ListExact` | counter and list are changed in four places, indexed by the other; the last entry is cleared, whoever ends |
| `ParallelLimitOneByOne`, `DuplicatesRefused` | the listener reads what session threads write later |
| `ListAccessSafe` | the scan loads a pointer twice, threads index a `malloc` by a counter they share: what keeps both inside the list is the order of four stores |
| `NextPortCorrected` | the correction of the next port is a second, separate store that another thread can undo |
| `SocketOwned`, `SocketsAccountedFor` | numbers of closed sockets are kept, retried and closed again |
| `TermsAgreed` | options are repeated, clamped and capped, and answered one by one as they change the session; from the first DATA or ACK on, a client that was told must be served on the last answers |
| `BufferFits` | the buffer is resized by one option, written by `recv()` later |
| `ResendNotEarly`, `ResendNotLate` | three clocks: the socket's timeout, the stamp, the tick that wraps |
| `UploadDisconnects` | the retries add up to the negotiated time only if none is forgotten |

`SessionInv`, `OneBlockInv` and `DownloadInv` are the inductive invariants of
the proofs; TLC checks them as invariants.

## 4. Runs

| Run | Instance | Shows |
|---|---|---|
| `session_one_block` | window 1, block numbers mod 5, 2 full blocks + tail | all session properties against a peer that sends anything; an upload whose client fell silent ends |
| `session_window` | window 2, block numbers mod 10, blocks of 3 bytes, 8 full blocks + empty block, limit 23, `int` up to 23 | the invariants with a partly acknowledged window, a limit that is reached, how far offsets get, and which blocks are misplaced when they do not fit |
| `download_one_block` | window 1, mod 6, 2 blocks + tail, client may abort | prefix, completion, refinement, termination |
| `download_window` | window 2, mod 7, 3 blocks + empty block, limit 15 | the download invariant for windows, and the refinement with a slack of one block |
| `upload_one_block` | window 1, mod 5, 2 blocks + tail | prefix, ACK only after storing, completion, refinement |
| `server_threads` | 2 session objects, 2 clients, limit 1 or 2, 3 descriptors, ports 3 and 4 of 3..5, 2 attempts | registry, admission, ports and sockets under every interleaving of loads and stores |
| `negotiation` | timeouts 1..2, windows 2..3, at most 2 answers of which 1 always fits, a tick of 12 values, 2 per second, 2 retries | the terms of a transfer, and when it resends and gives up |

Five runs show statements of the source that do not hold of the code:

| Run | Statement | What happens |
|---|---|---|
| `download_window_completion` | line 812 "we received ACK for a packet that was not full" | `ReadDone` is tested, not the number: an ACK inside the last window closes the session, the client lacks the last block (and, as is proved, never more than `WindowSize - 1`) |
| `download_silent_client` | `config.h`:17 "After N retries we disconnect" | `SMSG_DATA` clears the counter it is called to count; with no byte limit the session never ends |
| `upload_empty_last_block` | line 1016 "Tell the client we received he's data block" | the entry of an empty block is its size, 0: it is acknowledged with the number before it |
| `upload_window` | `TFTP.h`:124 "We can ACK a window if all blocks got received within it" | entries are stored modulo the window, counted from the window's start: a lost block is acknowledged when its successor arrives |
| `server_parallel_transfers` | `config.h`:23 "Maximum number of transfers that can happen in parallel" | the listener tests `TransferCounter`, the new thread increments it later: a second request is admitted in between |

The instance of `upload_window` also violates `UploadCompletionSound`: a short
block that overtakes another of its window ends the upload (line 1010).

**Bounds.** Two or three full blocks and a short (or empty) one give a first, a
middle and a last block; a window of two is the smallest that can be
acknowledged in part, and with three blocks the last window can be full or not.
`session_window` has more, so that its limit is reached in a later window; `INT_MAX` is
such that the offset of block 8 still fits and that of block 9 does not, so blocks with
failed seeks are written among others. In the other runs every offset fits.
`BlockMod` stands for 2^16 and is small so that block
numbers wrap in `session_one_block`; the download runs keep it above the file, as the client's protocol needs.
`RetryMax` 2 or 3 lets a retry happen and run out. Limits are set so that the
third or later block passes them. Nothing else is bounded in the transfer
modules: the state spaces are finite and explored in full. `CHECK_DEADLOCK FALSE`
is set there since sessions end.

`server_threads`: two session objects are used again and again, so sessions start
and end in every order, and two suffice for each race (a thread against a thread,
against the listener). Two bounds are named in the modules: no session starts
after two threads have met in the registry's code (`StartSession`), and from
then on the behaviour is followed only until the listener's scan is over
(`OverlapBound`). The server in the code goes on, and its counter can drift further with
every meeting; that is not followed. What comes after a race is an arbitrary counter and
list, of which the other properties say nothing. Before that there is no bound: the search for ports, with its own races,
the failures of system calls and the reuse of descriptors run in full. Sessions
and clients are symmetric (`MCServer`); no property distinguishes one of them. The
state space has 4.8 million states.

`negotiation`: the proposals lie on both sides of each limit. Two answers
(`MaxAnswers`) let an option be answered twice or two options interfere, the second be cut
(`OackHolds` is 1) and a name come from freed memory; the
auxiliary counters saturate at `LongTime`, beyond every time the properties
mention. The tick wraps within the time a session needs to give up. 15.9 million
states.

**Fairness.**

* `WF(Timeout)`: `recv()` has a socket timeout (`SOCKET_TIMEOUT_SECONDS`) and the
  loop checks the time after each; a session nobody sends to reaches it.
* `SF` on receiving and on the client's steps (`DownloadEnds` only): the network
  may lose any datagram, not all copies of one that is sent again and again, and
  the client keeps acknowledging. `SilentDownloadEnds` and `SilentUploadEnds` assume no
  arrivals.
* `ServerSpec` and the specification of `SessionClock` have none: their properties
  are safety properties, the time that has passed being a counter.
* `SendsWork` restricts these to steps in which the session's error does not
  change: no property relies on `send()` failing in the end.

## 5. Proofs

`TFTPSession_proofs` proves `SessionSpec => []SessionInv` for every value of the
constants, hence `TypeOK`, `ReadWindowInFile` and `DataFaithful`, and the action
property `WindowNeverMovesBack`. There is one lemma per handler, over lemmas for
the two senders (`SMSG_DATA_Step`, `SMSG_ACK_Block_Step`) and for the end of an
iteration. The strengthening beyond the properties: a session that goes on has
no error, is not done and has an empty window; `ReadDone` holds exactly when the
window reaches the short block. The latter is what keeps the next burst inside
the file: with `ReadDone` no burst follows, without it an accepted ACK is below the
short block. For `WindowSize = 1` and a server that writes, `OneBlockInv` is
inductive as well: an ACK under way is never ahead of the window, the window only
moves forward, and the file is not behind it; hence `AckedBlocksWritten`. For larger
windows, `SessionStoresInPlace`: whatever the peer sends, a block at another's place has
an offset that does not fit into an `int`, since no other `fseek` fails.
`LongDownloadsNeverComplete` is what the 16 bits of a block number cost: if the number
of the short block is `BlockMod + WindowSize - 1` or more, the window that reaches it
starts where no ACK is, and no download of the file is ever taken for done.

`Download_proofs` assumes that every block has a number of its own
(`LastBlock < BlockMod`: beyond 65535 blocks the server stalls) and proves
`Spec => []DownloadInv` for every window size, hence `DeliveredPrefix` and
`WindowWaitsForClient`. The invariant adds to the session's that an ACK under way
is never above what the client has, and that the client has taken a short block
exactly when its file is complete. `Server_Step` is the one lemma about the server;
it takes the session's part from `ParsePacket_Step` and `Timeout_Step`. When the
server takes the transfer for done, the ACK was inside a window that reaches the short
block, so the client lacks less than a window (`CompletionWithinWindow`). From it
follow `Spec => DownloadIsFileTransfer` for every window, by a step simulation, and
`CompletionSound` for `WindowSize = 1`; the run `download_window_completion` shows that
the latter fails for two blocks.

`Upload_proofs` assumes `SmallUpload`: one block in the window, a server that writes
and, as for downloads, `LastBlock < BlockMod`. What the client sends is then among
what an arbitrary peer may send (`ServerIsSession`), so `OneBlockInv` comes from
`TFTPSession_proofs`. `UploadInv` adds that no DATA packet, however old, is more than
one block ahead of the window, since the client waits for the ACK of the block
before. A packet that is not dropped is therefore the block after the window, which
is the end of the file (`Block_Step`), and `StoredPrefix` grows by exactly that block.
From the invariant follow `AckedBlocksStored`, `UploadCompletionSound` and
`ClientSuccessSound`, and by a step simulation `Spec => UploadIsFileTransfer`. With a
larger window the code does not keep these promises (run `upload_window`). With
`TailBytes # 0`, `LastBlockAcked` follows as well; for an empty last block it is false
(run `upload_empty_last_block`). What any window keeps is `UploadStoresInPlace`: a place
of the file holds its block or a hole, since a block is written at the place its number
gives it (`PlacesInv`); with one block in the window it comes from `UploadInv`. And
`UploadAcksReceived`: the number of an ACK is at most that of the highest place stored,
as the window moves by one block at a time and only when a block beyond it was written
(`WindowFollows`). `AckedBlocksStored` fails for windows, but no further than that. Both
theorems assume `FileFits`: with more than one block in the window, every offset in the
file fits into an `int`. Without it they are false.

`ByteLimit_proofs` proves `SessionSpec => []LimitInv` for every file, window, block size
and limit: every place of the stored file was counted with its header and a byte at
least (`StoredCounted`), and a download that goes on has counted all full blocks up to
the end of its window (`SentCounted`). The latter needs that a burst starts no later
than just after the window before, so that the bytes of the two add up. Hence
`StoredWithinLimit` and `OffsetWithinLimit`.

`SessionClock_proofs` proves `Spec => []ClockInv` for every configuration, every
width of the tick and every number of ticks in a second. `StampInv` says what the
difference of tick and stamp is worth: at least the time that has passed as long
as the tick has not wrapped, and never more, so a resend is never early, wrapped or
not. `WaitInv`: when `recv()` was called less than a timeout had passed, or
something has been received since; hence a resend is late by a second at most.
`RetryInv`: every retry of an upload stands for a timeout and a second of silence at
most; with the bound on the retries this gives `UploadDisconnects`. The product
`WindowRetryCount * (Timeout + Second)` is kept opaque, with two lemmas about it.
`StampedTooLateStays` is the other side of the wrap: a stamp within a timeout of the
tick's end is never overtaken, so neither a retry nor the end of the session comes
before the next packet.

`Terms_proofs` proves `TermsInv` for any number of proposals in any order: each value in
use is that of the last answer to its option, or the default (an accepted option appends
the answer it sets and leaves the others' last answers where they were), unless an answer
was printed under a name from freed memory; and the OACK of a well-formed request, if it
was sent, holds all answers. Hence `TermsAgreed`, from the first DATA or ACK on. Its
hypothesis `Told` names the clients it is about: no option lacked its value, and the OACK
was sent, was not cut, and names its options right. The others are served as well, on
terms they do not know.

`Server_proofs` proves, for every number of sessions, clients, descriptors and
ports, `NextPortCorrected` (a thread that has stored a number is at the check, and
leaves it only with a number in the range or towards the correction) and
`SocketInv`. Its core, `OpenInv`: an open socket is the listener's, or its maker is a
session that still has its number and has met no error with it. A socket that is
closed by another session's stale number, or its number given away again, does not
disturb this, which is why `SocketsAccountedFor` holds even after failures.
`AloneInv` adds that with `ReuseServerPortForComm` there is one session at a time;
`SocketOwned` follows while nothing has failed.

`Registry_proofs` proves `RegistryInv`: `TransferCounter` is the number of sessions
between the store of `++` and the store of `--` (`CountInv`), with each thread's
register equal to it; the entries below it are these sessions, once each
(`ListInv`); the scan has passed none of the requester's (`ScanInv`). `WatchSees` turns
the auxiliary `overlapped` into "one thread at a time, and none during a scan". It
follows that `CounterExact`, `ListExact`, `ParallelLimitOneByOne` and `DuplicatesRefused`
hold for any number of sessions, not only the two of the run, while no two threads have
met in the registry's code. The assumptions are
that the sessions are finitely many and that a pointer to one is not NULL.

`AccessInv` is what is left of the list when sessions end out of order: every entry
below the counter is some session's, the entry at the counter is that of the session
about to increment it, and the scan is below the counter. A store goes to the entry at
the counter, before `++` and after `--`, so it is never below; with the limit on the
counter from `RegistryInv` this gives `ListAccessSafe`. `MemoryInv` is about the steps the
model still has after a race, within `StartSession` and `OverlapBound`: `Room` leaves, above the counter and above each value of it in a register, an
increment for each session that has one to come, and below it a decrement. A store
that brings back an old value gives back the room of that time, and the number of
increments and decrements to come only shrinks, as no session starts after the race.
With `SocketInv` it gives `ServerTypeOK`. That the counter stays in the model's memory is
thus owed to these bounds; it is not a promise about the server, whose counter can drift.

Only model-checked: liveness (`DownloadEnds`, `SilentUploadEnds`), since fairness and
ENABLED are out of the prover's reach. Every invariant and action property of a
passing run is stated by a theorem.

## 6. Not modelled, and the plan

Built: the session and its compositions, the server's threads, the negotiation and
the timers, and theorems about each.

Not modelled, and why:

* Files shared by sessions (line 913 opens without looking who else has the file),
  what an upload's file held before, and writes that fail (line 1001 ignores it):
  the code has no rule for any of them that could be checked.
* The AWS SQS relay: `GetCreateSession` never inserts what it creates, so the
  list is empty, every loop over it does nothing and there is no state; the
  memory lost is a listed hazard. What remains is formatting and the SDK.
  `base64_encode` and `create_guid` serve it only.
* What a client reads from an OACK whose strings lack their NULs, and what is written or
  sent from behind `OackContent` after an answer that did not fit.
* Downloads of more than `INT_MAX` bytes without a byte limit, whose offsets overflow
  (line 570), and uploads that grow beyond the block numbers by failed seeks.
* The server after the first time two threads have met in the registry's code: how far
  `TransferCounter` drifts when it goes on.
* A clock that is set while sessions run (`pthread_win.cpp`:65).
* The parser of `init.cfg` (string handling in one thread, before anything else
  runs); the values are constants with the assumptions the code needs, which
  `InitConfig` does not check.
* The logger (no state another part reads), `main` (straight-line), the AWS SDK and
  the build files. The `multicast` option, whose branch has no effect, and
  `PortPrefered`, which nothing sets.

## 7. Running

```
tlc -config Session_OneBlock.cfg TFTPSession
tlc -config Session_Window.cfg TFTPSession
tlc -config Download_OneBlock.cfg Download      # and the other Download_*.cfg
tlc -config Upload_OneBlock.cfg Upload          # and the other Upload_*.cfg
tlc -config Server_Threads.cfg MCServer         # about a minute
tlc -config Server_ParallelLimit.cfg MCServer
tlc -config Clock_Negotiation.cfg MCSessionClock
tlapm TFTPSession_proofs.tla
tlapm Download_proofs.tla
tlapm Upload_proofs.tla
tlapm ByteLimit_proofs.tla
tlapm SessionClock_proofs.tla
tlapm Terms_proofs.tla
tlapm Server_proofs.tla
tlapm Registry_proofs.tla
```

Operators named `X_...` with the comment "mutant" are faulty variants of `X`, one
for each way a property could be broken; `PROJECT.json` says which property each
must violate. They are used nowhere in the specifications.
