----------------------------- MODULE SessionClock -----------------------------
(***************************************************************************)
(* When a session resends and when it gives up: the options of its request *)
(* set PacketTimeout, and the loop of ThreadDirectComm compares ticks with *)
(* the stamp of the last activity each time recv() returns nothing, after  *)
(* a second at the latest.  The tick is 32 bits of milliseconds, the stamp *)
(* has 64 bits, and the difference is signed.  The tick is taken to go     *)
(* forward: where getTick() reads CLOCK_REALTIME, nobody sets that clock   *)
(* while the session runs.  What the packets contain is the subject of     *)
(* TFTPSession; here they are answered or dropped, or end the session.     *)
(***************************************************************************)
EXTENDS Options

CONSTANTS
  TickMod,   \* 2^32
  Second,    \* ticks in SOCKET_TIMEOUT_SECONDS
  RetryMax   \* sConf.RetryResendPacketMax

ASSUME ClockAssumption == /\ TickMod \in Nat \ {0}
                          /\ Second \in Nat \ {0}
                          /\ RetryMax \in Nat \ {0}

VARIABLES
  phase,               \* "options", "recv": in the loop, "ended"
  tick,                \* what getTick() returns
  LastActivityStamp,
  WindowRetryCount,
  waited,              \* ticks since recv() was called
  elapsed,             \* auxiliary: ticks since LastActivityStamp was set
  silence,             \* auxiliary: ticks since a packet arrived
  wrapped              \* auxiliary: the tick has wrapped since a packet was answered

clockVars == <<phase, tick, LastActivityStamp, WindowRetryCount, waited, elapsed, silence, wrapped>>
vars      == <<optionVars, clockVars>>

Timeout == PacketTimeout * Second

(* Bound: the auxiliary variables count up to here. *)
LongTime == (RetryMax * (ClientTimeoutSecMax + 1) + 1) * Second + 1

Count(t) == IF t < LongTime THEN t + 1 ELSE t

-----------------------------------------------------------------------------
(* SMSG_DATA, SMSG_ACK_Block: "Conside the socket status refreshed". *)
Refresh == LastActivityStamp' = tick /\ elapsed' = 0

Init ==
  /\ OptionsInit
  /\ phase = "options"
  /\ tick \in 0 .. TickMod - 1
  /\ LastActivityStamp = tick
  /\ WindowRetryCount = 0
  /\ waited = 0 /\ elapsed = 0 /\ silence = 0 /\ wrapped = FALSE

Negotiate == phase = "options" /\ ParseOption /\ UNCHANGED clockVars

(* The handler of the request does not look at what ParseOptions returned: *)
(* it sends the first window or ACK with the sizes that are set by now, and *)
(* the loop then looks at the error.                                       *)
StartTransfer ==
  /\ phase = "options"
  /\ EndOfOptions
  /\ phase' = IF Error' THEN "ended" ELSE "recv"
  /\ Refresh
  /\ UNCHANGED <<tick, WindowRetryCount, waited, silence, wrapped>>

TimePasses ==
  /\ phase = "recv"
  /\ waited < Second
  /\ tick' = (tick + 1) % TickMod
  /\ waited' = waited + 1
  /\ elapsed' = Count(elapsed)
  /\ silence' = Count(silence)
  /\ wrapped' = (wrapped \/ tick' = 0)
  /\ UNCHANGED <<phase, LastActivityStamp, WindowRetryCount, optionVars>>

(* A packet is answered: an ACK that moves the window, a block to store.   *)
PacketAnswered ==
  /\ phase = "recv"
  /\ Refresh
  /\ WindowRetryCount' = 0
  /\ waited' = 0 /\ silence' = 0 /\ wrapped' = FALSE
  /\ UNCHANGED <<phase, tick, optionVars>>

(* A packet is dropped: the time that has passed is not looked at.         *)
PacketDropped ==
  /\ phase = "recv"
  /\ waited' = 0 /\ silence' = 0
  /\ UNCHANGED <<phase, tick, LastActivityStamp, WindowRetryCount, elapsed, wrapped, optionVars>>

(* A packet ends the session, or a send() fails. *)
SessionEnds ==
  /\ phase = "recv"
  /\ phase' = "ended"
  /\ UNCHANGED <<tick, LastActivityStamp, WindowRetryCount, waited, elapsed, silence, wrapped,
                 optionVars>>

-----------------------------------------------------------------------------
(* recv() returns nothing: when it has waited a second, or before that with *)
(* an error, as when the client's host answered that its port is closed.    *)

TimePassed_OneMore  == tick - LastActivityStamp + 1           \* mutant
TimePassed_OneLess  == tick - LastActivityStamp - 1           \* mutant

TimePassed == tick - LastActivityStamp

KeepWaiting ==
  /\ phase = "recv"
  /\ TimePassed < Timeout
  /\ waited' = 0
  /\ UNCHANGED <<phase, tick, LastActivityStamp, WindowRetryCount, elapsed, silence, wrapped,
                 optionVars>>

GiveUp ==
  /\ phase = "recv"
  /\ TimePassed >= Timeout
  /\ WindowRetryCount + 1 >= RetryMax
  /\ phase' = "ended"
  /\ WindowRetryCount' = WindowRetryCount + 1
  /\ UNCHANGED <<tick, LastActivityStamp, waited, elapsed, silence, wrapped, optionVars>>

(* SMSG_DATA forgets the retries. *)
RetriesAfterResend_Forgets == 0   \* mutant

RetriesAfterResend ==
  IF SelectedOperation = "SERVER_TO_CLIENT" THEN 0 ELSE WindowRetryCount + 1

Resend ==
  /\ phase = "recv"
  /\ TimePassed >= Timeout
  /\ WindowRetryCount + 1 < RetryMax
  /\ WindowRetryCount' = RetriesAfterResend
  /\ Refresh
  /\ waited' = 0
  /\ UNCHANGED <<phase, tick, silence, wrapped, optionVars>>

Next == \/ Negotiate \/ StartTransfer
        \/ TimePasses \/ PacketAnswered \/ PacketDropped \/ SessionEnds
        \/ KeepWaiting \/ GiveUp \/ Resend

Spec == Init /\ [][Next]_vars

-----------------------------------------------------------------------------
ClockTypeOK ==
  /\ OptionsTypeOK
  /\ phase \in {"options", "recv", "ended"}
  /\ tick \in 0 .. TickMod - 1 /\ LastActivityStamp \in 0 .. TickMod - 1
  /\ WindowRetryCount \in 0 .. RetryMax
  /\ waited \in 0 .. Second
  /\ elapsed \in 0 .. LongTime /\ silence \in 0 .. LongTime
  /\ wrapped \in BOOLEAN

(* The client was told the terms: no option was malformed, the OACK was    *)
(* sent, if there was something to answer, and it holds its answers whole, *)
(* under their names.                                                      *)
Told == ~Error /\ ~oackFailed /\ ~cut /\ ~Garbled(sent)

(* From the first DATA or ACK on, a client that was told the terms is      *)
(* served on them: the session uses, of each option, what the OACK         *)
(* answered last, and the default of an option it did not answer.  The     *)
(* others are served too, on terms they do not know: CMSG_RRQ and CMSG_WRQ *)
(* ignore what ParseOptions returns, so that a request that is malformed   *)
(* after an accepted option gets a window with the new sizes before the    *)
(* error ends its session, and an OACK that is not sent, is cut or names   *)
(* its options wrong goes unnoticed.                                       *)
TermsAgreed ==
  phase # "options" /\ Told =>
    \A name \in DOMAIN Used :
      LET of == {i \in 1 .. Len(sent) : sent[i].name = name} IN
      Used[name] = IF of = {} THEN Default[name]
                   ELSE sent[CHOOSE i \in of : \A j \in of : j <= i].value

(* recv() writes BlockSize + TFTP_HEADER_SIZE bytes into LastRecvPacket    *)
(* and a handler a NUL after them.                                         *)
BufferFits == LastRecvPacket > BlockSize + TFTP_HEADER_SIZE

(* A window or an ACK is sent again PacketTimeout after the last, no       *)
(* sooner; also when the tick has wrapped.                                 *)
ResendNotEarly == [][Resend => elapsed >= Timeout]_vars

(* ... and no later than at the next return of recv(), unless packets that *)
(* are dropped keep arriving or the tick has wrapped.                      *)
ResendNotLate ==
  phase = "recv" /\ ~wrapped /\ elapsed >= Timeout + Second => silence <= Second

(* config.h: "After N retries we disconnect".  An upload whose client is   *)
(* silent ends after N times the negotiated timeout and a last wait of     *)
(* recv() for each, unless the tick wraps in the meantime: the difference  *)
(* is then negative, and the session stays until the tick is a timeout     *)
(* above the stamp again, or for good if there is no such tick.            *)
UploadDisconnects ==
  phase = "recv" /\ SelectedOperation = "CLIENT_TO_SERVER" /\ ~wrapped
    => silence <= RetryMax * (Timeout + Second)
=============================================================================
