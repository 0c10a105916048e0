-------------------------- MODULE SessionClock_proofs --------------------------
(***************************************************************************)
(* Proofs about SessionClock: the sizes a session negotiates and when it   *)
(* resends and gives up, for every configuration and every width of the    *)
(* tick.                                                                   *)
(***************************************************************************)
EXTENDS SessionClock, TLAPS

USE OptionsAssumption, ClockAssumption

(* While recv() waits: a packet has come since it was called, or less than *)
(* a timeout had passed when it was called.                                *)
WaitInv ==
  phase = "recv" /\ ~wrapped => silence <= waited \/ elapsed < Timeout + waited

(* A silent upload: each retry stands for a timeout and a wait. *)
RetryInv ==
  phase = "recv" /\ SelectedOperation = "CLIENT_TO_SERVER" /\ ~wrapped
    => silence <= WindowRetryCount * (Timeout + Second) + elapsed

(* The difference of tick and stamp is the time that has passed, and less  *)
(* once the tick has wrapped.                                              *)
StampInv ==
  /\ ~wrapped => elapsed <= tick - LastActivityStamp
  /\ elapsed < LongTime => tick - LastActivityStamp <= elapsed

PhaseInv ==
  /\ phase = "options" =>
       sent = <<>> /\ waited = 0 /\ silence = 0 /\ elapsed = 0 /\ WindowRetryCount = 0
  /\ phase = "recv" => WindowRetryCount < RetryMax

SizeInv == LastRecvPacket = Capacity(BlockSize)

ClockInv == ClockTypeOK /\ SizeInv /\ PhaseInv /\ StampInv /\ WaitInv /\ RetryInv

-----------------------------------------------------------------------------
(* Arithmetic *)

(* A timeout is a positive number of ticks, and shorter than LongTime. *)
LEMMA TimeoutBounds ==
  ASSUME NEW timeout \in ClientTimeoutSecMin .. ClientTimeoutSecMax
  PROVE  timeout * Second \in Nat \ {0} /\ timeout * Second < LongTime
<1>1. /\ timeout \in Nat \ {0} /\ timeout <= ClientTimeoutSecMax
      /\ Second \in Nat \ {0} /\ RetryMax \in Nat \ {0} /\ ClientTimeoutSecMax \in Nat
  BY SMT DEF OptionsAssumption, ClockAssumption
<1>2. timeout * Second \in Nat \ {0}  BY <1>1, SMT
<1>3. timeout <= RetryMax * (ClientTimeoutSecMax + 1) + 1  BY <1>1, SMT
<1>4. timeout * Second <= (RetryMax * (ClientTimeoutSecMax + 1) + 1) * Second
  <2> DEFINE most == RetryMax * (ClientTimeoutSecMax + 1) + 1
  <2>1. most \in Nat  BY <1>1, SMT
  <2> HIDE DEF most
  <2>2. timeout * Second <= most * Second
    BY <1>1, <1>3, <2>1, SMT DEF most
  <2> QED  BY <2>2 DEF most
<1> QED  BY <1>1, <1>2, <1>4, SMT DEF LongTime

(* LongTime is a natural number. *)
LEMMA LongTimeNat == LongTime \in Nat
BY SMT DEF LongTime, OptionsAssumption, ClockAssumption

(* One tick: the next value, or 0. *)
LEMMA NextTick ==
  ASSUME NEW t \in 0 .. TickMod - 1
  PROVE  /\ (t + 1) % TickMod \in 0 .. TickMod - 1
         /\ (t + 1) % TickMod = t + 1 \/ (t + 1) % TickMod = 0
<1>1. TickMod \in Nat \ {0} /\ t \in Nat /\ t < TickMod  BY SMT DEF ClockAssumption
<1>2. CASE t + 1 < TickMod  BY <1>1, <1>2, SMT
<1>3. CASE t + 1 = TickMod  BY <1>1, <1>3, SMT
<1> QED  BY <1>1, <1>2, <1>3, SMT

(* A product with one more factor. *)
LEMMA OneMore ==
  ASSUME NEW n \in Nat, NEW x \in Nat
  PROVE  /\ n * x \in Nat /\ (n + 1) * x = n * x + x
BY SMT

LEMMA ProductMonotone ==
  ASSUME NEW m \in Nat, NEW n \in Nat, NEW x \in Nat, m <= n
  PROVE  m * x <= n * x
BY SMT

-----------------------------------------------------------------------------
(* The invariant *)

(* What the options leave behind, without the list of answers. *)
Sizes ==
  /\ BlockSize \in Nat /\ 8 <= BlockSize /\ BlockSize <= 65464
  /\ PacketTimeout \in ClientTimeoutSecMin .. ClientTimeoutSecMax
  /\ WindowSize \in 1 .. WindowSizeMax
  /\ LastRecvPacket \in Nat
  /\ LastRecvPacket = Capacity(BlockSize)

Answers == [name : OptionNames \cup {Stale}, value : Int]

(* An answer is added under its name, or under whatever was printed. *)
LEMMA AnswerAdds ==
  ASSUME NEW name \in OptionNames, NEW value \in Int, Answer(name, value)
  PROVE  \E printed \in {name, Stale} :
           answers' = Append(answers, [name |-> printed, value |-> value])
<1>1. PICK printed \in {name} \cup (IF InFreedMemory(name) THEN {Stale} ELSE {}) :
        answers' = Append(answers, [name |-> printed, value |-> value])
  BY Zenon DEF Answer
<1>2. printed \in {name, Stale}  BY <1>1, Zenon
<1> QED  BY <1>1, <1>2, Zenon

(* The list of answers keeps its type. *)
LEMMA AnswerTypes ==
  ASSUME answers \in Seq(Answers), cut \in BOOLEAN,
         NEW name \in OptionNames, NEW value \in Int, Answer(name, value)
  PROVE  answers' \in Seq(Answers) /\ cut' \in BOOLEAN
<1>1. PICK printed \in {name, Stale} :
        answers' = Append(answers, [name |-> printed, value |-> value])
  BY AnswerAdds
<1>2. [name |-> printed, value |-> value] \in Answers  BY <1>1 DEF Answers
<1>3. answers' \in Seq(Answers)  BY <1>1, <1>2
<1>4. cut' = cut \/ cut' = TRUE  BY Zenon DEF Answer
<1>5. cut' \in BOOLEAN  BY <1>4, Zenon
<1> QED  BY <1>3, <1>5

(* A session starts with it. *)
LEMMA InitClockInv == Init => ClockInv
<1> SUFFICES ASSUME Init PROVE ClockInv  OBVIOUS
<1> USE DEF Init
<1>1. Sizes
  BY SMT DEF OptionsInit, Sizes, TFTP_DATA_BLOCK_SIZE, Capacity, TFTP_HEADER_SIZE,
             TFTP_PACKET_SAFETY_PAD, OptionsAssumption
<1>2. OptionsTypeOK
  <2>1. answers \in Seq(Answers)  BY DEF OptionsInit
  <2>2. /\ SelectedOperation \in Operations /\ sent \in {<<>>, answers}
        /\ cut \in BOOLEAN /\ oackFailed \in BOOLEAN /\ Error \in BOOLEAN
    BY Zenon DEF OptionsInit
  <2> QED  BY <1>1, <2>1, <2>2 DEF OptionsTypeOK, Sizes, Answers
<1>3. ClockTypeOK
  <2>1. 0 \in 0 .. LongTime /\ 0 \in 0 .. RetryMax /\ 0 \in 0 .. Second
    BY LongTimeNat, SMT DEF ClockAssumption
  <2>2. phase \in {"options", "recv", "ended"} /\ wrapped \in BOOLEAN  BY Zenon
  <2> QED  BY <1>2, <2>1, <2>2 DEF ClockTypeOK
<1>4. SizeInv  BY <1>1 DEF SizeInv, Sizes
<1>5. PhaseInv  BY Zenon DEF PhaseInv, OptionsInit
<1>6. StampInv
  <2>1. tick - LastActivityStamp = 0  BY SMT DEF ClockAssumption
  <2> QED  BY <2>1, LongTimeNat, SMT DEF StampInv
<1>7. WaitInv /\ RetryInv  BY Zenon DEF WaitInv, RetryInv
<1> QED  BY <1>3, <1>4, <1>5, <1>6, <1>7 DEF ClockInv

(* An option that is accepted keeps the sizes in range and the buffer in   *)
(* step with the block size.                                               *)
LEMMA ParseOptionTypes ==
  ASSUME OptionsTypeOK, SizeInv, sent = <<>>, ParseOption
  PROVE  OptionsTypeOK' /\ SizeInv'
<1>1. PICK o \in Proposals :
        \/ o.name = "tsize" /\ TSize(o.value)
        \/ o.name = "timeout" /\ TimeoutOption(o.value)
        \/ o.name = "blksize" /\ BlkSize(o.value)
        \/ o.name = "windowsize" /\ WindowSizeOption(o.value)
  BY DEF ParseOption
<1>2. o.value \in Int  BY DEF OptionsAssumption
<1>3. UNCHANGED <<SelectedOperation, sent, oackFailed, Error>>  BY DEF ParseOption
<1>4. /\ Sizes /\ answers \in Seq(Answers)
      /\ SelectedOperation \in Operations
      /\ cut \in BOOLEAN /\ oackFailed \in BOOLEAN /\ Error \in BOOLEAN
  <2>1. Sizes  BY DEF OptionsTypeOK, SizeInv, Sizes
  <2>2. answers \in Seq(Answers)  BY DEF OptionsTypeOK, Answers
  <2>3. SelectedOperation \in Operations  BY DEF OptionsTypeOK
  <2>4. oackFailed \in BOOLEAN  BY DEF OptionsTypeOK
  <2>5. Error \in BOOLEAN  BY DEF OptionsTypeOK
  <2>6. cut \in BOOLEAN  BY DEF OptionsTypeOK
  <2> QED  BY <2>1, <2>2, <2>3, <2>4, <2>5, <2>6
<1>5. Sizes' /\ answers' \in Seq(Answers) /\ cut' \in BOOLEAN
  <2>1. CASE TSize(o.value)
    <3>1. Sizes'  BY <2>1, <1>4 DEF TSize, Sizes, Capacity
    <3>2. answers' \in Seq(Answers) /\ cut' \in BOOLEAN
      <4> DEFINE value == IF o.value # 0 THEN o.value
                          ELSE IF SelectedOperation = "SERVER_TO_CLIENT" THEN FileSize ELSE 0
      <4>1. value \in Int  BY <1>2, SMT DEF OptionsAssumption
      <4>2. Answer("tsize", value)  BY <2>1, Zenon DEF TSize
      <4> HIDE DEF value
      <4> QED  BY <1>4, <4>1, <4>2, AnswerTypes DEF OptionNames
    <3> QED  BY <3>1, <3>2
  <2>2. CASE TimeoutOption(o.value)
    <3>1. PacketTimeout' \in ClientTimeoutSecMin .. ClientTimeoutSecMax
      BY <2>2, <1>2, SMT DEF TimeoutOption, Clamped, OptionsAssumption
    <3>2. Sizes'  BY <2>2, <3>1, <1>4 DEF TimeoutOption, Sizes, Capacity
    <3>3. PacketTimeout' \in Int  BY <3>1, SMT DEF OptionsAssumption
    <3>4. answers' \in Seq(Answers) /\ cut' \in BOOLEAN
      <4>1. Answer("timeout", PacketTimeout')  BY <2>2 DEF TimeoutOption
      <4> QED  BY <1>4, <3>3, <4>1, AnswerTypes DEF OptionNames
    <3> QED  BY <3>2, <3>4
  <2>3. CASE BlkSize(o.value)
    <3>1. Sizes'
      BY <2>3, <1>2, <1>4, SMT DEF BlkSize, Sizes, Capacity, TFTP_HEADER_SIZE,
                                   TFTP_PACKET_SAFETY_PAD
    <3>2. answers' \in Seq(Answers) /\ cut' \in BOOLEAN
      <4>1. Answer("blksize", BlockSize')  BY <2>3 DEF BlkSize
      <4>2. BlockSize' \in Int  BY <3>1 DEF Sizes
      <4> QED  BY <1>4, <4>1, <4>2, AnswerTypes DEF OptionNames
    <3> QED  BY <3>1, <3>2
  <2>4. CASE WindowSizeOption(o.value)
    <3>1. WindowSize' \in 1 .. WindowSizeMax
      BY <2>4, <1>2, SMT DEF WindowSizeOption, OptionsAssumption
    <3>2. Sizes'  BY <2>4, <3>1, <1>4 DEF WindowSizeOption, Sizes, Capacity
    <3>3. WindowSize' \in Int  BY <3>1, SMT DEF OptionsAssumption
    <3>4. answers' \in Seq(Answers) /\ cut' \in BOOLEAN
      <4>1. Answer("windowsize", WindowSize')  BY <2>4 DEF WindowSizeOption
      <4> QED  BY <1>4, <3>3, <4>1, AnswerTypes DEF OptionNames
    <3> QED  BY <3>2, <3>4
  <2> QED  BY <1>1, <2>1, <2>2, <2>3, <2>4
<1>6. sent' \in {<<>>, answers'}  BY <1>3, Zenon
<1>7. OptionsTypeOK'  BY <1>3, <1>4, <1>5, <1>6 DEF OptionsTypeOK, Sizes, Answers
<1>8. SizeInv'  BY <1>5 DEF SizeInv, Sizes
<1> QED  BY <1>7, <1>8

(* What the steps below use of the invariant. *)
LEMMA TimerTypes ==
  ASSUME ClockInv
  PROVE  /\ LongTime \in Nat /\ TickMod \in Nat \ {0} /\ Second \in Nat \ {0}
         /\ RetryMax \in Nat \ {0}
         /\ Timeout \in Nat \ {0} /\ Timeout < LongTime
         /\ tick \in 0 .. TickMod - 1 /\ LastActivityStamp \in 0 .. TickMod - 1
         /\ WindowRetryCount \in 0 .. RetryMax /\ waited \in 0 .. Second
         /\ elapsed \in 0 .. LongTime /\ silence \in 0 .. LongTime
<1>1. PacketTimeout \in ClientTimeoutSecMin .. ClientTimeoutSecMax
  BY DEF ClockInv, ClockTypeOK, OptionsTypeOK
<1>2. Timeout \in Nat \ {0} /\ Timeout < LongTime  BY <1>1, TimeoutBounds DEF Timeout
<1>3. /\ tick \in 0 .. TickMod - 1 /\ LastActivityStamp \in 0 .. TickMod - 1
      /\ WindowRetryCount \in 0 .. RetryMax /\ waited \in 0 .. Second
      /\ elapsed \in 0 .. LongTime /\ silence \in 0 .. LongTime
  BY DEF ClockInv, ClockTypeOK
<1> QED  BY <1>2, <1>3, LongTimeNat DEF ClockAssumption

(* Nothing about the options changes in the loop. *)
LEMMA SameOptions ==
  ASSUME ClockInv, UNCHANGED optionVars
  PROVE  OptionsTypeOK' /\ SizeInv' /\ Timeout' = Timeout
<1>1. /\ OptionsTypeOK /\ SizeInv
  BY DEF ClockInv, ClockTypeOK
<1>2. /\ SelectedOperation' = SelectedOperation /\ BlockSize' = BlockSize
      /\ PacketTimeout' = PacketTimeout /\ WindowSize' = WindowSize
      /\ LastRecvPacket' = LastRecvPacket /\ answers' = answers /\ sent' = sent
      /\ cut' = cut /\ oackFailed' = oackFailed /\ Error' = Error
  BY DEF optionVars
<1>3. OptionsTypeOK'  BY <1>1, <1>2 DEF OptionsTypeOK
<1>4. SizeInv'  BY <1>1, <1>2 DEF SizeInv, Capacity
<1>5. Timeout' = Timeout  BY <1>2 DEF Timeout
<1> QED  BY <1>3, <1>4, <1>5

(* Counting stops at LongTime. *)
LEMMA CountTypes ==
  ASSUME NEW t \in 0 .. LongTime
  PROVE  /\ Count(t) \in 0 .. LongTime /\ Count(t) <= t + 1
         /\ Count(t) < LongTime => Count(t) = t + 1
BY LongTimeNat, SMT DEF Count

-----------------------------------------------------------------------------
(* One lemma for each action *)

(* The options are taken one by one before the loop. *)
LEMMA NegotiateStep == ClockInv /\ Negotiate => ClockInv'
<1> SUFFICES ASSUME ClockInv, Negotiate PROVE ClockInv'  OBVIOUS
<1>1. phase = "options" /\ ParseOption /\ UNCHANGED clockVars  BY DEF Negotiate
<1>2. OptionsTypeOK' /\ SizeInv'
  <2>1. OptionsTypeOK /\ SizeInv /\ sent = <<>>
    BY <1>1 DEF ClockInv, ClockTypeOK, PhaseInv
  <2> QED  BY <1>1, <2>1, ParseOptionTypes
<1>3. /\ phase' = phase /\ tick' = tick /\ LastActivityStamp' = LastActivityStamp
      /\ WindowRetryCount' = WindowRetryCount /\ waited' = waited /\ elapsed' = elapsed
      /\ silence' = silence /\ wrapped' = wrapped
  BY <1>1 DEF clockVars
<1>4. sent' = sent  BY <1>1 DEF ParseOption
<1>5. ClockTypeOK'  BY <1>2, <1>3 DEF ClockInv, ClockTypeOK
<1>6. PhaseInv'  BY <1>3, <1>4 DEF ClockInv, PhaseInv
<1>7. StampInv'  BY <1>3 DEF ClockInv, StampInv
<1>8. WaitInv' /\ RetryInv'  BY <1>1, <1>3 DEF WaitInv, RetryInv
<1> QED  BY <1>2, <1>5, <1>6, <1>7, <1>8 DEF ClockInv

(* The OACK is sent, or not; the first packet refreshes the stamp. *)
LEMMA StartStep == ClockInv /\ StartTransfer => ClockInv'
<1> SUFFICES ASSUME ClockInv, StartTransfer PROVE ClockInv'  OBVIOUS
<1>1. /\ phase = "options" /\ phase' \in {"recv", "ended"}
      /\ LastActivityStamp' = tick /\ elapsed' = 0
      /\ tick' = tick /\ WindowRetryCount' = WindowRetryCount /\ waited' = waited
      /\ silence' = silence /\ wrapped' = wrapped
  BY DEF StartTransfer, Refresh
<1>2. sent = <<>> /\ waited = 0 /\ silence = 0 /\ WindowRetryCount = 0
  BY <1>1 DEF ClockInv, PhaseInv
<1>3. /\ SelectedOperation' = SelectedOperation /\ BlockSize' = BlockSize
      /\ PacketTimeout' = PacketTimeout /\ WindowSize' = WindowSize
      /\ LastRecvPacket' = LastRecvPacket /\ answers' = answers /\ cut' = cut
  BY DEF StartTransfer, EndOfOptions
<1>4. OptionsTypeOK /\ SizeInv  BY DEF ClockInv, ClockTypeOK
<1>5. OptionsTypeOK'
  <2>1. sent' \in {<<>>, answers'}
    BY <1>2, <1>3 DEF StartTransfer, EndOfOptions, SMSG_OACK, MissingValue
  <2>2. oackFailed \in BOOLEAN  BY <1>4 DEF OptionsTypeOK
  <2>3. oackFailed' \in BOOLEAN
    BY <2>2 DEF StartTransfer, EndOfOptions, SMSG_OACK, MissingValue
  <2>4. Error \in BOOLEAN  BY <1>4 DEF OptionsTypeOK
  <2>5. Error' \in BOOLEAN
    BY <2>4 DEF StartTransfer, EndOfOptions, SMSG_OACK, MissingValue
  <2> QED  BY <1>3, <1>4, <2>1, <2>3, <2>5 DEF OptionsTypeOK
<1>6. SizeInv'  BY <1>3, <1>4 DEF SizeInv, Capacity
<1>7. ClockTypeOK'
  <2>1. elapsed' \in 0 .. LongTime  BY <1>1, LongTimeNat, SMT
  <2> QED  BY <1>1, <1>5, <2>1 DEF ClockInv, ClockTypeOK
<1>8. PhaseInv'  BY <1>1, <1>2, SMT DEF PhaseInv, ClockAssumption
<1>9. StampInv'
  <2>1. tick' - LastActivityStamp' = 0  BY <1>1, TimerTypes, SMT
  <2> QED  BY <1>1, <2>1, SMT DEF StampInv
<1>10. WaitInv'  BY <1>1, <1>2, SMT DEF WaitInv
<1>11. RetryInv'
  <2>1. (Timeout + Second)' \in Nat  BY <1>3, TimerTypes, SMT DEF Timeout
  <2>2. WindowRetryCount' * (Timeout + Second)' = 0  BY <1>1, <1>2, <2>1, SMT
  <2> QED  BY <1>1, <1>2, <2>2, SMT DEF RetryInv
<1> QED  BY <1>6, <1>7, <1>8, <1>9, <1>10, <1>11 DEF ClockInv

(* A tick: the difference grows with the time, or the tick wraps. *)
LEMMA TimePassesStep == ClockInv /\ TimePasses => ClockInv'
<1> SUFFICES ASSUME ClockInv, TimePasses PROVE ClockInv'  OBVIOUS
<1> USE TimerTypes
<1>1. /\ phase = "recv" /\ waited < Second
      /\ tick' = (tick + 1) % TickMod /\ waited' = waited + 1
      /\ elapsed' = Count(elapsed) /\ silence' = Count(silence)
      /\ wrapped' = (wrapped \/ tick' = 0)
      /\ phase' = phase /\ LastActivityStamp' = LastActivityStamp
      /\ WindowRetryCount' = WindowRetryCount /\ UNCHANGED optionVars
  BY DEF TimePasses
<1>2. OptionsTypeOK' /\ SizeInv' /\ Timeout' = Timeout  BY <1>1, SameOptions
<1>3. /\ elapsed' \in 0 .. LongTime /\ elapsed' <= elapsed + 1
      /\ elapsed' < LongTime => elapsed' = elapsed + 1
  BY <1>1, CountTypes
<1>4. /\ silence' \in 0 .. LongTime /\ silence' <= silence + 1
  BY <1>1, CountTypes
<1>5. tick' \in 0 .. TickMod - 1 /\ (tick' = tick + 1 \/ tick' = 0)  BY <1>1, NextTick
<1>6. wrapped' \in BOOLEAN  BY <1>1, Zenon
<1>7. ~wrapped' => ~wrapped /\ tick' = tick + 1  BY <1>1, <1>5, Zenon
<1>8. ClockTypeOK'
  <2>1. waited' \in 0 .. Second  BY <1>1, SMT
  <2> QED  BY <1>1, <1>2, <1>3, <1>4, <1>5, <1>6, <2>1 DEF ClockInv, ClockTypeOK
<1>9. PhaseInv'  BY <1>1 DEF ClockInv, PhaseInv
<1>10. StampInv'
  <2>1. ASSUME ~wrapped' PROVE elapsed' <= tick' - LastActivityStamp'
    <3>1. elapsed <= tick - LastActivityStamp  BY <2>1, <1>7 DEF ClockInv, StampInv
    <3> QED  BY <1>1, <1>3, <1>7, <2>1, <3>1, SMT
  <2>2. ASSUME elapsed' < LongTime PROVE tick' - LastActivityStamp' <= elapsed'
    <3>1. elapsed' = elapsed + 1 /\ elapsed < LongTime  BY <1>3, <2>2, SMT
    <3>2. tick - LastActivityStamp <= elapsed  BY <3>1 DEF ClockInv, StampInv
    <3> QED  BY <1>1, <1>5, <3>1, <3>2, SMT
  <2> QED  BY <2>1, <2>2 DEF StampInv
<1>11. WaitInv'
  <2> SUFFICES ASSUME ~wrapped'
               PROVE  silence' <= waited' \/ elapsed' < Timeout' + waited'
    BY DEF WaitInv
  <2>1. silence <= waited \/ elapsed < Timeout + waited  BY <1>1, <1>7 DEF ClockInv, WaitInv
  <2> QED  BY <1>1, <1>2, <1>3, <1>4, <2>1, SMT
<1>12. RetryInv'
  <2> SUFFICES ASSUME SelectedOperation' = "CLIENT_TO_SERVER", ~wrapped'
               PROVE  silence' <= WindowRetryCount' * (Timeout' + Second) + elapsed'
    BY DEF RetryInv
  <2>1. SelectedOperation = "CLIENT_TO_SERVER"  BY <1>1 DEF optionVars
  <2>2. silence <= WindowRetryCount * (Timeout + Second) + elapsed
    BY <1>1, <1>7, <2>1 DEF ClockInv, RetryInv
  <2> DEFINE before == WindowRetryCount * (Timeout + Second)
  <2>3. before \in Nat  BY OneMore
  <2> HIDE DEF before
  <2>4. silence <= before + elapsed  BY <2>2 DEF before
  <2>5. LongTime \in Nat /\ elapsed \in 0 .. LongTime /\ silence \in 0 .. LongTime
    BY TimerTypes
  <2>6. CASE elapsed' < LongTime
    <3>1. elapsed' = elapsed + 1  BY <1>3, <2>6
    <3>2. silence' <= before + elapsed'  BY <1>4, <2>3, <2>4, <2>5, <3>1, SMT
    <3> QED  BY <1>1, <1>2, <3>2 DEF before
  <2>7. CASE ~(elapsed' < LongTime)
    <3>1. elapsed' = LongTime  BY <1>3, <2>5, <2>7, SMT
    <3>2. silence' <= before + elapsed'  BY <1>4, <2>3, <2>5, <3>1, SMT
    <3> QED  BY <1>1, <1>2, <3>2 DEF before
  <2> QED  BY <2>6, <2>7
<1> QED  BY <1>2, <1>8, <1>9, <1>10, <1>11, <1>12 DEF ClockInv

(* An answer sets everything back. *)
LEMMA PacketAnsweredStep == ClockInv /\ PacketAnswered => ClockInv'
<1> SUFFICES ASSUME ClockInv, PacketAnswered PROVE ClockInv'  OBVIOUS
<1>1. /\ phase = "recv" /\ phase' = phase /\ tick' = tick /\ LastActivityStamp' = tick
      /\ elapsed' = 0 /\ WindowRetryCount' = 0 /\ waited' = 0 /\ silence' = 0
      /\ wrapped' = FALSE /\ UNCHANGED optionVars
  BY DEF PacketAnswered, Refresh
<1>2. OptionsTypeOK' /\ SizeInv' /\ Timeout' = Timeout  BY <1>1, SameOptions
<1>3. ClockTypeOK'
  <2>1. 0 \in 0 .. LongTime /\ 0 \in 0 .. RetryMax /\ 0 \in 0 .. Second
    BY TimerTypes, SMT
  <2>2. wrapped' \in BOOLEAN  BY <1>1, Zenon
  <2> QED  BY <1>1, <1>2, <2>1, <2>2 DEF ClockInv, ClockTypeOK
<1>4. PhaseInv'  BY <1>1, TimerTypes, SMT DEF PhaseInv
<1>5. StampInv'
  <2>1. tick' - LastActivityStamp' = 0  BY <1>1, TimerTypes, SMT
  <2> QED  BY <1>1, <2>1, SMT DEF StampInv
<1>6. WaitInv'  BY <1>1, SMT DEF WaitInv
<1>7. RetryInv'
  <2>1. 0 * (Timeout + Second) = 0  BY TimerTypes, SMT
  <2> QED  BY <1>1, <1>2, <2>1, SMT DEF RetryInv
<1> QED  BY <1>2, <1>3, <1>4, <1>5, <1>6, <1>7 DEF ClockInv

(* A packet that is dropped only lets recv() wait again. *)
LEMMA PacketDroppedStep == ClockInv /\ PacketDropped => ClockInv'
<1> SUFFICES ASSUME ClockInv, PacketDropped PROVE ClockInv'  OBVIOUS
<1> USE TimerTypes
<1>1. /\ phase = "recv" /\ waited' = 0 /\ silence' = 0 /\ phase' = phase /\ tick' = tick
      /\ LastActivityStamp' = LastActivityStamp /\ WindowRetryCount' = WindowRetryCount
      /\ elapsed' = elapsed /\ wrapped' = wrapped /\ UNCHANGED optionVars
  BY DEF PacketDropped
<1>2. OptionsTypeOK' /\ SizeInv' /\ Timeout' = Timeout  BY <1>1, SameOptions
<1>3. ClockTypeOK'
  <2>1. 0 \in 0 .. LongTime /\ 0 \in 0 .. Second  BY SMT
  <2> QED  BY <1>1, <1>2, <2>1 DEF ClockInv, ClockTypeOK
<1>4. PhaseInv'  BY <1>1 DEF ClockInv, PhaseInv
<1>5. StampInv'  BY <1>1 DEF ClockInv, StampInv
<1>6. WaitInv'  BY <1>1, SMT DEF WaitInv
<1>7. RetryInv'
  <2>1. WindowRetryCount * (Timeout + Second) \in Nat  BY OneMore
  <2>2. 0 <= WindowRetryCount' * (Timeout' + Second) + elapsed'  BY <1>1, <1>2, <2>1, SMT
  <2> QED  BY <1>1, <2>2 DEF RetryInv
<1> QED  BY <1>2, <1>3, <1>4, <1>5, <1>6, <1>7 DEF ClockInv

(* Of a session that has ended only types remain to be shown. *)
LEMMA EndedStep ==
  ASSUME ClockInv, phase' = "ended", WindowRetryCount' \in 0 .. RetryMax,
         UNCHANGED <<tick, LastActivityStamp, waited, elapsed, silence, wrapped, optionVars>>
  PROVE  ClockInv'
<1>1. /\ tick' = tick /\ LastActivityStamp' = LastActivityStamp /\ waited' = waited
      /\ elapsed' = elapsed /\ silence' = silence /\ wrapped' = wrapped
      /\ UNCHANGED optionVars
  OBVIOUS
<1>2. OptionsTypeOK' /\ SizeInv' /\ Timeout' = Timeout  BY <1>1, SameOptions
<1>3. ClockTypeOK'  BY <1>1, <1>2 DEF ClockInv, ClockTypeOK
<1>4. PhaseInv' /\ WaitInv' /\ RetryInv'  BY DEF PhaseInv, WaitInv, RetryInv
<1>5. StampInv'  BY <1>1 DEF ClockInv, StampInv
<1> QED  BY <1>2, <1>3, <1>4, <1>5 DEF ClockInv

(* recv() is called again: less than a timeout has passed. *)
LEMMA KeepWaitingStep == ClockInv /\ KeepWaiting => ClockInv'
<1> SUFFICES ASSUME ClockInv, KeepWaiting PROVE ClockInv'  OBVIOUS
<1> USE TimerTypes
<1>1. /\ phase = "recv" /\ TimePassed < Timeout /\ waited' = 0 /\ phase' = phase
      /\ tick' = tick /\ LastActivityStamp' = LastActivityStamp
      /\ WindowRetryCount' = WindowRetryCount /\ elapsed' = elapsed /\ silence' = silence
      /\ wrapped' = wrapped /\ UNCHANGED optionVars
  BY DEF KeepWaiting
<1>2. OptionsTypeOK' /\ SizeInv' /\ Timeout' = Timeout  BY <1>1, SameOptions
<1>3. ClockTypeOK'
  <2>1. 0 \in 0 .. Second  BY SMT
  <2> QED  BY <1>1, <1>2, <2>1 DEF ClockInv, ClockTypeOK
<1>4. PhaseInv'  BY <1>1 DEF ClockInv, PhaseInv
<1>5. StampInv'  BY <1>1 DEF ClockInv, StampInv
<1>6. WaitInv'
  <2>1. ASSUME ~wrapped PROVE elapsed < Timeout
    <3>1. elapsed <= tick - LastActivityStamp  BY <2>1 DEF ClockInv, StampInv
    <3> QED  BY <1>1, <3>1, SMT DEF TimePassed
  <2> QED  BY <1>1, <1>2, <2>1, SMT DEF WaitInv
<1>7. RetryInv'
  <2>1. SelectedOperation' = SelectedOperation  BY <1>1 DEF optionVars
  <2> QED  BY <1>1, <1>2, <2>1 DEF ClockInv, RetryInv
<1> QED  BY <1>2, <1>3, <1>4, <1>5, <1>6, <1>7 DEF ClockInv

(* The count of an upload stands for the time of one more round. *)
LEMMA ResendStep == ClockInv /\ Resend => ClockInv'
<1> SUFFICES ASSUME ClockInv, Resend PROVE ClockInv'  OBVIOUS
<1> USE TimerTypes
<1>1. /\ phase = "recv" /\ WindowRetryCount + 1 < RetryMax
      /\ WindowRetryCount' = RetriesAfterResend
      /\ LastActivityStamp' = tick /\ elapsed' = 0 /\ waited' = 0
      /\ phase' = phase /\ tick' = tick /\ silence' = silence /\ wrapped' = wrapped
      /\ UNCHANGED optionVars
  BY DEF Resend, Refresh
<1>2. OptionsTypeOK' /\ SizeInv' /\ Timeout' = Timeout  BY <1>1, SameOptions
<1>3. WindowRetryCount' \in Nat /\ WindowRetryCount' < RetryMax
  BY <1>1, SMT DEF RetriesAfterResend
<1>4. ClockTypeOK'
  <2>1. 0 \in 0 .. LongTime /\ 0 \in 0 .. Second  BY SMT
  <2>2. WindowRetryCount' \in 0 .. RetryMax  BY <1>3, SMT
  <2> QED  BY <1>1, <1>2, <2>1, <2>2 DEF ClockInv, ClockTypeOK
<1>5. PhaseInv'  BY <1>1, <1>3 DEF PhaseInv
<1>6. StampInv'
  <2>1. tick' - LastActivityStamp' = 0  BY <1>1, SMT
  <2> QED  BY <1>1, <2>1, SMT DEF StampInv
<1>7. WaitInv'  BY <1>1, <1>2, SMT DEF WaitInv
<1>8. RetryInv'
  <2> SUFFICES ASSUME SelectedOperation' = "CLIENT_TO_SERVER", ~wrapped'
               PROVE  silence' <= WindowRetryCount' * (Timeout' + Second) + elapsed'
    BY DEF RetryInv
  <2>1. SelectedOperation = "CLIENT_TO_SERVER" /\ ~wrapped  BY <1>1 DEF optionVars
  <2>2. WindowRetryCount' = WindowRetryCount + 1  BY <1>1, <2>1 DEF RetriesAfterResend
  <2> DEFINE round == Timeout + Second
             before == WindowRetryCount * round
  <2>3. round \in Nat /\ before \in Nat /\ (WindowRetryCount + 1) * round = before + round
    <3>1. round \in Nat  BY SMT
    <3> HIDE DEF round
    <3> QED  BY <3>1, OneMore
  <2>4. silence <= before + elapsed  BY <1>1, <2>1 DEF ClockInv, RetryInv
  <2>5. silence <= waited \/ elapsed < Timeout + waited
    BY <1>1, <2>1 DEF ClockInv, WaitInv
  <2>6. waited <= Second /\ round = Timeout + Second  BY SMT
  <2> HIDE DEF round, before
  <2>7. silence <= before + round  BY <2>3, <2>4, <2>5, <2>6, SMT
  <2>8. WindowRetryCount' * (Timeout' + Second) = before + round
    BY <1>2, <2>2, <2>3 DEF round
  <2> QED  BY <1>1, <2>3, <2>7, <2>8, SMT
<1> QED  BY <1>2, <1>4, <1>5, <1>6, <1>7, <1>8 DEF ClockInv

-----------------------------------------------------------------------------
(* Every step keeps the invariant. *)
LEMMA NextClockInv == ClockInv /\ [Next]_vars => ClockInv'
<1> SUFFICES ASSUME ClockInv, [Next]_vars PROVE ClockInv'  OBVIOUS
<1>1. CASE Negotiate  BY <1>1, NegotiateStep
<1>2. CASE StartTransfer  BY <1>2, StartStep
<1>3. CASE TimePasses  BY <1>3, TimePassesStep
<1>4. CASE PacketAnswered  BY <1>4, PacketAnsweredStep
<1>5. CASE PacketDropped  BY <1>5, PacketDroppedStep
<1>6. CASE SessionEnds
  <2>1. WindowRetryCount' \in 0 .. RetryMax  BY <1>6, TimerTypes DEF SessionEnds
  <2> QED  BY <1>6, <2>1, EndedStep DEF SessionEnds
<1>7. CASE KeepWaiting  BY <1>7, KeepWaitingStep
<1>8. CASE GiveUp
  <2>1. WindowRetryCount < RetryMax  BY <1>8 DEF GiveUp, ClockInv, PhaseInv
  <2>2. WindowRetryCount' \in 0 .. RetryMax  BY <1>8, <2>1, TimerTypes, SMT DEF GiveUp
  <2> QED  BY <1>8, <2>2, EndedStep DEF GiveUp
<1>9. CASE Resend  BY <1>9, ResendStep
<1>10. CASE UNCHANGED vars
  <2>1. /\ UNCHANGED optionVars /\ phase' = phase /\ tick' = tick
        /\ LastActivityStamp' = LastActivityStamp /\ WindowRetryCount' = WindowRetryCount
        /\ waited' = waited /\ elapsed' = elapsed /\ silence' = silence
        /\ wrapped' = wrapped
    BY <1>10 DEF vars, clockVars
  <2>2. OptionsTypeOK' /\ SizeInv' /\ Timeout' = Timeout  BY <2>1, SameOptions
  <2>3. sent' = sent /\ SelectedOperation' = SelectedOperation  BY <2>1 DEF optionVars
  <2>4. ClockTypeOK'  BY <2>1, <2>2 DEF ClockInv, ClockTypeOK
  <2>5. PhaseInv' /\ StampInv'  BY <2>1, <2>3 DEF ClockInv, PhaseInv, StampInv
  <2>6. WaitInv' /\ RetryInv'  BY <2>1, <2>2, <2>3 DEF ClockInv, WaitInv, RetryInv
  <2> QED  BY <2>2, <2>4, <2>5, <2>6 DEF ClockInv
<1> QED  BY <1>1, <1>2, <1>3, <1>4, <1>5, <1>6, <1>7, <1>8, <1>9, <1>10 DEF Next

(* The inductive invariant holds for every set of proposals, every         *)
(* configuration and every width of the tick.                              *)
THEOREM ClockInvariant == Spec => []ClockInv
BY InitClockInv, NextClockInv, PTL DEF Spec

(* The session's sizes and timers keep their types. *)
THEOREM ClockTypes == Spec => []ClockTypeOK
<1>1. ClockInv => ClockTypeOK  BY DEF ClockInv
<1> QED  BY <1>1, ClockInvariant, PTL

(* recv() never writes behind LastRecvPacket, whichever blksize was taken. *)
THEOREM BufferAlwaysFits == Spec => []BufferFits
<1>1. ClockInv => BufferFits
  <2> SUFFICES ASSUME ClockInv PROVE BufferFits  OBVIOUS
  <2>1. BlockSize \in Nat /\ LastRecvPacket = Capacity(BlockSize)
    BY DEF ClockInv, ClockTypeOK, OptionsTypeOK, SizeInv
  <2> QED  BY <2>1, SMT DEF BufferFits, Capacity, TFTP_HEADER_SIZE, TFTP_PACKET_SAFETY_PAD
<1> QED  BY <1>1, ClockInvariant, PTL

(* A resend comes no sooner than the negotiated timeout, wrap or not. *)
THEOREM ResendsNotEarly == Spec => ResendNotEarly
<1>1. ClockInv /\ [Next]_vars => [Resend => elapsed >= Timeout]_vars
  <2> SUFFICES ASSUME ClockInv, Resend PROVE elapsed >= Timeout  OBVIOUS
  <2>1. tick - LastActivityStamp >= Timeout  BY DEF Resend, TimePassed
  <2>2. elapsed < LongTime => tick - LastActivityStamp <= elapsed
    BY DEF ClockInv, StampInv
  <2> QED  BY <2>1, <2>2, TimerTypes, SMT
<1> QED  BY <1>1, ClockInvariant, PTL DEF Spec, ResendNotEarly

(* ... and no later than a second after it, while nothing is dropped and   *)
(* the tick does not wrap.                                                 *)
THEOREM ResendsNotLate == Spec => []ResendNotLate
<1>1. ClockInv => ResendNotLate
  <2> SUFFICES ASSUME ClockInv, phase = "recv", ~wrapped, elapsed >= Timeout + Second
               PROVE  silence <= Second
    BY DEF ResendNotLate
  <2>1. silence <= waited \/ elapsed < Timeout + waited  BY DEF ClockInv, WaitInv
  <2> QED  BY <2>1, TimerTypes, SMT
<1> QED  BY <1>1, ClockInvariant, PTL

(* An upload whose client is silent is gone after RetryMax rounds. *)
THEOREM UploadsDisconnect == Spec => []UploadDisconnects
<1>1. ClockInv => UploadDisconnects
  <2> SUFFICES ASSUME ClockInv, phase = "recv", SelectedOperation = "CLIENT_TO_SERVER",
                      ~wrapped
               PROVE  silence <= RetryMax * (Timeout + Second)
    BY DEF UploadDisconnects
  <2> USE TimerTypes
  <2> DEFINE round == Timeout + Second
             before == WindowRetryCount * round
  <2>1. round \in Nat /\ before \in Nat /\ (WindowRetryCount + 1) * round = before + round
    <3>1. round \in Nat  BY SMT
    <3> HIDE DEF round
    <3> QED  BY <3>1, OneMore
  <2>2. WindowRetryCount + 1 <= RetryMax  BY SMT DEF ClockInv, PhaseInv
  <2>3. (WindowRetryCount + 1) * round <= RetryMax * round
    <3>1. WindowRetryCount + 1 \in Nat  BY SMT
    <3> HIDE DEF round
    <3> QED  BY <2>1, <2>2, <3>1, ProductMonotone
  <2>4. silence <= before + elapsed  BY DEF ClockInv, RetryInv
  <2>5. silence <= waited \/ elapsed < Timeout + waited  BY DEF ClockInv, WaitInv
  <2>6. waited <= Second /\ round = Timeout + Second  BY SMT
  <2>7. RetryMax * round \in Nat  BY <2>1, OneMore
  <2> HIDE DEF round, before
  <2>8. silence <= before + round  BY <2>1, <2>4, <2>5, <2>6, SMT
  <2>9. silence <= RetryMax * round  BY <2>1, <2>3, <2>7, <2>8, SMT
  <2> QED  BY <2>9 DEF round
<1> QED  BY <1>1, ClockInvariant, PTL

-----------------------------------------------------------------------------
(* The tick that wraps *)

(* The last activity was so shortly before the tick wraps that no tick is  *)
(* a timeout later.                                                        *)
StampedTooLate == phase = "recv" /\ LastActivityStamp + Timeout >= TickMod

(* Such a session has no timer: it neither resends nor gives up, whatever  *)
(* time passes and however often the tick wraps, until a packet comes that *)
(* is answered or ends it.  "After N retries we disconnect" (config.h)     *)
(* fails for an upload, too, then.                                         *)
THEOREM StampedTooLateStays ==
  Spec => [][StampedTooLate => \/ StampedTooLate' /\ UNCHANGED <<LastActivityStamp, WindowRetryCount>>
                               \/ PacketAnswered \/ SessionEnds]_vars
<1>1. ClockInv /\ [Next]_vars
        => [StampedTooLate => \/ StampedTooLate' /\ UNCHANGED <<LastActivityStamp, WindowRetryCount>>
                              \/ PacketAnswered \/ SessionEnds]_vars
  <2> SUFFICES ASSUME ClockInv, Next, StampedTooLate, ~PacketAnswered, ~SessionEnds
               PROVE  StampedTooLate' /\ UNCHANGED <<LastActivityStamp, WindowRetryCount>>
    OBVIOUS
  <2>1. phase = "recv" /\ LastActivityStamp + Timeout >= TickMod  BY DEF StampedTooLate
  <2>2. TimePassed < Timeout
    <3>1. tick < TickMod  BY TimerTypes, SMT
    <3> QED  BY <2>1, <3>1, TimerTypes, SMT DEF TimePassed
  <2>3. TimePasses \/ PacketDropped \/ KeepWaiting
    <3>1. ~(TimePassed >= Timeout)  BY <2>2, TimerTypes, SMT DEF TimePassed
    <3> QED  BY <2>1, <3>1 DEF Next, Negotiate, StartTransfer, GiveUp, Resend
  <2>4. /\ phase' = phase /\ LastActivityStamp' = LastActivityStamp
        /\ WindowRetryCount' = WindowRetryCount /\ UNCHANGED optionVars
    BY <2>3 DEF TimePasses, PacketDropped, KeepWaiting
  <2>5. Timeout' = Timeout  BY <2>4, SameOptions
  <2> QED  BY <2>1, <2>4, <2>5 DEF StampedTooLate
<1> QED  BY <1>1, ClockInvariant, PTL DEF Spec
=============================================================================
