----------------------------- MODULE Terms_proofs -----------------------------
(***************************************************************************)
(* Proofs about the terms a session negotiates: for any options in any     *)
(* order, the values in use are those of the last answers, unless one was  *)
(* answered under a wrong name or did not fit, and a client that was told  *)
(* the terms is served on them.                                            *)
(***************************************************************************)
EXTENDS SessionClock_proofs

(* The places of a list at which an option is answered. *)
AnswersTo(list, name) == {i \in 1 .. Len(list) : list[i].name = name}

(* `value` is what the list answers last for an option, or the default.    *)
Agreed(list, name, value) ==
  \/ AnswersTo(list, name) = {} /\ value = Default[name]
  \/ \E i \in AnswersTo(list, name) :
       /\ \A j \in AnswersTo(list, name) : j <= i
       /\ value = list[i].value

(* The terms in use follow the answers while options are parsed, as far as *)
(* they are answered under their names, and the OACK of a request that is  *)
(* well-formed is made of all of them, or was not sent.                    *)
TermsInv ==
  /\ Garbled(answers) \/ \A name \in DOMAIN Used : Agreed(answers, name, Used[name])
  /\ phase # "options" /\ ~Error /\ ~oackFailed => sent = answers

-----------------------------------------------------------------------------
(* Lists of answers *)

(* The options a session has terms of. *)
LEMMA TermNames ==
  /\ DOMAIN Used = {"timeout", "blksize", "windowsize"}
  /\ Used["timeout"] = PacketTimeout /\ Used["blksize"] = BlockSize
  /\ Used["windowsize"] = WindowSize
BY DEF Used

(* A new answer is the last to its option ... *)
LEMMA AgreedNew ==
  ASSUME NEW list \in Seq(Answers), NEW name \in OptionNames, NEW value \in Int
  PROVE  Agreed(Append(list, [name |-> name, value |-> value]), name, value)
<1> DEFINE new == Append(list, [name |-> name, value |-> value])
<1>1. [name |-> name, value |-> value] \in Answers  BY DEF Answers
<1>2. /\ Len(list) \in Nat /\ Len(new) = Len(list) + 1
      /\ new[Len(list) + 1] = [name |-> name, value |-> value]
  BY <1>1
<1> HIDE DEF new
<1>3. Len(list) + 1 \in AnswersTo(new, name)  BY <1>2 DEF AnswersTo
<1>4. \A j \in AnswersTo(new, name) : j <= Len(list) + 1  BY <1>2 DEF AnswersTo
<1>5. value = new[Len(list) + 1].value  BY <1>2
<1>6. Agreed(new, name, value)  BY <1>3, <1>4, <1>5 DEF Agreed
<1> QED  BY <1>6 DEF new

(* ... and leaves those to the others as they were. *)
LEMMA AgreedOther ==
  ASSUME NEW list \in Seq(Answers), NEW a \in Answers, NEW name, NEW value,
         a.name # name, Agreed(list, name, value)
  PROVE  Agreed(Append(list, a), name, value)
<1> DEFINE new == Append(list, a)
<1>1. /\ Len(list) \in Nat /\ Len(new) = Len(list) + 1
      /\ new[Len(list) + 1] = a
      /\ \A i \in 1 .. Len(list) : new[i] = list[i]
  OBVIOUS
<1> HIDE DEF new
<1>2. AnswersTo(new, name) = AnswersTo(list, name)
  <2>1. \A i \in 1 .. Len(list) + 1 : i \in 1 .. Len(list) \/ i = Len(list) + 1  BY <1>1
  <2>2. \A i \in 1 .. Len(list) : i \in 1 .. Len(list) + 1  BY <1>1
  <2> QED  BY <1>1, <2>1, <2>2 DEF AnswersTo
<1>3. \A i \in AnswersTo(list, name) : new[i] = list[i]  BY <1>1 DEF AnswersTo
<1>4. Agreed(new, name, value)  BY <1>2, <1>3 DEF Agreed
<1> QED  BY <1>4 DEF new

(* An answer under a wrong name stays in the list. *)
LEMMA GarbledStays ==
  ASSUME NEW list \in Seq(Answers), NEW a \in Answers
  PROVE  /\ Garbled(list) => Garbled(Append(list, a))
         /\ a.name = Stale => Garbled(Append(list, a))
<1> DEFINE new == Append(list, a)
<1>1. /\ Len(list) \in Nat /\ Len(new) = Len(list) + 1
      /\ new[Len(list) + 1] = a
      /\ \A i \in 1 .. Len(list) : new[i] = list[i]
  OBVIOUS
<1> HIDE DEF new
<1>2. ASSUME NEW i \in 1 .. Len(list), list[i].name = Stale PROVE Garbled(new)
  <2>1. i \in 1 .. Len(new) /\ new[i].name = Stale  BY <1>1, <1>2
  <2> QED  BY <2>1 DEF Garbled
<1>3. ASSUME a.name = Stale PROVE Garbled(new)
  <2>1. Len(list) + 1 \in 1 .. Len(new) /\ new[Len(list) + 1].name = Stale
    BY <1>1, <1>3
  <2> QED  BY <2>1 DEF Garbled
<1>4. (Garbled(list) => Garbled(new)) /\ (a.name = Stale => Garbled(new))
  BY <1>2, <1>3 DEF Garbled
<1> QED  BY <1>4 DEF new

(* An answer keeps what is agreed on the other options, and agrees on its  *)
(* own, or makes the list one with a wrong name.                           *)
LEMMA AnswerAgrees ==
  ASSUME answers \in Seq(Answers), NEW name \in OptionNames, NEW value \in Int,
         Answer(name, value)
  PROVE  \/ Garbled(answers')
         \/ /\ ~Garbled(answers)
            /\ Agreed(answers', name, value)
            /\ \A other, v : other # name /\ Agreed(answers, other, v)
                             => Agreed(answers', other, v)
<1>1. PICK printed \in {name, Stale} :
        answers' = Append(answers, [name |-> printed, value |-> value])
  BY AnswerAdds
<1> DEFINE a == [name |-> printed, value |-> value]
<1>2. a \in Answers /\ a.name = printed  BY <1>1 DEF Answers
<1>3. Garbled(answers) => Garbled(answers')  BY <1>1, <1>2, GarbledStays
<1>4. CASE printed = Stale
  <2>1. Garbled(answers')  BY <1>1, <1>2, <1>4, GarbledStays
  <2> QED  BY <2>1
<1>5. CASE printed = name
  <2>1. Agreed(answers', name, value)  BY <1>1, <1>5, AgreedNew
  <2>2. ASSUME NEW other, NEW v, other # name, Agreed(answers, other, v)
        PROVE  Agreed(answers', other, v)
    BY <1>1, <1>2, <1>5, <2>2, AgreedOther
  <2> QED  BY <1>3, <2>1, <2>2
<1> QED  BY <1>1, <1>4, <1>5

(* What is agreed is the value of the answer with the highest place. *)
LEMMA AgreedIsLast ==
  ASSUME NEW list, NEW name, NEW value, Agreed(list, name, value), Len(list) \in Nat
  PROVE  LET of == {i \in 1 .. Len(list) : list[i].name = name} IN
         value = IF of = {} THEN Default[name]
                 ELSE list[CHOOSE i \in of : \A j \in of : j <= i].value
<1> DEFINE of     == {i \in 1 .. Len(list) : list[i].name = name}
           Max(i) == \A j \in of : j <= i
<1>1. of = AnswersTo(list, name) /\ of \subseteq Int  BY DEF AnswersTo
<1>2. CASE of = {}  BY <1>1, <1>2 DEF Agreed
<1>3. CASE of # {}
  <2>1. PICK i \in of : Max(i) /\ value = list[i].value  BY <1>1, <1>3 DEF Agreed
  <2>2. \A k \in of : Max(k) => k = i  BY <1>1, <2>1
  <2> HIDE DEF of
  <2>3. (CHOOSE k \in of : \A j \in of : j <= k) = i  BY <2>1, <2>2, Zenon
  <2>4. value = IF of = {} THEN Default[name]
                ELSE list[CHOOSE k \in of : \A j \in of : j <= k].value
    <3> DEFINE last == list[CHOOSE k \in of : \A j \in of : j <= k].value
    <3>1. of # {}  BY <2>1, Zenon
    <3>2. value = last  BY <2>1, <2>3, Zenon
    <3> HIDE DEF last
    <3>3. value = IF of = {} THEN Default[name] ELSE last  BY <3>1, <3>2
    <3> QED  BY <3>3, Zenon DEF last
  <2> QED  BY <2>4, Zenon DEF of
<1> QED  BY <1>2, <1>3

-----------------------------------------------------------------------------
(* The invariant *)

(* A session without answers uses the defaults. *)
LEMMA TermsInit == Init => TermsInv
<1> SUFFICES ASSUME Init PROVE TermsInv  OBVIOUS
<1>1. /\ answers = <<>> /\ phase = "options"
      /\ PacketTimeout = ClientTimeoutSecMin /\ BlockSize = TFTP_DATA_BLOCK_SIZE
      /\ WindowSize = 1
  BY DEF Init, OptionsInit
<1>2. Used = Default  BY <1>1 DEF Used, Default
<1>3. \A name : AnswersTo(answers, name) = {}  BY <1>1 DEF AnswersTo
<1>4. \A name \in DOMAIN Used : Agreed(answers, name, Used[name])
  BY <1>2, <1>3, Zenon DEF Agreed
<1> QED  BY <1>1, <1>4 DEF TermsInv

(* An accepted option answers what it sets, and sets nothing else. *)
LEMMA ParseOptionTerms ==
  ASSUME OptionsTypeOK, OptionsTypeOK', TermsInv, ParseOption
  PROVE  Garbled(answers') \/ \A name \in DOMAIN Used' : Agreed(answers', name, Used'[name])
<1> SUFFICES ASSUME ~Garbled(answers')
             PROVE  \A name \in DOMAIN Used' : Agreed(answers', name, Used'[name])
  OBVIOUS
<1>1. PICK o \in Proposals :
        \/ o.name = "tsize" /\ TSize(o.value)
        \/ o.name = "timeout" /\ TimeoutOption(o.value)
        \/ o.name = "blksize" /\ BlkSize(o.value)
        \/ o.name = "windowsize" /\ WindowSizeOption(o.value)
  BY DEF ParseOption
<1>2. o.value \in Int
  <2>1. o \in [name : OptionNames, value : Int]  BY OptionsAssumption
  <2> QED  BY <2>1
<1>3. answers \in Seq(Answers)  BY DEF OptionsTypeOK, Answers
<1>4. PacketTimeout' \in Int /\ BlockSize' \in Int /\ WindowSize' \in Int
  <2>1. PacketTimeout' \in ClientTimeoutSecMin .. ClientTimeoutSecMax
        /\ BlockSize' \in Nat /\ WindowSize' \in 1 .. WindowSizeMax
    BY DEF OptionsTypeOK
  <2> QED  BY <2>1, OptionsAssumption, SMT
<1>5. ASSUME ~Garbled(answers)
      PROVE  /\ Agreed(answers, "timeout", PacketTimeout)
             /\ Agreed(answers, "blksize", BlockSize)
             /\ Agreed(answers, "windowsize", WindowSize)
  <2>1. \A name \in {"timeout", "blksize", "windowsize"} : Agreed(answers, name, Used[name])
    BY <1>5, TermNames, Zenon DEF TermsInv
  <2>2. /\ Agreed(answers, "timeout", Used["timeout"])
        /\ Agreed(answers, "blksize", Used["blksize"])
        /\ Agreed(answers, "windowsize", Used["windowsize"])
    BY <2>1, Zenon
  <2> QED  BY <2>2, TermNames, Zenon
<1>6. /\ Agreed(answers', "timeout", PacketTimeout')
      /\ Agreed(answers', "blksize", BlockSize')
      /\ Agreed(answers', "windowsize", WindowSize')
  <2>1. CASE TSize(o.value)
    <3>1. PICK value \in Int : Answer("tsize", value)
      <4> DEFINE value == IF o.value # 0 THEN o.value
                          ELSE IF SelectedOperation = "SERVER_TO_CLIENT" THEN FileSize ELSE 0
      <4>1. value \in Int  BY <1>2, OptionsAssumption, SMT
      <4>2. Answer("tsize", value)  BY <2>1, Zenon DEF TSize
      <4> HIDE DEF value
      <4> QED  BY <4>1, <4>2
    <3>2. PacketTimeout' = PacketTimeout /\ BlockSize' = BlockSize /\ WindowSize' = WindowSize
      BY <2>1 DEF TSize
    <3> QED  BY <1>3, <1>5, <3>1, <3>2, AnswerAgrees DEF OptionNames
  <2>2. CASE TimeoutOption(o.value)
    <3>1. /\ Answer("timeout", PacketTimeout')
          /\ BlockSize' = BlockSize /\ WindowSize' = WindowSize
      BY <2>2 DEF TimeoutOption
    <3> QED  BY <1>3, <1>4, <1>5, <3>1, AnswerAgrees DEF OptionNames
  <2>3. CASE BlkSize(o.value)
    <3>1. /\ Answer("blksize", BlockSize')
          /\ PacketTimeout' = PacketTimeout /\ WindowSize' = WindowSize
      BY <2>3 DEF BlkSize
    <3> QED  BY <1>3, <1>4, <1>5, <3>1, AnswerAgrees DEF OptionNames
  <2>4. CASE WindowSizeOption(o.value)
    <3>1. /\ Answer("windowsize", WindowSize')
          /\ PacketTimeout' = PacketTimeout /\ BlockSize' = BlockSize
      BY <2>4 DEF WindowSizeOption
    <3> QED  BY <1>3, <1>4, <1>5, <3>1, AnswerAgrees DEF OptionNames
  <2> QED  BY <1>1, <2>1, <2>2, <2>3, <2>4
<1>7. /\ DOMAIN Used' = {"timeout", "blksize", "windowsize"}
      /\ Used'["timeout"] = PacketTimeout' /\ Used'["blksize"] = BlockSize'
      /\ Used'["windowsize"] = WindowSize'
  BY DEF Used
<1> QED  BY <1>6, <1>7

(* A step of the loop leaves the options alone. *)
LEMMA TermsKept ==
  ASSUME TermsInv, UNCHANGED optionVars, phase' # "options" => phase # "options"
  PROVE  TermsInv'
<1>1. /\ answers' = answers /\ sent' = sent /\ oackFailed' = oackFailed /\ Error' = Error
      /\ Used' = Used
  BY DEF optionVars, Used
<1>2. Garbled(answers') \/ \A name \in DOMAIN Used' : Agreed(answers', name, Used'[name])
  BY <1>1, Zenon DEF TermsInv
<1>3. phase' # "options" /\ ~Error' /\ ~oackFailed' => sent' = answers'
  BY <1>1, Zenon DEF TermsInv
<1> QED  BY <1>2, <1>3, Zenon DEF TermsInv

(* The OACK is made of all answers, or was not sent, or the request was    *)
(* malformed.                                                              *)
LEMMA TermsStart ==
  ASSUME TermsInv, StartTransfer
  PROVE  TermsInv'
<1>1. /\ UNCHANGED <<SelectedOperation, BlockSize, PacketTimeout, WindowSize,
                     LastRecvPacket, answers>>
      /\ SMSG_OACK \/ Error' = TRUE
  BY DEF StartTransfer, EndOfOptions, MissingValue
<1>2. Used' = Used /\ answers' = answers  BY <1>1 DEF Used
<1>3. Garbled(answers') \/ \A name \in DOMAIN Used' : Agreed(answers', name, Used'[name])
  BY <1>2, Zenon DEF TermsInv
<1>4. ~Error' /\ ~oackFailed' => sent' = answers
  BY <1>1, Zenon DEF SMSG_OACK
<1> QED  BY <1>2, <1>3, <1>4, Zenon DEF TermsInv

(* Every step keeps the terms. *)
LEMMA TermsNext == ClockInv /\ ClockInv' /\ TermsInv /\ [Next]_vars => TermsInv'
<1> SUFFICES ASSUME ClockInv, ClockInv', TermsInv, [Next]_vars PROVE TermsInv'  OBVIOUS
<1>1. CASE Negotiate
  <2>1. OptionsTypeOK /\ OptionsTypeOK'  BY DEF ClockInv, ClockTypeOK
  <2>2. ParseOption /\ phase' = "options"  BY <1>1 DEF Negotiate, clockVars
  <2>3. Garbled(answers') \/ \A name \in DOMAIN Used' : Agreed(answers', name, Used'[name])
    BY <2>1, <2>2, ParseOptionTerms
  <2> QED  BY <2>2, <2>3, Zenon DEF TermsInv
<1>2. CASE StartTransfer  BY <1>2, TermsStart
<1>3. CASE \/ TimePasses \/ PacketAnswered \/ PacketDropped \/ SessionEnds
           \/ KeepWaiting \/ GiveUp \/ Resend
  <2>1. UNCHANGED optionVars /\ phase # "options"
    BY <1>3 DEF TimePasses, PacketAnswered, PacketDropped, SessionEnds, KeepWaiting,
                GiveUp, Resend
  <2> QED  BY <2>1, TermsKept
<1>4. CASE UNCHANGED vars
  <2>1. UNCHANGED optionVars /\ phase' = phase  BY <1>4 DEF vars, clockVars
  <2> QED  BY <2>1, TermsKept
<1> QED  BY <1>1, <1>2, <1>3, <1>4 DEF Next

(* The terms in use follow the answers ParseOptions wrote down, for any    *)
(* request, unless one of them is under a wrong name.  The OACK of a       *)
(* well-formed request is made of all of them, if it is sent at all; of a  *)
(* last answer that did not fit (cut) it holds the first bytes only.       *)
THEOREM TermsInvariant == Spec => []TermsInv
<1>1. ClockInv /\ ClockInv' /\ TermsInv /\ [Next]_vars => TermsInv'  BY TermsNext
<1> QED  BY <1>1, TermsInit, ClockInvariant, PTL DEF Spec

(* A client that was told the terms is served on them, from the first DATA *)
(* or ACK on.  Told leaves out what the code leaves to chance: a malformed *)
(* request, an OACK that was not sent, was cut or has a name from freed    *)
(* memory.                                                                 *)
THEOREM TermsAreAgreed == Spec => []TermsAgreed
<1>1. ClockInv /\ TermsInv => TermsAgreed
  <2> SUFFICES ASSUME ClockInv, TermsInv, phase # "options", Told, NEW name \in DOMAIN Used
               PROVE  LET of == {i \in 1 .. Len(sent) : sent[i].name = name} IN
                      Used[name] = IF of = {} THEN Default[name]
                                   ELSE sent[CHOOSE i \in of : \A j \in of : j <= i].value
    BY Zenon DEF TermsAgreed
  <2>1. sent = answers /\ ~Garbled(sent)  BY Zenon DEF TermsInv, Told
  <2>2. Agreed(sent, name, Used[name])  BY <2>1, Zenon DEF TermsInv
  <2>3. answers \in Seq(Answers)  BY DEF ClockInv, ClockTypeOK, OptionsTypeOK, Answers
  <2>4. Len(sent) \in Nat  BY <2>1, <2>3
  <2> QED  BY <2>2, <2>4, AgreedIsLast
<1> QED  BY <1>1, TermsInvariant, ClockInvariant, PTL

=============================================================================
