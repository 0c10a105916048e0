---------------------------- MODULE Registry_proofs ----------------------------
(***************************************************************************)
(* Proofs about Server: the registry of active clients and the admission   *)
(* of requests, for every number of sessions and of clients.  What is      *)
(* proved is what the code keeps as long as the accesses to the counter    *)
(* and the list have not met.                                              *)
(***************************************************************************)
EXTENDS Server_proofs, FiniteSetTheorems

USE SessionsAssumption, ParallelAssumption, EntriesAssumption

(* The sessions TransferCounter counts: those from the store of ++ to the  *)
(* store of --; and those that were admitted and are not being deleted.    *)
CountedLabels == {"socket", "transfer", "load_dec", "store_dec"} \cup PortLabels
Counted  == {s \in Sessions : pc[s] \in CountedLabels}
Admitted == {s \in Sessions : pc[s] \notin {"free", "delete"}}

Entries == 0 .. TransferCounter - 1

RegistryTypes ==
  /\ Client \in [Sessions -> Clients \cup {Nobody}]
  /\ TransferCounter \in Int
  /\ ActiveClientList \in [Slots -> Sessions \cup {NULL, Other}]
  /\ loaded \in [Sessions -> Int]
  /\ request \in Clients \cup {Nobody} /\ slot \in Nat
  /\ overlapped \in BOOLEAN /\ misplaced \in BOOLEAN

(* Nobody meets anybody. *)
OneAtATime ==
  /\ \A s, t \in InRegistry : s = t
  /\ Scanning => InRegistry = {}

CountInv ==
  /\ TransferCounter = Cardinality(Counted)
  /\ \A s \in InRegistry :
       pc[s] \in {"store_slot", "store_inc", "store_dec", "store_clear"}
         => loaded[s] = TransferCounter

LimitInv ==
  /\ Cardinality(Admitted) <= sConf.ParallelTransfersMax
  /\ Scanning => TransferCounter < sConf.ParallelTransfersMax

(* The entries below the counter are the counted sessions, each once; a    *)
(* session that is about to be counted has stored the next entry.          *)
ListInv ==
  /\ \A i \in Entries : ActiveClientList[i] \in Counted
  /\ \A s \in Counted : \E i \in Entries : ActiveClientList[i] = s
  /\ \A i, j \in Entries : ActiveClientList[i] = ActiveClientList[j] => i = j
  /\ \A s \in Sessions :
       pc[s] \in {"load_inc", "store_inc"} => ActiveClientList[TransferCounter] = s

(* None of the entries the listener has passed is the requester's. *)
ScanInv ==
  Scanning => \A i \in Entries : i < slot => Client[ActiveClientList[i]] # request

RegistryInv ==
  /\ ThreadsTypeOK /\ RegistryTypes
  /\ ~overlapped => OneAtATime /\ CountInv /\ LimitInv
  /\ ~overlapped /\ ~misplaced => ListInv /\ ScanInv

-----------------------------------------------------------------------------
(* Sets of sessions *)

LEMMA SessionSets ==
  /\ \A S \in SUBSET Sessions : IsFiniteSet(S) /\ Cardinality(S) \in Nat
  /\ \A S \in SUBSET Sessions : Cardinality(S) <= Cardinality(Sessions)
  /\ Cardinality(Sessions) \in Nat
<1>1. \A S \in SUBSET Sessions :
        IsFiniteSet(S) /\ Cardinality(S) <= Cardinality(Sessions)
  BY FS_Subset
<1>2. \A S \in SUBSET Sessions : Cardinality(S) \in Nat  BY <1>1, FS_CardinalityType
<1> QED  BY <1>1, <1>2

LEMMA AtMostOne ==
  ASSUME NEW S \in SUBSET Sessions, Cardinality(S) <= 1, NEW s \in S, NEW t \in S
  PROVE  s = t
<1>1. IsFiniteSet(S) /\ Cardinality(S) \in Nat  BY SessionSets
<1>2. CASE Cardinality(S) = 0  BY <1>1, <1>2, FS_EmptySet
<1>3. CASE Cardinality(S) = 1
  <2>1. PICK x : S = {x}  BY <1>1, <1>3, FS_Singleton
  <2> QED  BY <2>1
<1> QED  BY <1>1, <1>2, <1>3

(* Watch records when two threads, or a thread and the listener's scan,    *)
(* meet.                                                                   *)
LEMMA WatchSees ==
  ASSUME overlapped \in BOOLEAN, Watch
  PROVE  /\ overlapped' \in BOOLEAN
         /\ ~overlapped' => ~overlapped /\ OneAtATime'
<1>1. overlapped' = (overlapped \/ Overlap')  BY DEF Watch
<1>2. overlapped' \in BOOLEAN /\ (~overlapped' => ~overlapped /\ ~Overlap')
  BY <1>1, Zenon
<1>3. ASSUME ~Overlap' PROVE OneAtATime'
  <2>1. InRegistry' \in SUBSET Sessions  BY DEF InRegistry
  <2>2. Cardinality(InRegistry') \in Nat /\ IsFiniteSet(InRegistry')  BY <2>1, SessionSets
  <2>3. /\ Cardinality(InRegistry') <= 1
        /\ Scanning' => Cardinality(InRegistry') = 0
    BY <1>3, <2>2 DEF Overlap
  <2>4. \A s, t \in InRegistry' : s = t  BY <2>1, <2>3, AtMostOne
  <2>5. Scanning' => InRegistry' = {}  BY <2>2, <2>3, FS_EmptySet
  <2> QED  BY <2>4, <2>5 DEF OneAtATime
<1> QED  BY <1>2, <1>3

(* What a step of one thread does to the sets of sessions. *)
LEMMA SetsMove ==
  ASSUME ThreadsTypeOK, NEW s \in Sessions, NEW l \in Labels, Goto(s, l), sConf' = sConf
  PROVE  /\ ThreadsTypeOK' /\ pc'[s] = l
         /\ \A t \in Sessions \ {s} : pc'[t] = pc[t]
         /\ Counted' = IF l \in CountedLabels THEN Counted \cup {s} ELSE Counted \ {s}
         /\ Admitted' = IF l \notin {"free", "delete"} THEN Admitted \cup {s}
                                                       ELSE Admitted \ {s}
<1>1. /\ ThreadsTypeOK' /\ pc'[s] = l
      /\ \A t \in Sessions \ {s} : pc'[t] = pc[t]
  BY GotoMoves
<1>2. Counted' = IF l \in CountedLabels THEN Counted \cup {s} ELSE Counted \ {s}
  <2> HIDE DEF CountedLabels
  <2> QED  BY <1>1 DEF Counted
<1>3. Admitted' = IF l \notin {"free", "delete"} THEN Admitted \cup {s} ELSE Admitted \ {s}
  BY <1>1 DEF Admitted
<1> QED  BY <1>1, <1>2, <1>3

(* Labels at which a thread owes the registry nothing. *)
Settled == Labels \ {"store_slot", "load_inc", "store_inc", "store_dec", "store_clear"}

(* Steps that leave the registry alone. *)
LEMMA OthersKeepRegistry ==
  ASSUME RegistryInv, Watch, NEW s \in Sessions, NEW l \in Settled, Goto(s, l),
         pc[s] # "free", pc[s] = "delete" => l = "free",
         pc[s] \in CountedLabels <=> l \in CountedLabels,
         UNCHANGED <<sConf, TransferCounter, ActiveClientList, loaded, misplaced>>,
         UNCHANGED listenerVars,
         Client' \in [Sessions -> Clients \cup {Nobody}],
         \A t \in Counted : Client'[t] = Client[t]
  PROVE  RegistryInv'
<1> USE DEF RegistryInv
<1>1. /\ ThreadsTypeOK' /\ pc'[s] = l
      /\ \A t \in Sessions \ {s} : pc'[t] = pc[t]
      /\ Counted' = IF l \in CountedLabels THEN Counted \cup {s} ELSE Counted \ {s}
      /\ Admitted' = IF l \notin {"free", "delete"} THEN Admitted \cup {s}
                                                    ELSE Admitted \ {s}
  BY SetsMove DEF Settled
<1>2. overlapped' \in BOOLEAN /\ (~overlapped' => ~overlapped /\ OneAtATime')
  BY WatchSees DEF RegistryTypes
<1>3. RegistryTypes'
  <2>1. request' = request /\ slot' = slot  BY DEF listenerVars
  <2> QED  BY <1>2, <2>1 DEF RegistryTypes, Slots
<1>4. Counted' = Counted  BY <1>1 DEF Counted
<1>5. Admitted' \subseteq Admitted  BY <1>1 DEF Admitted
<1>6. Scanning' = Scanning /\ slot' = slot /\ request' = request
  BY DEF Scanning, listenerVars
<1>7. ASSUME CountInv PROVE CountInv'
  <2> SUFFICES ASSUME NEW t \in InRegistry',
                      pc'[t] \in {"store_slot", "store_inc", "store_dec", "store_clear"}
               PROVE  loaded[t] = TransferCounter
    BY <1>4, <1>7 DEF CountInv
  <2>1. t \in Sessions \ {s}  BY <1>1 DEF InRegistry, Settled
  <2>2. t \in InRegistry  BY <1>1, <2>1 DEF InRegistry
  <2> QED  BY <1>1, <1>7, <2>1, <2>2 DEF CountInv
<1>8. ASSUME LimitInv PROVE LimitInv'
  <2>1. Admitted \in SUBSET Sessions  BY DEF Admitted
  <2>2. Cardinality(Admitted') <= Cardinality(Admitted)
    BY <1>5, <2>1, SessionSets, FS_Subset
  <2>3. Cardinality(Admitted') \in Nat /\ Cardinality(Admitted) \in Nat
    BY <1>5, <2>1, SessionSets
  <2>4. sConf.ParallelTransfersMax \in Nat  BY DEF ThreadsTypeOK, Settings
  <2> QED  BY <1>6, <1>8, <2>2, <2>3, <2>4 DEF LimitInv
<1>9. ASSUME ListInv PROVE ListInv'
  <2>1. \A t \in Sessions : pc'[t] \in {"load_inc", "store_inc"}
          => pc[t] = pc'[t]
    BY <1>1 DEF Settled
  <2> QED  BY <1>4, <1>9, <2>1 DEF ListInv, Entries
<1>10. ASSUME ListInv, ScanInv PROVE ScanInv'
  BY <1>6, <1>10 DEF ScanInv, ListInv, Entries
<1> QED  BY <1>1, <1>2, <1>3, <1>7, <1>8, <1>9, <1>10

LEMMA ThreadOutsideRegistry ==
  ASSUME RegistryInv, Watch, NEW s \in Sessions, sConf' = sConf,
         \/ CreateCommUDPSocket(s) /\ UNCHANGED registryVars
         \/ RefuseRequest(s) \/ EndTransfer(s) \/ DeleteSession(s)
  PROVE  RegistryInv'
<1>1. Client \in [Sessions -> Clients \cup {Nobody}]  BY DEF RegistryInv, RegistryTypes
<1>2. CASE CreateCommUDPSocket(s) /\ UNCHANGED registryVars
  <2> DEFINE Places == {"socket", "transfer"} \cup PortLabels
  <2>1. UNCHANGED <<Client, TransferCounter, ActiveClientList, loaded, misplaced>>
        /\ UNCHANGED listenerVars
    BY <1>2 DEF registryVars, listenerVars
  <2>2. pc[s] \in Places /\ \E l \in Places : Goto(s, l)
    BY <1>2, TryAgainMoves DEF CreateCommUDPSocket, ReuseServerSocket, CreateSocket, Return,
       BindAndConnect, LoadPort, StorePort, CheckPort, FixPort, PortLabels
  <2>3. Places \subseteq Settled /\ Places \subseteq CountedLabels
        /\ "free" \notin Places /\ "delete" \notin Places
    BY DEF Settled, CountedLabels, PortLabels, Labels
  <2> HIDE DEF Places
  <2> QED  BY <1>1, <2>1, <2>2, <2>3, OthersKeepRegistry
<1>3. CASE RefuseRequest(s) \/ EndTransfer(s)
  <2>1. pc[s] \in {"socket", "transfer"} /\ Goto(s, "load_dec")
        /\ UNCHANGED <<Client, TransferCounter, ActiveClientList, loaded, misplaced>>
        /\ UNCHANGED listenerVars
    BY <1>3 DEF RefuseRequest, EndTransfer, LeaveLoop
  <2>2. "load_dec" \in Settled /\ {"load_dec", "socket", "transfer"} \subseteq CountedLabels
    BY DEF Settled, CountedLabels, Labels, UnregisterLabels
  <2> QED  BY <1>1, <2>1, <2>2, OthersKeepRegistry
<1>4. CASE DeleteSession(s)
  <2>1. pc[s] = "delete" /\ Goto(s, "free")
        /\ UNCHANGED <<TransferCounter, ActiveClientList, loaded, misplaced>>
        /\ UNCHANGED listenerVars
        /\ Client' = [Client EXCEPT ![s] = Nobody]
    BY <1>4 DEF DeleteSession
  <2>2. "free" \in Settled /\ "free" \notin CountedLabels /\ "delete" \notin CountedLabels
    BY DEF Settled, CountedLabels, Labels, PortLabels
  <2>3. s \notin Counted  BY <2>1, <2>2 DEF Counted
  <2>4. Counted \subseteq Sessions  BY DEF Counted
  <2>5. /\ Client' \in [Sessions -> Clients \cup {Nobody}]
        /\ \A t \in Counted : Client'[t] = Client[t]
    BY <1>1, <2>1, <2>3, <2>4
  <2> QED  BY <2>1, <2>2, <2>5, OthersKeepRegistry
<1> QED  BY <1>2, <1>3, <1>4

-----------------------------------------------------------------------------
(* The steps of a thread in the registry's code *)

(* The counter is an index of the list, and so is the one before it when   *)
(* something is counted.                                                   *)
LEMMA CounterInSlots ==
  ASSUME CountInv
  PROVE  TransferCounter \in Nat /\ 0 .. TransferCounter \subseteq Slots
<1>1. Counted \in SUBSET Sessions  BY DEF Counted
<1>2. TransferCounter \in Nat /\ TransferCounter <= Cardinality(Sessions)
  BY <1>1, SessionSets DEF CountInv
<1>3. Cardinality(Sessions) \in Nat  BY SessionSets
<1> DEFINE n == Cardinality(Sessions)
<1>4. Slots = -n .. 2 * n  BY DEF Slots
<1>5. n \in Nat /\ TransferCounter <= n  BY <1>2, <1>3
<1> HIDE DEF n
<1> QED  BY <1>2, <1>4, <1>5, SMT

LEMMA RegistryFrame ==
  ASSUME RegistryInv, Watch, NEW s \in Sessions, RegistryStep(s), sConf' = sConf
  PROVE  /\ pc[s] \in RegisterLabels \cup UnregisterLabels
         /\ ThreadsTypeOK' /\ pc'[s] = NextLabel(pc[s])
         /\ \A t \in Sessions \ {s} : pc'[t] = pc[t]
         /\ RegistryTypes'
         /\ ~overlapped' => /\ ~overlapped /\ OneAtATime' /\ LimitInv'
                            /\ ~Scanning'
                            /\ \A t \in InRegistry' : t = s
<1> USE DEF RegistryInv
<1>1. /\ pc[s] \in RegisterLabels \cup UnregisterLabels
      /\ Goto(s, NextLabel(pc[s]))
      /\ Client' = Client /\ UNCHANGED listenerVars
      /\ Load(s) \/ StoreSlot(s) \/ Increment(s) \/ Decrement(s) \/ ClearSlot(s)
  BY DEF RegistryStep, Load, StoreSlot, Increment, Decrement, ClearSlot,
         RegisterLabels, UnregisterLabels
<1>2. NextLabel(pc[s]) \in Labels \ {"free"}  BY <1>1, RegistryLabels
<1>3. /\ ThreadsTypeOK' /\ pc'[s] = NextLabel(pc[s])
      /\ \A t \in Sessions \ {s} : pc'[t] = pc[t]
      /\ Admitted' = IF NextLabel(pc[s]) \notin {"free", "delete"} THEN Admitted \cup {s}
                                                                    ELSE Admitted \ {s}
  BY <1>1, <1>2, SetsMove
<1>4. overlapped' \in BOOLEAN /\ (~overlapped' => ~overlapped /\ OneAtATime')
  BY WatchSees DEF RegistryTypes
<1>5. RegistryTypes'
  <2>1. misplaced' \in BOOLEAN
    <3>1. misplaced' = misplaced \/ misplaced' = (misplaced \/ ActiveClientList[TransferCounter'] # s)
      BY <1>1, Zenon DEF Load, StoreSlot, Increment, Decrement, ClearSlot
    <3> QED  BY <3>1, Zenon DEF RegistryTypes
  <2>2. /\ TransferCounter' \in Int /\ loaded' \in [Sessions -> Int]
        /\ ActiveClientList' \in [Slots -> Sessions \cup {NULL, Other}]
    BY <1>1 DEF RegistryTypes, Load, StoreSlot, Increment, Decrement, ClearSlot
  <2>3. request' = request /\ slot' = slot  BY <1>1 DEF listenerVars
  <2>4. Slots' = Slots  BY DEF Slots
  <2> QED  BY <1>1, <1>4, <2>1, <2>2, <2>3, <2>4 DEF RegistryTypes
<1>6. ASSUME ~overlapped'
      PROVE  ~Scanning' /\ (\A t \in InRegistry' : t = s) /\ LimitInv'
  <2>1. s \in InRegistry  BY <1>1 DEF InRegistry
  <2>2. OneAtATime /\ LimitInv  BY <1>4, <1>6
  <2>3. ~Scanning  BY <2>1, <2>2 DEF OneAtATime
  <2>4. ~Scanning'  BY <1>1, <2>3 DEF Scanning, listenerVars
  <2>5. \A t \in InRegistry' : t = s
    <3> SUFFICES ASSUME NEW t \in InRegistry', t # s PROVE FALSE  OBVIOUS
    <3>1. t \in InRegistry  BY <1>3 DEF InRegistry
    <3> QED  BY <2>1, <2>2, <3>1 DEF OneAtATime
  <2>6. Admitted' \subseteq Admitted
    BY <1>1, <1>3 DEF Admitted, RegisterLabels, UnregisterLabels
  <2>7. Admitted \in SUBSET Sessions  BY DEF Admitted
  <2>8. /\ Cardinality(Admitted') <= Cardinality(Admitted)
        /\ Cardinality(Admitted') \in Nat /\ Cardinality(Admitted) \in Nat
    BY <2>6, <2>7, SessionSets, FS_Subset
  <2>9. sConf.ParallelTransfersMax \in Nat  BY DEF ThreadsTypeOK, Settings
  <2>10. LimitInv'  BY <2>2, <2>4, <2>8, <2>9 DEF LimitInv
  <2> QED  BY <2>4, <2>5, <2>10
<1> QED  BY <1>1, <1>3, <1>4, <1>5, <1>6

(* What is left to show of such a step. *)
LEMMA RegistryStepKeeps ==
  ASSUME RegistryInv, Watch, NEW s \in Sessions, RegistryStep(s), sConf' = sConf,
         ~overlapped' => CountInv', ~overlapped' /\ ~misplaced' => ListInv'
  PROVE  RegistryInv'
<1>1. ~overlapped' => ScanInv'  BY RegistryFrame DEF ScanInv
<1> QED  BY <1>1, RegistryFrame DEF RegistryInv

(* Of the steps in the registry only the stores of ++ and -- change what   *)
(* is counted.                                                             *)
LEMMA RegistryCounted ==
  ASSUME RegistryInv, Watch, NEW s \in Sessions, RegistryStep(s), sConf' = sConf
  PROVE  /\ Counted' = CASE pc[s] = "store_inc" -> Counted \cup {s}
                         [] pc[s] = "store_dec" -> Counted \ {s}
                         [] OTHER -> Counted
         /\ pc[s] = "store_inc" => s \notin Counted
         /\ pc[s] \in {"load_dec", "store_dec"} => s \in Counted
<1>1. /\ pc[s] \in RegisterLabels \cup UnregisterLabels /\ pc'[s] = NextLabel(pc[s])
      /\ \A t \in Sessions \ {s} : pc'[t] = pc[t]
  BY RegistryFrame
<1>2. Counted' = IF pc'[s] \in CountedLabels THEN Counted \cup {s} ELSE Counted \ {s}
  <2> HIDE DEF CountedLabels
  <2> QED  BY <1>1 DEF Counted
<1>3. s \in Counted <=> pc[s] \in CountedLabels  BY DEF Counted
<1>4. pc[s] \in {"load_slot", "store_slot", "load_inc", "store_inc",
                 "load_dec", "store_dec", "load_clear", "store_clear"}
  BY <1>1 DEF RegisterLabels, UnregisterLabels
<1>5. /\ pc[s] \in CountedLabels <=> pc[s] \in {"load_dec", "store_dec"}
      /\ pc'[s] \in CountedLabels <=> pc[s] \in {"store_inc", "load_dec"}
  BY <1>1, <1>4 DEF CountedLabels, PortLabels, NextLabel
<1> HIDE DEF CountedLabels
<1> QED  BY <1>2, <1>3, <1>4, <1>5

LEMMA RegistryCountInv ==
  ASSUME RegistryInv, Watch, NEW s \in Sessions, RegistryStep(s), sConf' = sConf,
         ~overlapped'
  PROVE  CountInv'
<1>1. /\ pc[s] \in RegisterLabels \cup UnregisterLabels /\ pc'[s] = NextLabel(pc[s])
      /\ ~overlapped /\ \A t \in InRegistry' : t = s
  BY RegistryFrame
<1>2. CountInv /\ RegistryTypes  BY <1>1 DEF RegistryInv
<1>3. s \in InRegistry  BY <1>1 DEF InRegistry
<1>4. Load(s) \/ StoreSlot(s) \/ Increment(s) \/ Decrement(s) \/ ClearSlot(s)
  BY DEF RegistryStep
<1>5. Counted \in SUBSET Sessions /\ IsFiniteSet(Counted)  BY SessionSets DEF Counted
<1>6. TransferCounter = Cardinality(Counted) /\ TransferCounter \in Nat
  BY <1>2, CounterInSlots DEF CountInv
<1>7. TransferCounter' = Cardinality(Counted')
  <2>1. CASE pc[s] = "store_inc"
    <3>1. loaded[s] = TransferCounter  BY <1>2, <1>3, <2>1 DEF CountInv
    <3>2. TransferCounter' = TransferCounter + 1
      BY <1>4, <2>1, <3>1 DEF Load, StoreSlot, Increment, Decrement, ClearSlot
    <3>3. Counted' = Counted \cup {s} /\ s \notin Counted  BY <2>1, RegistryCounted
    <3>4. Cardinality(Counted \cup {s}) = Cardinality(Counted) + 1
      BY <1>5, <3>3, FS_AddElement
    <3> QED  BY <1>6, <3>2, <3>3, <3>4
  <2>2. CASE pc[s] = "store_dec"
    <3>1. loaded[s] = TransferCounter  BY <1>2, <1>3, <2>2 DEF CountInv
    <3>2. TransferCounter' = TransferCounter - 1
      BY <1>4, <2>2, <3>1 DEF Load, StoreSlot, Increment, Decrement, ClearSlot
    <3>3. Counted' = Counted \ {s} /\ s \in Counted  BY <2>2, RegistryCounted
    <3>4. Cardinality(Counted \ {s}) = Cardinality(Counted) - 1
      BY <1>5, <3>3, FS_RemoveElement
    <3> QED  BY <1>6, <3>2, <3>3, <3>4
  <2>3. CASE pc[s] \notin {"store_inc", "store_dec"}
    <3>1. TransferCounter' = TransferCounter
      BY <1>4, <2>3 DEF Load, StoreSlot, Increment, Decrement, ClearSlot
    <3>2. Counted' = Counted  BY <2>3, RegistryCounted
    <3> QED  BY <1>6, <3>1, <3>2
  <2> QED  BY <2>1, <2>2, <2>3
<1>8. ASSUME pc'[s] \in {"store_slot", "store_inc", "store_dec", "store_clear"}
      PROVE  loaded'[s] = TransferCounter'
  <2>1. pc[s] \in {"load_slot", "store_slot", "load_inc", "store_inc",
                   "load_dec", "store_dec", "load_clear", "store_clear"}
    BY <1>1 DEF RegisterLabels, UnregisterLabels
  <2>2. pc[s] \in {"load_slot", "load_inc", "load_dec", "load_clear"}
    BY <1>1, <1>8, <2>1 DEF NextLabel
  <2>3. Load(s)
    BY <1>4, <2>2 DEF StoreSlot, Increment, Decrement, ClearSlot
  <2> QED  BY <1>2, <2>3 DEF Load, RegistryTypes
<1>9. CountInv' <=> /\ TransferCounter' = Cardinality(Counted')
                    /\ \A t \in InRegistry' :
                         pc'[t] \in {"store_slot", "store_inc", "store_dec", "store_clear"}
                           => loaded'[t] = TransferCounter'
  BY DEF CountInv
<1> QED  BY <1>1, <1>7, <1>8, <1>9

(* The steps that leave the counter alone change, if anything, the entry   *)
(* behind the last one.                                                    *)
LEMMA RegistryListInv ==
  ASSUME RegistryInv, Watch, NEW s \in Sessions, RegistryStep(s), sConf' = sConf,
         ~overlapped', ~misplaced'
  PROVE  ListInv'
<1>1. /\ pc[s] \in RegisterLabels \cup UnregisterLabels /\ pc'[s] = NextLabel(pc[s])
      /\ ~overlapped /\ \A t \in InRegistry' : t = s
      /\ \A t \in Sessions \ {s} : pc'[t] = pc[t]
  BY RegistryFrame
<1>2. Load(s) \/ StoreSlot(s) \/ Increment(s) \/ Decrement(s) \/ ClearSlot(s)
  BY DEF RegistryStep
<1>3. misplaced' = misplaced \/ misplaced' = (misplaced \/ ActiveClientList[TransferCounter'] # s)
  BY <1>2, Zenon DEF Load, StoreSlot, Increment, Decrement, ClearSlot
<1>4. ~misplaced  BY <1>3, Zenon DEF RegistryInv, RegistryTypes
<1>5. CountInv /\ RegistryTypes /\ ListInv  BY <1>1, <1>4 DEF RegistryInv
<1>6. s \in InRegistry  BY <1>1 DEF InRegistry
<1>7. TransferCounter \in Nat /\ 0 .. TransferCounter \subseteq Slots
  BY <1>5, CounterInSlots
<1>8. TransferCounter \in Slots  BY <1>7, SMT
<1>9. pc[s] \in {"load_slot", "store_slot", "load_inc", "store_inc",
                 "load_dec", "store_dec", "load_clear", "store_clear"}
  BY <1>1 DEF RegisterLabels, UnregisterLabels
<1>10. ASSUME NEW t \in Sessions, pc'[t] \in {"load_inc", "store_inc"} PROVE t = s
  BY <1>1, <1>10 DEF InRegistry, RegisterLabels
<1>11. CASE Load(s)
  <2>1. /\ TransferCounter' = TransferCounter /\ ActiveClientList' = ActiveClientList
        /\ pc[s] \in {"load_slot", "load_inc", "load_dec", "load_clear"}
    BY <1>11 DEF Load
  <2>2. Counted' = Counted  BY <2>1, RegistryCounted
  <2>3. pc'[s] \in {"load_inc", "store_inc"} => pc[s] = "load_inc"
    BY <1>1, <2>1 DEF NextLabel
  <2> QED  BY <1>5, <1>10, <2>1, <2>2, <2>3 DEF ListInv, Entries
<1>12. CASE StoreSlot(s)
  <2>1. /\ TransferCounter' = TransferCounter /\ pc[s] = "store_slot"
        /\ ActiveClientList' = [ActiveClientList EXCEPT ![loaded[s]] = s]
    BY <1>12 DEF StoreSlot
  <2>2. loaded[s] = TransferCounter  BY <1>5, <1>6, <2>1 DEF CountInv
  <2>3. Counted' = Counted  BY <2>1, RegistryCounted
  <2>4. /\ ActiveClientList'[TransferCounter] = s
        /\ \A i \in Entries : ActiveClientList'[i] = ActiveClientList[i]
    BY <1>5, <1>7, <1>8, <2>1, <2>2, SMT DEF RegistryTypes, Entries
  <2> QED  BY <1>5, <1>10, <2>1, <2>3, <2>4 DEF ListInv, Entries
<1>13. CASE Increment(s)
  <2>1. /\ TransferCounter' = loaded[s] + 1 /\ pc[s] = "store_inc"
        /\ ActiveClientList' = ActiveClientList
    BY <1>13 DEF Increment
  <2>2. TransferCounter' = TransferCounter + 1  BY <1>5, <1>6, <2>1 DEF CountInv
  <2>3. Counted' = Counted \cup {s} /\ s \notin Counted  BY <2>1, RegistryCounted
  <2>4. pc'[s] \notin {"load_inc", "store_inc"}  BY <1>1, <2>1 DEF NextLabel
  <2>5. Entries' = Entries \cup {TransferCounter}  BY <1>7, <2>2, SMT DEF Entries
  <2>6. ActiveClientList[TransferCounter] = s  BY <1>5, <2>1 DEF ListInv
  <2> QED  BY <1>5, <1>10, <2>1, <2>3, <2>4, <2>5, <2>6 DEF ListInv
<1>14. CASE Decrement(s)
  <2>1. /\ TransferCounter' = loaded[s] - 1 /\ pc[s] = "store_dec"
        /\ ActiveClientList' = ActiveClientList
        /\ misplaced' = (misplaced \/ ActiveClientList[TransferCounter'] # s)
    BY <1>14 DEF Decrement
  <2>2. TransferCounter' = TransferCounter - 1  BY <1>5, <1>6, <2>1 DEF CountInv
  <2>3. Counted' = Counted \ {s} /\ s \in Counted  BY <2>1, RegistryCounted
  <2>4. pc'[s] \notin {"load_inc", "store_inc"}  BY <1>1, <2>1 DEF NextLabel
  <2>5. ActiveClientList[TransferCounter'] = s  BY <2>1, Zenon
  <2>6. PICK j \in Entries : ActiveClientList[j] = s  BY <1>5, <2>3 DEF ListInv
  <2>7. TransferCounter' \in Entries /\ Entries' = Entries \ {TransferCounter'}
    BY <1>7, <2>2, <2>6, SMT DEF Entries
  <2> QED  BY <1>5, <1>10, <2>1, <2>3, <2>4, <2>5, <2>7 DEF ListInv
<1>15. CASE ClearSlot(s)
  <2>1. /\ TransferCounter' = TransferCounter /\ pc[s] = "store_clear"
        /\ ActiveClientList' = [ActiveClientList EXCEPT ![loaded[s]] = NULL]
    BY <1>15 DEF ClearSlot
  <2>2. loaded[s] = TransferCounter  BY <1>5, <1>6, <2>1 DEF CountInv
  <2>3. Counted' = Counted  BY <2>1, RegistryCounted
  <2>4. \A i \in Entries : ActiveClientList'[i] = ActiveClientList[i]
    BY <1>5, <1>7, <2>1, <2>2, SMT DEF RegistryTypes, Entries
  <2>5. pc'[s] \notin {"load_inc", "store_inc"}  BY <1>1, <2>1 DEF NextLabel
  <2> QED  BY <1>5, <1>10, <2>1, <2>3, <2>4, <2>5 DEF ListInv, Entries
<1> QED  BY <1>2, <1>11, <1>12, <1>13, <1>14, <1>15

-----------------------------------------------------------------------------
(* The listener *)

LEMMA RunningAndCounted ==
  ASSUME ThreadsTypeOK
  PROVE  /\ Running \cup InRegistry = Admitted
         /\ InRegistry = {} => Running = Counted /\ Admitted = Counted
<1> DEFINE InCode == RegisterLabels \cup UnregisterLabels
<1>1. \A label \in Labels :
        /\ label \in InCode => label \notin {"free", "delete"}
        /\ label \notin InCode =>
             (label \in CountedLabels <=> label \notin {"free", "delete"})
  BY DEF RegisterLabels, UnregisterLabels, Labels, CountedLabels, PortLabels
<1>2. \A s \in Sessions : pc[s] \in Labels  BY DEF ThreadsTypeOK
<1>3. InRegistry = {s \in Sessions : pc[s] \in InCode}  BY DEF InRegistry
<1> HIDE DEF InCode, CountedLabels
<1>4. Running = {s \in Sessions : pc[s] \notin InCode \cup {"free", "delete"}}
  BY <1>3 DEF Running, Created, Live
<1> QED  BY <1>1, <1>2, <1>3, <1>4 DEF Admitted, Counted

(* A step of the listener that starts no session. *)
LEMMA ListenerKeepsRegistry ==
  ASSUME RegistryInv, Watch,
         UNCHANGED <<sConf, pc, Client, TransferCounter, ActiveClientList, loaded, misplaced>>,
         slot' \in Nat, request' \in Clients \cup {Nobody},
         Scanning' => Scanning \/ Admissible,
         Scanning' /\ ListInv /\ (Scanning => ScanInv) => ScanInv'
  PROVE  RegistryInv'
<1> USE DEF RegistryInv
<1>1. overlapped' \in BOOLEAN /\ (~overlapped' => ~overlapped /\ OneAtATime')
  BY WatchSees DEF RegistryTypes
<1>2. ThreadsTypeOK' /\ RegistryTypes'
  BY <1>1 DEF ThreadsTypeOK, RegistryTypes, Slots
<1>3. Counted' = Counted /\ InRegistry' = InRegistry /\ Admitted' = Admitted
  BY DEF Counted, InRegistry, Admitted
<1>4. ASSUME CountInv PROVE CountInv'  BY <1>3, <1>4 DEF CountInv
<1>5. ASSUME LimitInv PROVE LimitInv'  BY <1>3, <1>5 DEF LimitInv, Admissible
<1>6. ASSUME ListInv PROVE ListInv'  BY <1>3, <1>6 DEF ListInv, Entries
<1>7. ASSUME ListInv, ScanInv PROVE ScanInv'  BY <1>7 DEF ScanInv
<1> QED  BY <1>1, <1>2, <1>4, <1>5, <1>6, <1>7

LEMMA StartSessionKeeps ==
  ASSUME RegistryInv, Watch, NEW c \in Clients \cup {Nobody}, StartSession(c), sConf' = sConf,
         ~overlapped => TransferCounter < sConf.ParallelTransfersMax
  PROVE  RegistryInv'
<1> USE DEF RegistryInv
<1>1. PICK s \in Sessions \ Created :
        Client' = [Client EXCEPT ![s] = c] /\ Goto(s, "load_slot")
  BY DEF StartSession
<1>2. /\ listener' \in {"session", "recvfrom"} /\ slot' = 0 /\ request' = Nobody
      /\ UNCHANGED <<TransferCounter, ActiveClientList, loaded, misplaced>>
  BY DEF StartSession
<1>3. /\ "load_slot" \in Labels /\ "load_slot" \notin CountedLabels \cup {"free", "delete"}
      /\ "load_slot" \in RegisterLabels
  BY DEF Labels, CountedLabels, PortLabels, RegisterLabels
<1>4. /\ ThreadsTypeOK' /\ pc'[s] = "load_slot"
      /\ \A t \in Sessions \ {s} : pc'[t] = pc[t]
      /\ Counted' = Counted \ {s} /\ Admitted' = Admitted \cup {s}
  <2> HIDE DEF CountedLabels
  <2> QED  BY <1>1, <1>3, SetsMove
<1>5. pc[s] = "free"  BY <1>1 DEF Created, Live
<1>6. s \notin Counted /\ s \notin InRegistry
  BY <1>5 DEF Counted, CountedLabels, PortLabels, InRegistry, RegisterLabels, UnregisterLabels
<1>7. Counted' = Counted  BY <1>4, <1>6
<1>8. overlapped' \in BOOLEAN /\ (~overlapped' => ~overlapped /\ OneAtATime')
  BY WatchSees DEF RegistryTypes
<1>9. RegistryTypes'  BY <1>1, <1>2, <1>8 DEF RegistryTypes, Slots
<1>10. ~Scanning'  BY <1>2 DEF Scanning
<1>11. ASSUME ~overlapped' PROVE CountInv' /\ LimitInv'
  <2>1. \A t \in InRegistry' : t = s
    <3>1. s \in InRegistry'  BY <1>3, <1>4 DEF InRegistry
    <3> QED  BY <1>8, <1>11, <3>1 DEF OneAtATime
  <2>2. InRegistry = {}
    <3> SUFFICES ASSUME NEW t \in InRegistry PROVE FALSE  OBVIOUS
    <3>1. t # s  BY <1>6
    <3>2. t \in InRegistry'  BY <1>4, <3>1 DEF InRegistry
    <3> QED  BY <2>1, <3>1, <3>2
  <2>3. CountInv /\ TransferCounter < sConf.ParallelTransfersMax  BY <1>8, <1>11
  <2>4. CountInv'
    <3>1. \A t \in InRegistry' : pc'[t] = "load_slot"  BY <1>4, <2>1
    <3> QED  BY <1>2, <1>7, <2>3, <3>1 DEF CountInv
  <2>5. Admitted = Counted  BY <2>2, RunningAndCounted
  <2>6. Cardinality(Admitted') = Cardinality(Counted) + 1
    <3>1. IsFiniteSet(Counted)  BY SessionSets DEF Counted
    <3> QED  BY <1>4, <1>6, <2>5, <3>1, FS_AddElement
  <2>7. TransferCounter = Cardinality(Counted) /\ TransferCounter \in Nat
    BY <2>3, CounterInSlots DEF CountInv
  <2>8. sConf.ParallelTransfersMax \in Nat  BY DEF ThreadsTypeOK, Settings
  <2>9. LimitInv'  BY <1>10, <2>3, <2>6, <2>7, <2>8 DEF LimitInv
  <2> QED  BY <2>4, <2>9
<1>12. ASSUME ListInv PROVE ListInv'
  <2>1. \A t \in Sessions : pc'[t] \in {"load_inc", "store_inc"} => pc[t] = pc'[t]
    BY <1>4
  <2> QED  BY <1>2, <1>7, <1>12, <2>1 DEF ListInv, Entries
<1>13. ScanInv'  BY <1>10 DEF ScanInv
<1> QED  BY <1>2, <1>4, <1>8, <1>9, <1>11, <1>12, <1>13

(* The listener passes an entry that is not the requester's: an entry      *)
(* below the counter is a session, so it is compared.                      *)
LEMMA ScanPasses ==
  ASSUME RegistryInv, ListInv, ScanInv, Scanning, slot' = slot + 1,
         UNCHANGED <<Client, TransferCounter, ActiveClientList, request>>,
         \/ Entry \in {NULL, Other}
         \/ UndefinedEntry \/ (Entry \in Sessions /\ Client[Entry] # request)
  PROVE  ScanInv'
<1>1. slot \in Nat  BY DEF RegistryInv, RegistryTypes
<1>2. SUFFICES ASSUME NEW i \in Entries, i < slot + 1
               PROVE  Client[ActiveClientList[i]] # request
  BY DEF ScanInv, Entries
<1>3. i < slot \/ i = slot  BY <1>1, <1>2, SMT DEF Entries
<1>4. CASE i < slot  BY <1>4 DEF ScanInv
<1>5. CASE i = slot
  <2>1. Entry \in Counted  BY <1>5 DEF ListInv, Entry
  <2>2. Entry \in Sessions /\ Entry \in Created
    BY <2>1 DEF Counted, CountedLabels, PortLabels, Created, Live
  <2> QED  BY <1>5, <2>2 DEF UndefinedEntry, Entry
<1> QED  BY <1>3, <1>4, <1>5

LEMMA ReceiveKeepsRegistry ==
  ASSUME RegistryInv, Watch, sConf' = sConf, NEW c \in Clients, AdmitRRQ(c) \/ RecvWRQ(c)
  PROVE  RegistryInv'
<1>1. CASE AdmitRRQ(c)
  BY <1>1, StartSessionKeeps DEF AdmitRRQ, Admissible
<1>2. CASE RecvWRQ(c)
  <2>1. /\ Admissible /\ slot' = 0 /\ 0 \in Nat /\ request' \in Clients \cup {Nobody}
        /\ UNCHANGED <<pc, Client, TransferCounter, ActiveClientList, loaded, misplaced>>
    BY <1>2 DEF RecvWRQ
  <2>2. ScanInv'  BY <2>1, SMT DEF ScanInv, Entries
  <2> QED  BY <2>1, <2>2, ListenerKeepsRegistry
<1> QED  BY <1>1, <1>2

LEMMA DecideKeepsRegistry ==
  ASSUME RegistryInv, Watch, sConf' = sConf, Decide
  PROVE  RegistryInv'
<1>1. slot \in Nat /\ slot + 1 \in Nat /\ TransferCounter \in Int
  BY DEF RegistryInv, RegistryTypes
<1>2. CASE AdmitWRQ
  <2>1. StartSession(request) /\ listener = "count"  BY <1>2 DEF AdmitWRQ
  <2>2. ~overlapped => TransferCounter < sConf.ParallelTransfersMax
    BY <2>1 DEF RegistryInv, LimitInv, Scanning
  <2>3. request \in Clients \cup {Nobody}  BY DEF RegistryInv, RegistryTypes
  <2> QED  BY <2>1, <2>2, <2>3, StartSessionKeeps
<1>3. ASSUME NEW label, NEW i \in Nat, ListenerGoto(label, i), Scanning,
             i = slot \/ (/\ i = slot + 1
                          /\ \/ Entry \in {NULL, Other}
                             \/ UndefinedEntry
                             \/ Entry \in Sessions /\ Client[Entry] # request)
      PROVE  RegistryInv'
  <2>1. /\ slot' = i
        /\ UNCHANGED <<pc, Client, TransferCounter, ActiveClientList, loaded, request, misplaced>>
    BY <1>3 DEF ListenerGoto
  <2>2. ASSUME ListInv, ScanInv PROVE ScanInv'
    <3>1. CASE i = slot  BY <1>3, <2>1, <2>2, <3>1 DEF ScanInv, Entries
    <3>2. CASE i # slot  BY <1>3, <2>1, <2>2, <3>2, ScanPasses
    <3> QED  BY <3>1, <3>2
  <2>3. request' \in Clients \cup {Nobody}  BY <2>1 DEF RegistryInv, RegistryTypes
  <2> QED  BY <1>3, <2>1, <2>2, <2>3, ListenerKeepsRegistry
<1>4. CASE ScanCount \/ Crash
  <2>1. Scanning /\ \E label : ListenerGoto(label, slot)
    BY <1>4 DEF ScanCount, Crash, Scanning
  <2> QED  BY <1>1, <1>3, <2>1
<1>5. CASE ScanTest
  <2>1. Scanning /\ \/ ListenerGoto("use", slot)
                    \/ Entry \in {NULL, Other} /\ ListenerGoto("count", slot + 1)
    BY <1>5 DEF ScanTest, Scanning
  <2> QED  BY <1>1, <1>3, <2>1
<1>6. CASE ScanNext
  <2>1. /\ Scanning /\ ListenerGoto("count", slot + 1)
        /\ UndefinedEntry \/ (Entry \in Sessions /\ Client[Entry] # request)
    BY <1>6 DEF ScanNext, Scanning
  <2> QED  BY <1>1, <1>3, <2>1
<1>7. CASE RefuseWRQ
  <2>1. /\ slot' = 0 /\ 0 \in Nat /\ ~Scanning' /\ request' \in Clients \cup {Nobody}
        /\ UNCHANGED <<pc, Client, TransferCounter, ActiveClientList, loaded, misplaced>>
    BY <1>7 DEF RefuseWRQ, Scanning
  <2> QED  BY <2>1, ListenerKeepsRegistry
<1> QED  BY <1>2, <1>4, <1>5, <1>6, <1>7 DEF Decide

-----------------------------------------------------------------------------
(* The invariant and what follows from it *)

LEMMA InitRegistryInv == ServerInit => RegistryInv
<1> SUFFICES ASSUME ServerInit PROVE RegistryInv  OBVIOUS
<1>1. /\ sConf \in Settings /\ pc = [s \in Sessions |-> "free"]
      /\ Client = [s \in Sessions |-> Nobody] /\ TransferCounter = 0
      /\ ActiveClientList = [i \in Slots |-> Other] /\ loaded = [s \in Sessions |-> 0]
      /\ listener = "recvfrom" /\ request = Nobody /\ slot = 0
      /\ overlapped = FALSE /\ misplaced = FALSE
  BY DEF ServerInit, ThreadsInit, RegistryInit
<1>2. ThreadsTypeOK  BY <1>1 DEF ThreadsTypeOK, Labels
<1>3. RegistryTypes
  <2>1. overlapped \in BOOLEAN /\ misplaced \in BOOLEAN  BY <1>1, Zenon
  <2>2. TransferCounter \in Int /\ slot \in Nat  BY <1>1, SMT
  <2>3. /\ Client \in [Sessions -> Clients \cup {Nobody}]
        /\ ActiveClientList \in [Slots -> Sessions \cup {NULL, Other}]
        /\ loaded \in [Sessions -> Int]
    BY <1>1
  <2>4. request \in Clients \cup {Nobody}  BY <1>1
  <2> QED  BY <2>1, <2>2, <2>3, <2>4 DEF RegistryTypes
<1>4. /\ Counted = {} /\ Admitted = {} /\ InRegistry = {}
  BY <1>1 DEF Counted, Admitted, InRegistry, CountedLabels, PortLabels, RegisterLabels,
              UnregisterLabels
<1>5. Cardinality({}) = 0  BY FS_EmptySet
<1>6. sConf.ParallelTransfersMax \in Nat  BY <1>1 DEF Settings
<1>7. ~Scanning  BY <1>1 DEF Scanning
<1>8. OneAtATime /\ CountInv /\ LimitInv
  BY <1>1, <1>4, <1>5, <1>6, <1>7 DEF OneAtATime, CountInv, LimitInv
<1>9. Entries = {}  BY <1>1, SMT DEF Entries
<1>10. ListInv /\ ScanInv  BY <1>1, <1>4, <1>7, <1>9 DEF ListInv, ScanInv
<1> QED  BY <1>2, <1>3, <1>8, <1>10 DEF RegistryInv

LEMMA NextRegistryInv == RegistryInv /\ [ServerNext]_serverVars => RegistryInv'
<1> SUFFICES ASSUME RegistryInv, [ServerNext]_serverVars PROVE RegistryInv'  OBVIOUS
<1>1. CASE UNCHANGED serverVars
  <2>1. UNCHANGED <<sConf, pc, Client, TransferCounter, ActiveClientList, loaded, listener,
                    request, slot, overlapped, misplaced>>
    BY <1>1 DEF serverVars, registryVars
  <2> QED
    BY <2>1 DEF RegistryInv, ThreadsTypeOK, RegistryTypes, Slots, OneAtATime, InRegistry,
                Scanning, CountInv, Counted, LimitInv, Admitted, ListInv, Entries, ScanInv
<1>2. ASSUME ServerNext PROVE RegistryInv'
  <2>1. Watch /\ sConf' = sConf  BY <1>2 DEF ServerNext
  <2>2. CASE Receive  BY <2>1, <2>2, ReceiveKeepsRegistry DEF Receive
  <2>3. CASE Decide  BY <2>1, <2>3, DecideKeepsRegistry
  <2>4. CASE ListenAgain
    <3>1. /\ listener' = "recvfrom"
          /\ UNCHANGED <<pc, Client, TransferCounter, ActiveClientList, loaded, request,
                         slot, misplaced>>
      BY <2>4 DEF ListenAgain
    <3>2. ~Scanning'  BY <3>1 DEF Scanning
    <3>3. slot' \in Nat /\ request' \in Clients \cup {Nobody}
      BY <3>1 DEF RegistryInv, RegistryTypes
    <3> QED  BY <2>1, <3>1, <3>2, <3>3, ListenerKeepsRegistry
  <2>5. ASSUME NEW s \in Sessions, Thread(s) PROVE RegistryInv'
    <3>1. CASE RegistryStep(s)
      BY <2>1, <3>1, RegistryStepKeeps, RegistryCountInv, RegistryListInv
    <3>2. CASE ~RegistryStep(s)
      BY <2>1, <2>5, <3>2, ThreadOutsideRegistry DEF Thread
    <3> QED  BY <3>1, <3>2
  <2> QED  BY <1>2, <2>2, <2>3, <2>4, <2>5 DEF ServerNext
<1> QED  BY <1>1, <1>2

(* As long as nobody has met anybody, the counter counts the sessions; and *)
(* as long as they have ended in the reverse order, the list lists them.   *)
THEOREM RegistryInvariant == ServerSpec => []RegistryInv
BY InitRegistryInv, NextRegistryInv, PTL DEF ServerSpec

(* The counter is the number of running sessions while no two threads were *)
(* in the registry's code at once.                                         *)
THEOREM CounterIsExact == ServerSpec => []CounterExact
<1>1. RegistryInv => CounterExact
  BY RunningAndCounted DEF RegistryInv, CounterExact, CountInv
<1> QED  BY <1>1, RegistryInvariant, PTL

(* The entries below the counter are those of the running sessions, if     *)
(* besides every session ended before those that registered earlier.       *)
THEOREM ListIsExact == ServerSpec => []ListExact
<1>1. RegistryInv => ListExact
  <2> SUFFICES ASSUME ListInv, Running = Counted
               PROVE  {ActiveClientList[i] : i \in 0 .. TransferCounter - 1} = Running
    BY RunningAndCounted DEF RegistryInv, ListExact
  <2> QED  BY DEF ListInv, Entries
<1> QED  BY <1>1, RegistryInvariant, PTL

(* At most ParallelTransfersMax sessions are admitted while the counter's  *)
(* reader and its writers have not met.                                    *)
THEOREM LimitIsKept == ServerSpec => []ParallelLimitOneByOne
<1>1. RegistryInv => ParallelLimitOneByOne
  BY RunningAndCounted DEF RegistryInv, ParallelLimitOneByOne, ParallelLimit, LimitInv
<1> QED  BY <1>1, RegistryInvariant, PTL

(* Under the conditions of ListExact, a write request that the scan lets   *)
(* pass is of a client that has no session.                                *)
THEOREM DuplicatesAreRefused == ServerSpec => DuplicatesRefused
<1>1. RegistryInv /\ [ServerNext]_serverVars
        => [AdmitWRQ => overlapped \/ misplaced
                          \/ \A s \in Running : Client[s] # request]_serverVars
  <2> SUFFICES ASSUME RegistryInv, AdmitWRQ, ~overlapped, ~misplaced, NEW s \in Running
               PROVE  Client[s] # request
    OBVIOUS
  <2>1. listener = "count" /\ ~(slot < TransferCounter)  BY DEF AdmitWRQ, MoreEntries
  <2>2. Scanning /\ ListInv /\ ScanInv /\ OneAtATime /\ ThreadsTypeOK
    BY <2>1 DEF Scanning, RegistryInv
  <2>3. s \in Counted  BY <2>2, RunningAndCounted DEF OneAtATime
  <2>4. PICK i \in Entries : ActiveClientList[i] = s  BY <2>2, <2>3 DEF ListInv
  <2>5. slot \in Nat /\ TransferCounter \in Int  BY DEF RegistryInv, RegistryTypes
  <2>6. i < slot  BY <2>1, <2>4, <2>5, SMT DEF Entries
  <2> QED  BY <2>2, <2>4, <2>6 DEF ScanInv
<1> QED  BY <1>1, RegistryInvariant, PTL DEF ServerSpec, DuplicatesRefused

-----------------------------------------------------------------------------
(* What the threads do to the list's memory *)

(* An entry below the counter is a session's, also after sessions ended in *)
(* another order than they began, and the scan is at such an entry.        *)
EntriesInv ==
  /\ \A i \in Entries : ActiveClientList[i] \in Sessions
  /\ \A s \in Sessions :
       pc[s] \in {"load_inc", "store_inc"} => ActiveClientList[TransferCounter] = s

PlaceInv ==
  /\ listener # "crashed"
  /\ listener \in {"test", "use"} => slot < TransferCounter

AccessInv == ~overlapped => EntriesInv /\ PlaceInv

(* Steps that change neither the counter nor the list. *)
LEMMA OthersKeepAccess ==
  ASSUME RegistryInv, AccessInv, Watch, UNCHANGED <<TransferCounter, ActiveClientList>>,
         \A s \in Sessions : pc'[s] \in {"load_inc", "store_inc"} => pc[s] = pc'[s],
         EntriesInv /\ PlaceInv => PlaceInv'
  PROVE  AccessInv'
<1>1. ~overlapped' => ~overlapped  BY WatchSees DEF RegistryInv, RegistryTypes
<1>2. EntriesInv => EntriesInv'  BY DEF EntriesInv, Entries
<1> QED  BY <1>1, <1>2 DEF AccessInv

(* A store to the list is to the entry behind the last one; the counter    *)
(* passes it after, or has passed it back before.                          *)
LEMMA RegistryStepKeepsAccess ==
  ASSUME RegistryInv, AccessInv, Watch, NEW s \in Sessions, RegistryStep(s), sConf' = sConf
  PROVE  AccessInv'
<1> SUFFICES ASSUME ~overlapped' PROVE EntriesInv' /\ PlaceInv'  BY DEF AccessInv
<1>1. /\ pc[s] \in RegisterLabels \cup UnregisterLabels /\ pc'[s] = NextLabel(pc[s])
      /\ ~overlapped /\ ~Scanning' /\ \A t \in InRegistry' : t = s
  BY RegistryFrame
<1>2. CountInv /\ RegistryTypes /\ EntriesInv /\ PlaceInv
  BY <1>1 DEF RegistryInv, AccessInv
<1>3. TransferCounter \in Nat /\ TransferCounter \in Slots
  BY <1>2, CounterInSlots, SMT
<1>4. loaded[s] = TransferCounter
        \/ pc[s] \notin {"store_slot", "store_inc", "store_dec", "store_clear"}
  BY <1>1, <1>2 DEF CountInv, InRegistry
<1>5. ASSUME NEW t \in Sessions, pc'[t] \in {"load_inc", "store_inc"} PROVE t = s
  BY <1>1, <1>5 DEF InRegistry, RegisterLabels
<1>6. PlaceInv'
  <2>1. UNCHANGED listenerVars  BY DEF RegistryStep
  <2> QED  BY <1>1, <1>2, <2>1 DEF PlaceInv, Scanning, listenerVars
<1>7. EntriesInv'
  <2>1. CASE Load(s)
    <3>1. /\ TransferCounter' = TransferCounter /\ ActiveClientList' = ActiveClientList
          /\ pc[s] \in {"load_slot", "load_inc", "load_dec", "load_clear"}
      BY <2>1 DEF Load
    <3>2. pc'[s] \in {"load_inc", "store_inc"} => pc[s] = "load_inc"
      BY <1>1, <3>1 DEF NextLabel
    <3> QED  BY <1>2, <1>5, <3>1, <3>2 DEF EntriesInv, Entries
  <2>2. CASE StoreSlot(s)
    <3>1. /\ TransferCounter' = TransferCounter
          /\ ActiveClientList' = [ActiveClientList EXCEPT ![TransferCounter] = s]
      BY <1>4, <2>2 DEF StoreSlot
    <3>2. /\ ActiveClientList'[TransferCounter] = s
          /\ \A i \in Entries : ActiveClientList'[i] = ActiveClientList[i]
      BY <1>2, <1>3, <3>1, SMT DEF RegistryTypes, Entries
    <3> QED  BY <1>2, <1>5, <3>1, <3>2 DEF EntriesInv, Entries
  <2>3. CASE Increment(s)
    <3>1. /\ TransferCounter' = TransferCounter + 1 /\ ActiveClientList' = ActiveClientList
          /\ pc[s] = "store_inc"
      BY <1>4, <2>3 DEF Increment
    <3>2. Entries' = Entries \cup {TransferCounter}  BY <1>3, <3>1, SMT DEF Entries
    <3>3. ActiveClientList[TransferCounter] = s  BY <1>2, <3>1 DEF EntriesInv
    <3>4. pc'[s] \notin {"load_inc", "store_inc"}  BY <1>1, <3>1 DEF NextLabel
    <3> QED  BY <1>2, <1>5, <3>1, <3>2, <3>3, <3>4 DEF EntriesInv
  <2>4. CASE Decrement(s)
    <3>1. /\ TransferCounter' = TransferCounter - 1 /\ ActiveClientList' = ActiveClientList
          /\ pc[s] = "store_dec"
      BY <1>4, <2>4 DEF Decrement
    <3>2. Entries' \subseteq Entries  BY <1>3, <3>1, SMT DEF Entries
    <3>3. pc'[s] \notin {"load_inc", "store_inc"}  BY <1>1, <3>1 DEF NextLabel
    <3> QED  BY <1>2, <1>5, <3>1, <3>2, <3>3 DEF EntriesInv
  <2>5. CASE ClearSlot(s)
    <3>1. /\ TransferCounter' = TransferCounter
          /\ ActiveClientList' = [ActiveClientList EXCEPT ![TransferCounter] = NULL]
          /\ pc[s] = "store_clear"
      BY <1>4, <2>5 DEF ClearSlot
    <3>2. \A i \in Entries : ActiveClientList'[i] = ActiveClientList[i]
      BY <1>2, <1>3, <3>1, SMT DEF RegistryTypes, Entries
    <3>3. pc'[s] \notin {"load_inc", "store_inc"}  BY <1>1, <3>1 DEF NextLabel
    <3> QED  BY <1>2, <1>5, <3>1, <3>2, <3>3 DEF EntriesInv, Entries
  <2> QED  BY <2>1, <2>2, <2>3, <2>4, <2>5 DEF RegistryStep
<1> QED  BY <1>6, <1>7

(* A thread outside the registry's code, and where it goes. *)
StoreLabels == {"store_slot", "store_inc", "store_dec", "store_clear"}

LEMMA OutsideMoves ==
  ASSUME NEW s \in Sessions, Thread(s), ~RegistryStep(s)
  PROVE  /\ UNCHANGED <<TransferCounter, ActiveClientList, loaded>>
         /\ UNCHANGED listenerVars
         /\ \E l \in Labels \ RegisterLabels :
              /\ Goto(s, l)
              /\ l \in CountedLabels => pc[s] \in CountedLabels
              /\ pc[s] \notin RegisterLabels \cup StoreLabels /\ l \notin StoreLabels
<1> DEFINE Places == {"socket", "transfer"} \cup PortLabels
           Ends   == {"load_dec", "free"}
<1>1. CASE CreateCommUDPSocket(s) /\ UNCHANGED registryVars
  <2>1. UNCHANGED <<TransferCounter, ActiveClientList, loaded>> /\ UNCHANGED listenerVars
    BY <1>1 DEF registryVars, listenerVars
  <2>2. pc[s] \in Places /\ \E l \in Places : Goto(s, l)
    BY <1>1, TryAgainMoves DEF CreateCommUDPSocket, ReuseServerSocket, CreateSocket, Return,
       BindAndConnect, LoadPort, StorePort, CheckPort, FixPort, PortLabels
  <2>3. /\ Places \subseteq Labels \ RegisterLabels /\ Places \subseteq CountedLabels
        /\ Places \cap (RegisterLabels \cup StoreLabels) = {}
    BY DEF CountedLabels, PortLabels, Labels, RegisterLabels, StoreLabels
  <2> HIDE DEF Places
  <2> QED  BY <2>1, <2>2, <2>3
<1>2. CASE RefuseRequest(s) \/ EndTransfer(s)
  <2>1. /\ UNCHANGED <<TransferCounter, ActiveClientList, loaded>> /\ UNCHANGED listenerVars
        /\ pc[s] \in {"socket", "transfer"} /\ Goto(s, "load_dec")
    BY <1>2 DEF RefuseRequest, EndTransfer, LeaveLoop
  <2> QED  BY <2>1 DEF Labels, RegisterLabels, UnregisterLabels, CountedLabels, StoreLabels
<1>3. CASE DeleteSession(s)
  <2>1. /\ UNCHANGED <<TransferCounter, ActiveClientList, loaded>> /\ UNCHANGED listenerVars
        /\ pc[s] = "delete" /\ Goto(s, "free")
    BY <1>3 DEF DeleteSession
  <2> QED  BY <2>1 DEF Labels, RegisterLabels, CountedLabels, PortLabels, StoreLabels
<1> QED  BY <1>1, <1>2, <1>3 DEF Thread

LEMMA NextAccessInv ==
  ASSUME RegistryInv, AccessInv, [ServerNext]_serverVars
  PROVE  AccessInv'
<1>1. ThreadsTypeOK /\ RegistryTypes  BY DEF RegistryInv
<1>2. CASE UNCHANGED serverVars
  BY <1>2 DEF serverVars, registryVars, AccessInv, EntriesInv, PlaceInv, Entries
<1>3. ASSUME ServerNext PROVE AccessInv'
  <2>1. Watch /\ sConf' = sConf  BY <1>3 DEF ServerNext
  <2>2. ASSUME NEW c, StartSession(c) PROVE AccessInv'
    <3>1. PICK s \in Sessions \ Created : Goto(s, "load_slot")  BY <2>2 DEF StartSession
    <3>2. \A t \in Sessions : pc'[t] \in {"load_inc", "store_inc"} => pc[t] = pc'[t]
      BY <1>1, <3>1 DEF Goto, ThreadsTypeOK
    <3>3. /\ listener' \in {"session", "recvfrom"}
          /\ UNCHANGED <<TransferCounter, ActiveClientList>>
      BY <2>2 DEF StartSession
    <3> QED  BY <2>1, <3>2, <3>3, OthersKeepAccess DEF PlaceInv
  <2>3. ASSUME NEW c, RecvWRQ(c) PROVE AccessInv'
    BY <2>1, <2>3, OthersKeepAccess DEF RecvWRQ, PlaceInv
  <2>4. CASE Receive  BY <2>2, <2>3, <2>4 DEF Receive, AdmitRRQ
  <2>5. CASE ScanCount
    BY <2>1, <2>5, OthersKeepAccess DEF ScanCount, MoreEntries, ListenerGoto, PlaceInv
  <2>6. CASE ScanTest \/ ScanNext
    <3>1. PICK label, i : /\ ListenerGoto(label, i)
                          /\ \/ label = "count"
                             \/ label = "use" /\ listener = "test" /\ i = slot
      BY <2>6, Zenon DEF ScanTest, ScanNext
    <3>2. /\ UNCHANGED <<pc, TransferCounter, ActiveClientList>>
          /\ listener' = label /\ slot' = i
      BY <3>1 DEF ListenerGoto
    <3> QED  BY <2>1, <3>1, <3>2, OthersKeepAccess DEF PlaceInv
  <2>7. CASE RefuseWRQ
    BY <2>1, <2>7, OthersKeepAccess DEF RefuseWRQ, PlaceInv
  <2>8. CASE Crash
    <3>1. /\ UNCHANGED <<pc, TransferCounter, ActiveClientList>>
          /\ listener = "use" /\ Entry \in {NULL, Other}
      BY <2>8 DEF Crash, ListenerGoto
    <3>2. ~(EntriesInv /\ PlaceInv)
      <4> SUFFICES ASSUME EntriesInv, PlaceInv PROVE FALSE  OBVIOUS
      <4>1. slot \in Entries
        BY <1>1, <3>1, SMT DEF PlaceInv, Entries, RegistryTypes
      <4> QED  BY <3>1, <4>1 DEF EntriesInv, Entry
    <3> QED  BY <2>1, <3>1, <3>2, OthersKeepAccess
  <2>9. CASE Decide
    <3>1. ASSUME AdmitWRQ PROVE AccessInv'  BY <2>2, <3>1 DEF AdmitWRQ
    <3> QED  BY <2>5, <2>6, <2>7, <2>8, <2>9, <3>1 DEF Decide
  <2>10. CASE ListenAgain
    BY <2>1, <2>10, OthersKeepAccess DEF ListenAgain, PlaceInv
  <2>11. ASSUME NEW s \in Sessions, Thread(s) PROVE AccessInv'
    <3>1. CASE RegistryStep(s)  BY <2>1, <3>1, RegistryStepKeepsAccess
    <3>2. CASE ~RegistryStep(s)
      <4>1. PICK l \in Labels \ RegisterLabels : Goto(s, l)  BY <2>11, <3>2, OutsideMoves
      <4>2. \A t \in Sessions : pc'[t] \in {"load_inc", "store_inc"} => pc[t] = pc'[t]
        BY <1>1, <4>1 DEF Goto, ThreadsTypeOK, RegisterLabels
      <4>3. PlaceInv => PlaceInv'
        BY <2>11, <3>2, OutsideMoves DEF PlaceInv, listenerVars
      <4> QED  BY <2>1, <2>11, <3>2, <4>2, <4>3, OutsideMoves, OthersKeepAccess
    <3> QED  BY <3>1, <3>2
  <2> QED  BY <1>3, <2>4, <2>9, <2>10, <2>11 DEF ServerNext
<1> QED  BY <1>2, <1>3

LEMMA InitAccessInv == ServerInit => AccessInv
<1> SUFFICES ASSUME ServerInit PROVE AccessInv  OBVIOUS
<1>1. /\ pc = [s \in Sessions |-> "free"] /\ TransferCounter = 0 /\ listener = "recvfrom"
  BY DEF ServerInit, ThreadsInit, RegistryInit
<1>2. Entries = {}  BY <1>1, SMT DEF Entries
<1> QED  BY <1>1, <1>2 DEF AccessInv, EntriesInv, PlaceInv

(* As long as nobody has met anybody: no store outside the list, no        *)
(* pointer dereferenced but a session's, and one that runs if the sessions *)
(* ended in the reverse order.                                             *)
THEOREM ListAccessesAreSafe == ServerSpec => []ListAccessSafe
<1>1. RegistryInv /\ AccessInv => ListAccessSafe
  <2> SUFFICES ASSUME RegistryInv, AccessInv, ~overlapped
               PROVE  /\ listener # "crashed"
                      /\ \A s \in Sessions : pc[s] \in {"store_slot", "store_clear"}
                                               => loaded[s] \in Index
                      /\ listener \in {"test", "use"} =>
                           /\ slot \in Index
                           /\ Entry \in IF misplaced THEN Sessions ELSE Running
    BY DEF ListAccessSafe
  <2>1. /\ ThreadsTypeOK /\ RegistryTypes /\ OneAtATime /\ CountInv /\ LimitInv
        /\ EntriesInv /\ PlaceInv
    BY DEF RegistryInv, AccessInv
  <2>2. TransferCounter \in Nat /\ sConf.ParallelTransfersMax \in Nat
    BY <2>1, CounterInSlots DEF ThreadsTypeOK, Settings
  <2>3. TransferCounter <= sConf.ParallelTransfersMax
    <3>1. Counted \subseteq Admitted /\ Admitted \in SUBSET Sessions
      BY DEF Counted, Admitted, CountedLabels, PortLabels
    <3>2. /\ Cardinality(Counted) <= Cardinality(Admitted)
          /\ Cardinality(Counted) \in Nat /\ Cardinality(Admitted) \in Nat
      BY <3>1, SessionSets, FS_Subset
    <3> QED  BY <2>1, <2>2, <3>2 DEF CountInv, LimitInv
  <2>4. ASSUME NEW s \in Sessions, pc[s] \in {"store_slot", "store_clear"}
        PROVE  loaded[s] \in Index
    <3>1. loaded[s] = TransferCounter
      BY <2>1, <2>4 DEF CountInv, InRegistry, RegisterLabels, UnregisterLabels
    <3> QED  BY <2>2, <2>3, <3>1 DEF Index
  <2>5. ASSUME listener \in {"test", "use"}
        PROVE  slot \in Index /\ Entry \in IF misplaced THEN Sessions ELSE Running
    <3>1. slot \in Nat /\ slot < TransferCounter  BY <2>1, <2>5 DEF RegistryTypes, PlaceInv
    <3>2. slot \in Index  BY <2>2, <2>3, <3>1 DEF Index
    <3>3. slot \in Entries  BY <2>2, <3>1, SMT DEF Entries
    <3>4. Entry \in Sessions  BY <2>1, <3>3 DEF EntriesInv, Entry
    <3>5. ASSUME ~misplaced PROVE Entry \in Running
      <4>1. Entry \in Counted  BY <3>3, <3>5 DEF RegistryInv, ListInv, Entry
      <4>2. InRegistry = {}  BY <2>1, <2>5 DEF OneAtATime, Scanning
      <4> QED  BY <2>1, <4>1, <4>2, RunningAndCounted
    <3> QED  BY <3>2, <3>4, <3>5
  <2> QED  BY <2>1, <2>4, <2>5 DEF PlaceInv
<1>2. RegistryInv /\ AccessInv /\ [ServerNext]_serverVars => AccessInv'
  BY NextAccessInv
<1> QED  BY <1>1, <1>2, InitAccessInv, RegistryInvariant, PTL DEF ServerSpec

-----------------------------------------------------------------------------
(* How far a counter can go wrong *)

(* The sessions that will still increment, or decrement, TransferCounter.  *)
ToIncrement == {s \in Sessions : pc[s] \in RegisterLabels}
ToDecrement == {s \in Sessions : pc[s] \in RegisterLabels \cup CountedLabels}

(* Room for each increment and each decrement that is still to come, and   *)
(* lost by every store of a value that was loaded earlier.                 *)
Room(x, increments, decrements) ==
  /\ x + increments <= Cardinality(Sessions)
  /\ decrements <= x + Cardinality(Sessions)

InMemory(x) == Room(x, Cardinality(ToIncrement), Cardinality(ToDecrement))

ListenerLabels == {"recvfrom", "session", "count", "test", "use", "crashed"}

(* As StartSession starts no session after two threads have met, the       *)
(* counter and every copy of it in a register stay indices of the memory   *)
(* the model has.                                                          *)
CopiesInv ==
  /\ InMemory(TransferCounter)
  /\ \A s \in Sessions : InMemory(loaded[s])
  /\ \A s \in Sessions : pc[s] \notin StoreLabels => loaded[s] = 0

SlotInv ==
  /\ listener \in ListenerLabels
  /\ slot <= Cardinality(Sessions)
  /\ listener \in {"test", "use"} => slot < Cardinality(Sessions)

MemoryInv == CopiesInv /\ SlotInv

LEMMA RoomShrinks ==
  ASSUME NEW x \in Int, NEW i \in Nat, NEW d \in Nat, NEW j \in Nat, NEW e \in Nat,
         j <= i, e <= d, Room(x, i, d)
  PROVE  Room(x, j, e)
BY SessionSets, SMT DEF Room

LEMMA SetsToCome ==
  /\ Cardinality(ToIncrement) \in Nat /\ Cardinality(ToIncrement) <= Cardinality(Sessions)
  /\ Cardinality(ToDecrement) \in Nat /\ Cardinality(ToDecrement) <= Cardinality(Sessions)
  /\ IsFiniteSet(ToIncrement) /\ IsFiniteSet(ToDecrement)
<1>1. ToIncrement \in SUBSET Sessions /\ ToDecrement \in SUBSET Sessions
  BY DEF ToIncrement, ToDecrement
<1> QED  BY <1>1, SessionSets

(* Once started, a session only uses up what it was going to do. *)
LEMMA SetsShrink ==
  ASSUME ThreadsTypeOK, NEW s \in Sessions, NEW l \in Labels, Goto(s, l),
         l \in RegisterLabels => pc[s] \in RegisterLabels,
         l \in CountedLabels => pc[s] \in RegisterLabels \cup CountedLabels
  PROVE  /\ Cardinality(ToIncrement') \in Nat /\ Cardinality(ToDecrement') \in Nat
         /\ Cardinality(ToIncrement') <= Cardinality(ToIncrement)
         /\ Cardinality(ToDecrement') <= Cardinality(ToDecrement)
         /\ pc[s] \in RegisterLabels /\ l \notin RegisterLabels
              => Cardinality(ToIncrement') = Cardinality(ToIncrement) - 1
         /\ pc[s] \in RegisterLabels \cup CountedLabels
              /\ l \notin RegisterLabels \cup CountedLabels
              => Cardinality(ToDecrement') = Cardinality(ToDecrement) - 1
<1>1. pc'[s] = l /\ \A t \in Sessions \ {s} : pc'[t] = pc[t]
  BY DEF Goto, ThreadsTypeOK
<1> HIDE DEF CountedLabels
<1>2. ToIncrement' \subseteq ToIncrement /\ ToDecrement' \subseteq ToDecrement
  BY <1>1 DEF ToIncrement, ToDecrement
<1>3. IsFiniteSet(ToIncrement) /\ IsFiniteSet(ToDecrement)  BY SetsToCome
<1>4. /\ Cardinality(ToIncrement') \in Nat /\ Cardinality(ToDecrement') \in Nat
      /\ Cardinality(ToIncrement') <= Cardinality(ToIncrement)
      /\ Cardinality(ToDecrement') <= Cardinality(ToDecrement)
  BY <1>2, <1>3, FS_Subset, FS_CardinalityType
<1>5. ASSUME pc[s] \in RegisterLabels, l \notin RegisterLabels
      PROVE  Cardinality(ToIncrement') = Cardinality(ToIncrement) - 1
  <2>1. s \in ToIncrement /\ ToIncrement' = ToIncrement \ {s}
    BY <1>1, <1>5 DEF ToIncrement
  <2> QED  BY <1>3, <2>1, FS_RemoveElement
<1>6. ASSUME pc[s] \in RegisterLabels \cup CountedLabels,
             l \notin RegisterLabels \cup CountedLabels
      PROVE  Cardinality(ToDecrement') = Cardinality(ToDecrement) - 1
  <2>1. s \in ToDecrement /\ ToDecrement' = ToDecrement \ {s}
    BY <1>1, <1>6 DEF ToDecrement
  <2> QED  BY <1>3, <2>1, FS_RemoveElement
<1> QED  BY <1>4, <1>5, <1>6

(* A store gives back a value that may be old, with the room it had then. *)
LEMMA RegistryStepKeepsCopies ==
  ASSUME ThreadsTypeOK, RegistryTypes, CopiesInv, NEW s \in Sessions, RegistryStep(s)
  PROVE  CopiesInv'
<1>1. /\ pc[s] \in RegisterLabels \cup UnregisterLabels
      /\ Goto(s, NextLabel(pc[s]))
      /\ Load(s) \/ StoreSlot(s) \/ Increment(s) \/ Decrement(s) \/ ClearSlot(s)
  BY DEF RegistryStep, Load, StoreSlot, Increment, Decrement, ClearSlot,
         RegisterLabels, UnregisterLabels
<1>2. pc[s] \in {"load_slot", "store_slot", "load_inc", "store_inc",
                 "load_dec", "store_dec", "load_clear", "store_clear"}
  BY <1>1 DEF RegisterLabels, UnregisterLabels
<1> DEFINE l == NextLabel(pc[s])
           inc == Cardinality(ToIncrement)  inc2 == Cardinality(ToIncrement')
           dec == Cardinality(ToDecrement)  dec2 == Cardinality(ToDecrement')
<1>3. /\ l \in Labels
      /\ l \in RegisterLabels => pc[s] \in RegisterLabels
      /\ l \in CountedLabels => pc[s] \in RegisterLabels \cup CountedLabels
      /\ l \in StoreLabels <=> pc[s] \in {"load_slot", "load_inc", "load_dec", "load_clear"}
      /\ pc[s] = "store_inc" => pc[s] \in RegisterLabels /\ l \notin RegisterLabels
      /\ pc[s] = "store_dec" => /\ pc[s] \in RegisterLabels \cup CountedLabels
                                /\ l \notin RegisterLabels \cup CountedLabels
  BY <1>2 DEF NextLabel, Labels, RegisterLabels, UnregisterLabels, CountedLabels, PortLabels,
              StoreLabels
<1>4. pc'[s] = l /\ \A t \in Sessions \ {s} : pc'[t] = pc[t]
  BY <1>1 DEF Goto, ThreadsTypeOK
<1>5. /\ inc \in Nat /\ dec \in Nat /\ inc2 \in Nat /\ dec2 \in Nat
      /\ inc2 <= inc /\ dec2 <= dec
      /\ pc[s] = "store_inc" => inc2 = inc - 1
      /\ pc[s] = "store_dec" => dec2 = dec - 1
  <2> HIDE DEF CountedLabels, l
  <2> QED  BY <1>1, <1>3, SetsShrink, SetsToCome DEF l
<1>6. /\ TransferCounter \in Int /\ \A t \in Sessions : loaded[t] \in Int
      /\ Room(TransferCounter, inc, dec) /\ \A t \in Sessions : Room(loaded[t], inc, dec)
      /\ \A t \in Sessions : pc[t] \notin StoreLabels => loaded[t] = 0
  BY DEF RegistryTypes, CopiesInv, InMemory
<1> DEFINE x == TransferCounter'  r == loaded'[s]
<1>7. /\ \/ x = TransferCounter
         \/ x = loaded[s] + 1 /\ pc[s] = "store_inc"
         \/ x = loaded[s] - 1 /\ pc[s] = "store_dec"
      /\ \/ pc[s] \in {"load_slot", "load_inc", "load_dec", "load_clear"} /\ r = TransferCounter
         \/ r = 0
      /\ \A t \in Sessions \ {s} : loaded'[t] = loaded[t]
  BY <1>1 DEF Load, StoreSlot, Increment, Decrement, ClearSlot, RegistryTypes
<1> HIDE DEF inc, dec, inc2, dec2, x, r, l
<1>8. Cardinality(Sessions) \in Nat  BY SessionSets
<1>9. Room(x, inc2, dec2)
  <2>1. CASE x = TransferCounter  BY <1>5, <1>6, <2>1, RoomShrinks
  <2>2. CASE x = loaded[s] + 1 /\ pc[s] = "store_inc"
    BY <1>5, <1>6, <1>8, <2>2, SMT DEF Room
  <2>3. CASE x = loaded[s] - 1 /\ pc[s] = "store_dec"
    BY <1>5, <1>6, <1>8, <2>3, SMT DEF Room
  <2> QED  BY <1>7, <2>1, <2>2, <2>3
<1>10. Room(0, inc2, dec2)
  <2>1. inc <= Cardinality(Sessions) /\ dec <= Cardinality(Sessions)
    BY SetsToCome DEF inc, dec
  <2> QED  BY <1>5, <1>8, <2>1, SMT DEF Room
<1>11. \A t \in Sessions : Room(loaded'[t], inc2, dec2)
  <2> SUFFICES ASSUME NEW t \in Sessions PROVE Room(loaded'[t], inc2, dec2)  OBVIOUS
  <2>1. CASE t = s
    <3>1. Room(TransferCounter, inc2, dec2)  BY <1>5, <1>6, RoomShrinks
    <3> QED  BY <1>7, <1>10, <2>1, <3>1 DEF r
  <2>2. CASE t # s
    <3>1. loaded[t] \in Int /\ Room(loaded[t], inc, dec)  BY <1>6
    <3>2. Room(loaded[t], inc2, dec2)  BY <1>5, <3>1, RoomShrinks
    <3> QED  BY <1>7, <2>2, <3>2
  <2> QED  BY <2>1, <2>2
<1>12. \A t \in Sessions : pc'[t] \notin StoreLabels => loaded'[t] = 0
  BY <1>3, <1>4, <1>6, <1>7 DEF l, r
<1> QED  BY <1>9, <1>11, <1>12 DEF CopiesInv, InMemory, inc2, dec2, x

(* Bound: no session is started once accesses have met; before that the    *)
(* counter is exact.                                                       *)
LEMMA StartKeepsCopies ==
  ASSUME RegistryInv, CopiesInv, NEW c, StartSession(c)
  PROVE  CopiesInv'
<1>1. PICK s \in Sessions \ Created : Goto(s, "load_slot")  BY DEF StartSession
<1>2. /\ ThreadsTypeOK /\ RegistryTypes /\ CountInv
      /\ TransferCounter' = TransferCounter /\ loaded' = loaded
  BY DEF StartSession, RegistryInv
<1>3. pc[s] = "free" /\ pc'[s] = "load_slot" /\ \A t \in Sessions \ {s} : pc'[t] = pc[t]
  BY <1>1, <1>2 DEF Created, Live, Goto, ThreadsTypeOK
<1>4. /\ Cardinality(ToIncrement') \in Nat /\ Cardinality(ToDecrement') \in Nat
      /\ Cardinality(ToDecrement') <= Cardinality(Sessions)
      /\ IsFiniteSet(ToIncrement')
  <2>1. ToIncrement' \in SUBSET Sessions /\ ToDecrement' \in SUBSET Sessions
    BY DEF ToIncrement, ToDecrement
  <2> QED  BY <2>1, SessionSets
<1>5. TransferCounter \in Nat /\ TransferCounter + Cardinality(ToIncrement') <= Cardinality(Sessions)
  <2>1. Counted \cap ToIncrement' = {}
    <3>1. RegisterLabels \cap CountedLabels = {} /\ "load_slot" \notin CountedLabels
          /\ "free" \notin CountedLabels
      BY DEF RegisterLabels, CountedLabels, PortLabels
    <3> HIDE DEF CountedLabels
    <3> QED  BY <1>3, <3>1 DEF Counted, ToIncrement
  <2>2. /\ Counted \in SUBSET Sessions /\ IsFiniteSet(Counted)
        /\ Counted \cup ToIncrement' \in SUBSET Sessions
    BY SessionSets DEF Counted, ToIncrement
  <2>3. Cardinality(Counted \cup ToIncrement') = Cardinality(Counted) + Cardinality(ToIncrement')
    <3>1. Cardinality(Counted \cup ToIncrement')
            = Cardinality(Counted) + Cardinality(ToIncrement')
                - Cardinality(Counted \cap ToIncrement')
      BY <1>4, <2>2, FS_Union
    <3>2. Cardinality(Counted \cap ToIncrement') = 0  BY <2>1, FS_EmptySet
    <3>3. Cardinality(Counted) \in Nat  BY <2>2, SessionSets
    <3> QED  BY <1>4, <3>1, <3>2, <3>3
  <2>4. Cardinality(Counted \cup ToIncrement') <= Cardinality(Sessions)
    BY <2>2, SessionSets
  <2> QED  BY <1>2, <2>3, <2>4, CounterInSlots DEF CountInv
<1>6. Cardinality(Sessions) \in Nat  BY SessionSets
<1>7. ASSUME NEW x \in {0, TransferCounter} PROVE InMemory(x)'
  BY <1>4, <1>5, <1>6, SMT DEF InMemory, Room
<1>8. ASSUME NEW t \in Sessions
      PROVE  /\ loaded[t] \in {0, TransferCounter}
             /\ pc'[t] \notin StoreLabels => loaded[t] = 0
  <2>1. pc[t] \in StoreLabels => t \in InRegistry
    BY DEF StoreLabels, InRegistry, RegisterLabels, UnregisterLabels
  <2>2. pc[t] \in StoreLabels => loaded[t] = TransferCounter
    BY <1>2, <2>1 DEF CountInv, StoreLabels
  <2>3. pc[t] \notin StoreLabels => loaded[t] = 0  BY DEF CopiesInv
  <2>4. t = s => pc[t] \notin StoreLabels  BY <1>3 DEF StoreLabels
  <2> QED  BY <1>3, <2>2, <2>3, <2>4
<1> QED  BY <1>2, <1>7, <1>8 DEF CopiesInv, InMemory, Room

(* The other threads change neither the counter nor a register. *)
LEMMA OutsideKeepsCopies ==
  ASSUME ThreadsTypeOK, RegistryTypes, CopiesInv, NEW s \in Sessions, Thread(s), ~RegistryStep(s)
  PROVE  CopiesInv'
<1>1. PICK l \in Labels \ RegisterLabels :
        /\ Goto(s, l)
        /\ l \in CountedLabels => pc[s] \in CountedLabels
        /\ pc[s] \notin RegisterLabels \cup StoreLabels
  BY OutsideMoves
<1>2. TransferCounter' = TransferCounter /\ loaded' = loaded  BY OutsideMoves
<1>3. pc'[s] = l /\ \A t \in Sessions \ {s} : pc'[t] = pc[t]
  BY <1>1 DEF Goto, ThreadsTypeOK
<1>4. /\ Cardinality(ToIncrement') \in Nat /\ Cardinality(ToDecrement') \in Nat
      /\ Cardinality(ToIncrement') <= Cardinality(ToIncrement)
      /\ Cardinality(ToDecrement') <= Cardinality(ToDecrement)
  <2> HIDE DEF CountedLabels
  <2> QED  BY <1>1, SetsShrink
<1>5. ASSUME NEW x \in Int, InMemory(x)
      PROVE  Room(x, Cardinality(ToIncrement'), Cardinality(ToDecrement'))
  BY <1>4, <1>5, SetsToCome, RoomShrinks DEF InMemory
<1>6. InMemory(TransferCounter)'  BY <1>2, <1>5 DEF CopiesInv, RegistryTypes, InMemory
<1>7. \A t \in Sessions : InMemory(loaded[t])'
  BY <1>2, <1>5 DEF CopiesInv, RegistryTypes, InMemory
<1>8. \A t \in Sessions : pc'[t] \notin StoreLabels => loaded[t] = 0
  BY <1>1, <1>3 DEF CopiesInv
<1> QED  BY <1>2, <1>6, <1>7, <1>8 DEF CopiesInv

(* Neither does what changes no thread's place. *)
LEMMA OthersKeepCopies ==
  ASSUME CopiesInv, UNCHANGED <<pc, TransferCounter, loaded>>
  PROVE  CopiesInv'
BY DEF CopiesInv, InMemory, ToIncrement, ToDecrement

LEMMA NextMemoryInv ==
  ASSUME RegistryInv, MemoryInv, [ServerNext]_serverVars
  PROVE  MemoryInv'
<1>1. ThreadsTypeOK /\ RegistryTypes /\ CopiesInv /\ SlotInv
  BY DEF RegistryInv, MemoryInv
<1>2. CASE UNCHANGED serverVars
  BY <1>1, <1>2, OthersKeepCopies DEF serverVars, registryVars, MemoryInv, SlotInv
<1>3. ASSUME ServerNext PROVE MemoryInv'
  <2>1. Cardinality(Sessions) \in Nat /\ slot \in Nat /\ TransferCounter \in Int
    BY <1>1, SessionSets DEF RegistryTypes
  <2>2. TransferCounter <= Cardinality(Sessions)
    BY <1>1, <2>1, SetsToCome DEF CopiesInv, InMemory, Room
  <2>3. ASSUME NEW c, StartSession(c) PROVE MemoryInv'
    <3>1. listener' \in {"session", "recvfrom"} /\ slot' = 0  BY <2>3 DEF StartSession
    <3>2. CopiesInv'  BY <1>1, <2>3, StartKeepsCopies
    <3> QED  BY <2>1, <3>1, <3>2 DEF MemoryInv, SlotInv, ListenerLabels
  <2>4. ASSUME NEW c, RecvWRQ(c) PROVE MemoryInv'
    BY <1>1, <2>1, <2>4, OthersKeepCopies DEF RecvWRQ, MemoryInv, SlotInv, ListenerLabels
  <2>5. CASE Receive  BY <2>3, <2>4, <2>5 DEF Receive, AdmitRRQ
  <2>6. ASSUME NEW label \in ListenerLabels, NEW i \in Nat, ListenerGoto(label, i),
               i <= Cardinality(Sessions),
               label \in {"test", "use"} => i < Cardinality(Sessions)
        PROVE  MemoryInv'
    BY <1>1, <2>6, OthersKeepCopies DEF ListenerGoto, MemoryInv, SlotInv
  <2>7. CASE ScanCount
    BY <1>1, <2>1, <2>2, <2>6, <2>7, SMT DEF ScanCount, MoreEntries, ListenerLabels
  <2>8. CASE ScanTest \/ ScanNext
    <3>1. /\ listener \in {"test", "use"}
          /\ ListenerGoto("use", slot) \/ ListenerGoto("count", slot + 1)
      BY <2>8 DEF ScanTest, ScanNext
    <3>2. slot < Cardinality(Sessions)  BY <1>1, <3>1 DEF SlotInv
    <3>3. slot + 1 \in Nat /\ slot + 1 <= Cardinality(Sessions)  BY <2>1, <3>2
    <3> QED  BY <2>1, <2>6, <3>1, <3>2, <3>3 DEF ListenerLabels
  <2>9. CASE RefuseWRQ
    BY <1>1, <2>1, <2>9, OthersKeepCopies DEF RefuseWRQ, MemoryInv, SlotInv, ListenerLabels
  <2>10. CASE Crash
    BY <1>1, <2>1, <2>6, <2>10 DEF Crash, SlotInv, ListenerLabels
  <2>11. CASE Decide
    <3>1. ASSUME AdmitWRQ PROVE MemoryInv'  BY <2>3, <3>1 DEF AdmitWRQ
    <3> QED  BY <2>7, <2>8, <2>9, <2>10, <2>11, <3>1 DEF Decide
  <2>12. CASE ListenAgain
    BY <1>1, <2>12, OthersKeepCopies DEF ListenAgain, MemoryInv, SlotInv, ListenerLabels
  <2>13. ASSUME NEW s \in Sessions, Thread(s) PROVE MemoryInv'
    <3>1. CopiesInv'
      BY <1>1, <2>13, RegistryStepKeepsCopies, OutsideKeepsCopies
    <3>2. UNCHANGED listenerVars
      <4>1. CASE RegistryStep(s)  BY <4>1 DEF RegistryStep
      <4>2. CASE ~RegistryStep(s)  BY <2>13, <4>2, OutsideMoves
      <4> QED  BY <4>1, <4>2
    <3> QED  BY <1>1, <3>1, <3>2 DEF MemoryInv, SlotInv, listenerVars
  <2> QED  BY <1>3, <2>5, <2>11, <2>12, <2>13 DEF ServerNext
<1> QED  BY <1>2, <1>3

LEMMA InitMemoryInv == ServerInit => MemoryInv
<1> SUFFICES ASSUME ServerInit PROVE MemoryInv  OBVIOUS
<1>1. /\ pc = [s \in Sessions |-> "free"] /\ TransferCounter = 0
      /\ loaded = [s \in Sessions |-> 0] /\ listener = "recvfrom" /\ slot = 0
  BY DEF ServerInit, ThreadsInit, RegistryInit
<1>2. Room(0, Cardinality(ToIncrement), Cardinality(ToDecrement))
  BY SessionSets, SetsToCome, SMT DEF Room
<1> QED  BY <1>1, <1>2, SessionSets DEF MemoryInv, CopiesInv, SlotInv, InMemory, ListenerLabels

(* The types of the server's state, within the bounds of StartSession and  *)
(* ServerNext: the memory the model has around the list is enough for the  *)
(* sessions that run when two threads first meet.  It says nothing of the  *)
(* server after that, which goes on admitting requests by a counter that   *)
(* can drift with every meeting.                                           *)
THEOREM ServerTypes == ServerSpec => []ServerTypeOK
<1>1. RegistryInv /\ MemoryInv /\ SocketInv => ServerTypeOK
  <2> SUFFICES ASSUME RegistryInv, MemoryInv, SocketInv PROVE ServerTypeOK  OBVIOUS
  <2>1. /\ ThreadsTypeOK /\ RegistryTypes /\ CopiesInv /\ SlotInv /\ PortsTypeOK
    BY DEF RegistryInv, MemoryInv, SocketInv
  <2>2. Cardinality(Sessions) \in Nat  BY SessionSets
  <2>3. ASSUME NEW x \in Int, InMemory(x) PROVE x \in Slots
    BY <2>2, <2>3, SetsToCome, SMT DEF InMemory, Room, Slots
  <2>4. TransferCounter \in Slots /\ loaded \in [Sessions -> Slots]
    BY <2>1, <2>3 DEF CopiesInv, RegistryTypes
  <2>5. slot \in Slots  BY <2>1, <2>2, SMT DEF SlotInv, RegistryTypes, Slots
  <2>6. RegistryTypeOK
    BY <2>1, <2>4, <2>5 DEF RegistryTypeOK, RegistryTypes, SlotInv, ListenerLabels
  <2> QED  BY <2>1, <2>6 DEF ServerTypeOK, ThreadsTypeOK
<1>2. RegistryInv /\ MemoryInv /\ [ServerNext]_serverVars => MemoryInv'
  BY NextMemoryInv
<1> QED  BY <1>1, <1>2, InitMemoryInv, RegistryInvariant, SocketInvariant, PTL DEF ServerSpec
=============================================================================
