------------------------------- MODULE Registry -------------------------------
(***************************************************************************)
(* The listener of RunTFTPServer and the registry of active clients:       *)
(* TransferCounter and ActiveClientList, which the listener reads and the  *)
(* session threads change, without a lock, when they start and end.  A     *)
(* step is one load or one store of the counter or of the list.            *)
(***************************************************************************)
EXTENDS Threads

CONSTANT Clients   \* the addresses requests come from

VARIABLES
  Client,            \* TFTPSession::Client
  TransferCounter,
  ActiveClientList,
  loaded,            \* a thread's register: the counter as it was loaded
  listener,          \* where RunTFTPServer is
  request,           \* the sender of the write request it looks at
  slot,              \* i of IsDuplicateClientConnectionRequest
  overlapped,        \* auxiliary: two threads were in the registry's code at once
  misplaced          \* auxiliary: a session ended that had not the last entry

registryVars ==
  <<Client, TransferCounter, ActiveClientList, loaded, listener, request, slot,
    overlapped, misplaced>>

listenerVars == <<listener, request, slot>>

-----------------------------------------------------------------------------
(* The list is a malloc of ParallelTransfersMax + 1 pointers.  The memory  *)
(* around it is part of the model: a wrong index is used all the same.     *)
NULL  == "NULL"
Other == "uninitialised, or not the list's"

ASSUME EntriesAssumption == NULL \notin Sessions /\ Other \notin Sessions

Nobody == "nobody"

Slots == LET n == Cardinality(Sessions) IN -n .. 2 * n
Index == 0 .. sConf.ParallelTransfersMax

RegisterLabels   == {"load_slot", "store_slot", "load_inc", "store_inc"}
UnregisterLabels == {"load_dec", "store_dec", "load_clear", "store_clear"}
InRegistry       == {s \in Sessions : pc[s] \in RegisterLabels \cup UnregisterLabels}

(* Registered and not yet leaving. *)
Running == {s \in Created \ InRegistry : pc[s] # "delete"}

NextLabel(label) ==
  CASE label = "load_slot"   -> "store_slot"
    [] label = "store_slot"  -> "load_inc"
    [] label = "load_inc"    -> "store_inc"
    [] label = "store_inc"   -> "socket"
    [] label = "load_dec"    -> "store_dec"
    [] label = "store_dec"   -> "load_clear"
    [] label = "load_clear"  -> "store_clear"
    [] label = "store_clear" -> "delete"

(* What the auxiliary variable records of a step. *)
Scanning == listener \in {"count", "test", "use"}
Overlap  == Cardinality(InRegistry) > (IF Scanning THEN 0 ELSE 1)
Watch    == overlapped' = (overlapped \/ Overlap')

-----------------------------------------------------------------------------
(* RunTFTPServer *)

(* The session becomes the argument of a new thread, or of a call of       *)
(* ThreadDirectComm by the listener itself.  Bounds: the objects in        *)
(* Sessions, and no new session once two threads have met in this code.    *)
(* The code goes on admitting: with every meeting the counter can drift    *)
(* further from the number of sessions, which is not followed.             *)
StartSession(c) ==
  /\ ~overlapped
  /\ \E s \in Sessions \ Created :
       /\ Client' = [Client EXCEPT ![s] = c]
       /\ Goto(s, "load_slot")
  /\ listener' = IF sConf.ReuseServerPortForComm THEN "session" ELSE "recvfrom"
  /\ request' = Nobody /\ slot' = 0
  /\ UNCHANGED <<TransferCounter, ActiveClientList, loaded, misplaced>>

(* A read request is admitted by the counter alone: && binds tighter than  *)
(* ||, and the duplicate check belongs to OP_WRQ.                          *)
Admissible_OneMore == TransferCounter <= sConf.ParallelTransfersMax   \* mutant

Admissible == TransferCounter < sConf.ParallelTransfersMax

AdmitRRQ(c) ==
  /\ listener = "recvfrom"
  /\ Admissible
  /\ StartSession(c)

RecvWRQ(c) ==
  /\ listener = "recvfrom"
  /\ Admissible
  /\ listener' = "count" /\ request' = c /\ slot' = 0
  /\ UNCHANGED <<pc, Client, TransferCounter, ActiveClientList, loaded, misplaced>>

(* IsDuplicateClientConnectionRequest: for each entry below TransferCounter *)
(* it loads the pointer to test it, and again to use it.                    *)
ListenerGoto(label, i) ==
  /\ listener' = label /\ slot' = i
  /\ UNCHANGED <<pc, Client, TransferCounter, ActiveClientList, loaded, request,
                 misplaced>>

MoreEntries_SkipLast == slot + 1 < TransferCounter   \* mutant

MoreEntries == slot < TransferCounter
Entry       == ActiveClientList[slot]

ScanCount ==
  /\ listener = "count"
  /\ MoreEntries
  /\ ListenerGoto("test", slot)

AdmitWRQ ==
  /\ listener = "count"
  /\ ~MoreEntries
  /\ StartSession(request)

ScanTest ==
  /\ listener = "test"
  /\ \/ Entry # NULL /\ ListenerGoto("use", slot)
     \/ Entry \in {NULL, Other} /\ ListenerGoto("count", slot + 1)

(* What an uninitialised pointer or one to a deleted session gives is not  *)
(* defined: it may match or not.  The former may also crash the server,    *)
(* NULL does: the entry was cleared after the test.                        *)
UndefinedEntry == Entry \notin Created /\ Entry # NULL

RefuseWRQ ==
  /\ listener = "use"
  /\ UndefinedEntry \/ (Entry \in Sessions /\ Client[Entry] = request)
  /\ listener' = "recvfrom" /\ request' = Nobody /\ slot' = 0
  /\ UNCHANGED <<pc, Client, TransferCounter, ActiveClientList, loaded, misplaced>>

ScanNext ==
  /\ listener = "use"
  /\ UndefinedEntry \/ (Entry \in Sessions /\ Client[Entry] # request)
  /\ ListenerGoto("count", slot + 1)

Crash ==
  /\ listener = "use"
  /\ Entry \in {NULL, Other}
  /\ ListenerGoto("crashed", slot)

-----------------------------------------------------------------------------
(* ThreadDirectComm, before and after its loop *)

Load(s) ==
  /\ pc[s] \in {"load_slot", "load_inc", "load_dec", "load_clear"}
  /\ loaded' = [loaded EXCEPT ![s] = TransferCounter]
  /\ UNCHANGED <<TransferCounter, ActiveClientList, misplaced>>

(* mutant: stores after the increment *)
StoreSlot_NextSlot(s) ==
  /\ pc[s] = "store_slot"
  /\ ActiveClientList' = [ActiveClientList EXCEPT ![loaded[s] + 1] = s]
  /\ loaded' = [loaded EXCEPT ![s] = 0]
  /\ UNCHANGED <<TransferCounter, misplaced>>

(* ActiveClientList[TransferCounter] = &sess->Client *)
StoreSlot(s) ==
  /\ pc[s] = "store_slot"
  /\ ActiveClientList' = [ActiveClientList EXCEPT ![loaded[s]] = s]
  /\ loaded' = [loaded EXCEPT ![s] = 0]
  /\ UNCHANGED <<TransferCounter, misplaced>>

(* TransferCounter++ *)
Increment(s) ==
  /\ pc[s] = "store_inc"
  /\ TransferCounter' = loaded[s] + 1
  /\ loaded' = [loaded EXCEPT ![s] = 0]
  /\ UNCHANGED <<ActiveClientList, misplaced>>

(* TransferCounter-- *)
Decrement(s) ==
  /\ pc[s] = "store_dec"
  /\ TransferCounter' = loaded[s] - 1
  /\ loaded' = [loaded EXCEPT ![s] = 0]
  /\ misplaced' = (misplaced \/ ActiveClientList[TransferCounter'] # s)
  /\ UNCHANGED ActiveClientList

(* ActiveClientList[TransferCounter] = NULL *)
ClearSlot(s) ==
  /\ pc[s] = "store_clear"
  /\ ActiveClientList' = [ActiveClientList EXCEPT ![loaded[s]] = NULL]
  /\ loaded' = [loaded EXCEPT ![s] = 0]
  /\ UNCHANGED <<TransferCounter, misplaced>>

RegistryStep(s) ==
  /\ Load(s) \/ StoreSlot(s) \/ Increment(s) \/ Decrement(s) \/ ClearSlot(s)
  /\ Goto(s, NextLabel(pc[s]))
  /\ UNCHANGED <<Client, listenerVars>>

(* mutant: TransferCounter-- is missing *)
LeaveLoop_NoDecrement(s) ==
  /\ Goto(s, "load_clear")
  /\ UNCHANGED <<Client, TransferCounter, ActiveClientList, loaded, listenerVars, misplaced>>

(* The loop of ThreadDirectComm is left. *)
LeaveLoop(s) ==
  /\ Goto(s, "load_dec")
  /\ UNCHANGED <<Client, TransferCounter, ActiveClientList, loaded, listenerVars, misplaced>>

RegistryInit ==
  /\ Client = [s \in Sessions |-> Nobody]
  /\ TransferCounter = 0
  /\ ActiveClientList = [i \in Slots |-> Other]
  /\ loaded = [s \in Sessions |-> 0]
  /\ listener = "recvfrom" /\ request = Nobody /\ slot = 0
  /\ overlapped = FALSE
  /\ misplaced = FALSE

RegistryTypeOK ==
  /\ Client \in [Sessions -> Clients \cup {Nobody}]
  /\ TransferCounter \in Slots
  /\ ActiveClientList \in [Slots -> Sessions \cup {NULL, Other}]
  /\ loaded \in [Sessions -> Slots]
  /\ listener \in {"recvfrom", "session", "count", "test", "use", "crashed"}
  /\ request \in Clients \cup {Nobody}
  /\ slot \in Slots
  /\ overlapped \in BOOLEAN /\ misplaced \in BOOLEAN
=============================================================================
