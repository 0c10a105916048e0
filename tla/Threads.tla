------------------------------- MODULE Threads -------------------------------
(***************************************************************************)
(* The threads of the server and the configuration they run with.  Each    *)
(* session has a thread; pc is its place in ThreadDirectComm and in what   *)
(* that calls.                                                             *)
(***************************************************************************)
EXTENDS Integers, FiniteSets

CONSTANTS
  Sessions,            \* the TFTPSession objects that fit into memory
  ParallelTransfers    \* the values init.cfg may give to ParallelTransfersMax

ASSUME SessionsAssumption == IsFiniteSet(Sessions)
ASSUME ParallelAssumption == ParallelTransfers \subseteq Nat \ {0}

VARIABLES
  sConf,   \* the settings the threads read; InitConfig has loaded them before
  pc       \* what each session's thread does next; "free": no thread

Settings == [ReuseServerPortForComm : BOOLEAN, ParallelTransfersMax : ParallelTransfers]

Live(s) == pc[s] # "free"
Created == {s \in Sessions : Live(s)}

Goto(s, label) == pc' = [pc EXCEPT ![s] = label]

ThreadsInit ==
  /\ sConf \in Settings
  /\ pc = [s \in Sessions |-> "free"]
=============================================================================
