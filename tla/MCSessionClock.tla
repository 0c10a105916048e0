---------------------------- MODULE MCSessionClock ----------------------------
(* SessionClock for TLC: values on both sides of each limit. *)
EXTENDS SessionClock

Proposed(option, values) == [name : {option}, value : values]

MCProposals ==
  Proposed("tsize", {0}) \cup Proposed("timeout", {0, 1, 3, 256})
    \cup Proposed("blksize", {7, 8, 65464, 65465}) \cup Proposed("windowsize", {1, 2, 4, 65536})
=============================================================================
