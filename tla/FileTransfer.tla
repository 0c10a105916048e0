----------------------------- MODULE FileTransfer -----------------------------
(***************************************************************************)
(* What a TFTP transfer promises: the blocks 1 .. Total of a file arrive   *)
(* in order and once each, and the transfer is reported complete only when *)
(* all of them have, but for the last Slack ones.  A transfer can fail at  *)
(* any time; blocks under way when it ends may still arrive.               *)
(***************************************************************************)
EXTENDS Naturals, Sequences

CONSTANTS
  Total,    \* blocks of the file
  Slack     \* blocks that may be missing when the transfer is complete

VARIABLES
  copy,     \* the blocks at the receiving side
  status    \* what the server takes the transfer for

Statuses == {"running", "complete", "failed"}

NextBlock == /\ Len(copy) < Total
             /\ copy' = Append(copy, Len(copy) + 1)

Init == /\ copy = <<>>
        /\ status = "running"

Deliver == NextBlock /\ UNCHANGED status

(* The last block can be what completes the transfer, or what fails it. *)
Complete == /\ status = "running"
            /\ status' = "complete"
            /\ NextBlock \/ UNCHANGED copy
            /\ Len(copy') + Slack >= Total

Fail == /\ status = "running"
        /\ status' = "failed"
        /\ NextBlock \/ UNCHANGED copy

Next == Deliver \/ Complete \/ Fail

Spec == Init /\ [][Next]_<<copy, status>>

=============================================================================
