------------------------------- MODULE Network -------------------------------
(***************************************************************************)
(* A session and the datagrams between it and its client.  The network     *)
(* keeps a datagram until it loses it, so that a datagram can be delivered *)
(* late, out of order, and more than once.  Lose never takes the request   *)
(* the session was made for from the listener.                             *)
(***************************************************************************)
EXTENDS TFTPSession, Sequences

VARIABLE toServer   \* datagrams sent to the session and not lost

netVars == <<sessionVars, toServer>>

NetworkInit(request) == SessionInit /\ toServer = {request}

ServerReceive == (\E m \in toServer : ParsePacket(m)) /\ UNCHANGED toServer

ServerTimeout == Timeout /\ UNCHANGED toServer

ClientSends(m) == toServer' = toServer \cup {m} /\ UNCHANGED sessionVars

Lose ==
  \/ /\ \E m \in toClient : toClient' = toClient \ {m}
     /\ UNCHANGED <<alive, SelectedOperation, FirstBlockInWindow, BlockNrInWindowReceived,
                    WindowRetryCount, Error, ReadDone, TransferDone, BytesHandled,
                    filePos, stored, toServer>>
  \/ /\ SelectedOperation # NOT_INITIALIZED
     /\ \E m \in toServer : toServer' = toServer \ {m}
     /\ UNCHANGED sessionVars

(* What the server takes the transfer for *)
ServerStatus ==
  IF alive THEN "running"
  ELSE IF TransferDone /\ Error = NO_ERROR THEN "complete" ELSE "failed"

=============================================================================
