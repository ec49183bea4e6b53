---------------------------- MODULE FileTransfer ----------------------------
(***************************************************************************)
(* What a file transfer promises, whichever way the file goes: the blocks  *)
(* reach the receiver in order, and neither end calls the transfer         *)
(* complete before the receiver holds all of them. Either end may fail at  *)
(* any time, and the two ends need not agree: the last message can always  *)
(* be the one that is lost.                                                *)
(***************************************************************************)
EXTENDS Naturals

CONSTANT NumBlocks     \* blocks in the file, the short last one included

VARIABLES
  delivered,     \* blocks the receiver holds
  sender,        \* what the sender thinks of the transfer
  receiver       \* what the receiver thinks of it

vars == <<delivered, sender, receiver>>

Outcomes == {"running", "complete", "failed"}

Init == delivered = 0 /\ sender = "running" /\ receiver = "running"

Deliver ==
  /\ receiver = "running" /\ delivered < NumBlocks
  /\ delivered' = delivered + 1
  /\ receiver' \in {"running", "complete"}
  /\ receiver' = "complete" => delivered' = NumBlocks
  /\ UNCHANGED sender

ReceiverEnds ==
  /\ receiver = "running"
  /\ receiver' \in {"complete", "failed"}
  /\ receiver' = "complete" => delivered = NumBlocks
  /\ UNCHANGED <<delivered, sender>>

SenderEnds ==
  /\ sender = "running"
  /\ sender' \in {"complete", "failed"}
  /\ sender' = "complete" => delivered = NumBlocks
  /\ UNCHANGED <<delivered, receiver>>

Next == Deliver \/ ReceiverEnds \/ SenderEnds

Spec == Init /\ [][Next]_vars
=============================================================================
