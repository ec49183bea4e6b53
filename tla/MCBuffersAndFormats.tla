------------------------- MODULE MCBuffersAndFormats -------------------------
(***************************************************************************)
(* Four parts of tftplib that have no state in common - the pool of        *)
(* datagram buffers, the conversion of line ends, the parser of requests   *)
(* and the allocator of replies - as one instance for TLC. A behaviour is  *)
(* one of one part: job says which, the other parts stay as they are.      *)
(*                                                                         *)
(* The blocks of the text have 2 bytes and the lag is 1, so that it can be *)
(* used up. With their headers the blocks of the allocator have 16, 17 and *)
(* 32 bytes: the first two are of one class.                               *)
(***************************************************************************)
EXTENDS DatagramPool, NetasciiWriter, RequestParser, Allocator

VARIABLE job

Init ==
  /\ job \in {"pool", "text", "request", "blocks"}
  /\ PoolInit
  /\ IF job = "text" THEN TextInit ELSE StartWith(<<"x">>, "x")
  /\ IF job = "request" THEN RequestInit ELSE RequestWith(<<>>, "a")
  /\ AllocInit

Next ==
  \/ /\ job = "pool" /\ PoolNext
     /\ UNCHANGED <<job, textVars, requestVars, allocVars>>
  \/ /\ job = "text" /\ TextNext
     /\ UNCHANGED <<job, poolVars, requestVars, allocVars>>
  \/ /\ job = "request" /\ Validate
     /\ UNCHANGED <<job, poolVars, textVars, allocVars>>
  \/ /\ job = "blocks" /\ AllocNext
     /\ UNCHANGED <<job, poolVars, textVars, requestVars>>

Spec ==
  Init /\ [][Next]_<<job, poolVars, textVars, requestVars, allocVars>>
=============================================================================
