---------------------------- MODULE BlockNumbers ----------------------------
(***************************************************************************)
(* Block numbers on the wire. They are 16 bits wide (tftp_messages.h) and  *)
(* wrap to 0; here they are taken modulo M.                                *)
(*                                                                         *)
(* A message of the transfer modules carries, beside what is on the wire,  *)
(* the true index of its block (field at). It is the contents of a DATA    *)
(* message, and the network uses it to tell how old a message is: MaxLife  *)
(* bounds that age, so that no message survives until its number comes     *)
(* round again, 2^16 blocks later.                                         *)
(***************************************************************************)
EXTENDS Integers

CONSTANTS
  M,           \* block numbers are modulo M
  MaxLife      \* the network delivers no message older than this

ASSUME NumberAssumption == M \in Nat /\ MaxLife \in Nat \ {0} /\ MaxLife < M

Number(n) == n % M

Data(num, at) == [type |-> "DATA", num |-> num, at |-> at]
Ack(num, at) == [type |-> "ACK", num |-> num, at |-> at]
ErrorFrom(who) == [type |-> who, num |-> 0, at |-> 0]

\* An ERROR message is told from others by its type, which names its sender.
Message(n) ==
  [type : {"DATA", "ACK", "server", "client"}, num : 0 .. (M - 1), at : 0 .. n]
=============================================================================
