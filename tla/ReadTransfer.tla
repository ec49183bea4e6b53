---------------------------- MODULE ReadTransfer ----------------------------
(***************************************************************************)
(* A read request served by a tftplib worker: ServerWorker in the state    *)
(* WAITING_FOR_ACK (ServerWorker.cpp:269-405). The worker sends one block, *)
(* waits for its acknowledgement and sends the block again on a timeout.   *)
(*                                                                         *)
(* The client is not part of the repository: it is a TFTP client that      *)
(* keeps to RFC 1350. Between them is a network that loses, duplicates and *)
(* reorders: a message once sent stays in net, and may be delivered any    *)
(* number of times or never.                                               *)
(* The age of messages is limited by MaxLife: see BlockNumbers.            *)
(***************************************************************************)
EXTENDS BlockNumbers, Sequences

CONSTANTS
  NumBlocks,     \* blocks in the file; the last one is short
  Retries,       \* _retries
  ReadMayFail    \* whether FileReader::ReadBlock can fail

ASSUME NumBlocksAssumption == NumBlocks \in Nat \ {0}
ASSUME RetriesAssumption == Retries \in Nat
ASSUME ReadAssumption == ReadMayFail \in BOOLEAN

VARIABLES
  server,      \* the transaction: running, complete or failed (aborted); or
               \* the server's process is gone: crashed
  step,        \* where ProcessWaitingForAckState is
  lastAck,     \* _lastAck
  block,       \* blocks read from the file so far: the true index of the one sent
  readOk,      \* whether the block was read, or ReadBlock returned -1
  attempt,     \* the local variable attempt
  net,         \* messages sent
  got,         \* client: contents of the blocks accepted
  client       \* client: running, complete or failed

serverVars == <<server, step, lastAck, block, readOk, attempt>>
clientVars == <<got, client>>
vars == <<server, step, lastAck, block, readOk, attempt, net, got, client>>

Outcomes == {"running", "complete", "failed"}

TypeOK ==
  /\ server \in Outcomes \cup {"crashed"} /\ client \in Outcomes
  /\ step \in {"read", "send", "wait"}
  /\ lastAck \in 0 .. (M - 1)
  /\ block \in 0 .. NumBlocks
  /\ readOk \in BOOLEAN
  /\ attempt \in 0 .. (Retries + 1)
  /\ net \subseteq Message(NumBlocks)
  /\ got \in Seq(1 .. NumBlocks)

Init ==
  /\ server = "running" /\ step = "read"
  /\ lastAck = 0 /\ block = 0 /\ readOk = TRUE /\ attempt = 0
  /\ net = {}
  /\ got = <<>> /\ client = "running"

-----------------------------------------------------------------------------
(***************************************************************************)
(* The worker.                                                             *)
(***************************************************************************)
Waiting == server = "running" /\ step = "wait"

\* Read the next block into the datagram. After a failure the datagram has
\* a size no client takes for a DATA message, and it is never the last one.
ReadBlock ==
  /\ server = "running" /\ step = "read" /\ block < NumBlocks
  /\ block' = block + 1
  /\ readOk' \in (IF ReadMayFail THEN BOOLEAN ELSE {TRUE})
  /\ attempt' = 0
  /\ step' = "send"
  /\ UNCHANGED <<server, lastAck, net, clientVars>>

\* The result of SendMessage is ignored: a failure is a lost message.
SendBlock ==
  /\ server = "running" /\ step = "send"
  /\ net' = IF readOk THEN net \cup {Data(Number(lastAck + 1), block)} ELSE net
  /\ step' = "wait"
  /\ UNCHANGED <<server, lastAck, block, readOk, attempt, clientVars>>

\* Abort: an error message to the client, then TerminateTransaction.
AbortTransfer ==
  /\ server' = "failed"
  /\ net' = net \cup {ErrorFrom("server")}
  /\ UNCHANGED <<step, lastAck, block, readOk, attempt, clientVars>>

\* (Definitions named Bug_... are plausible mistakes in the definition that
\* follows them. They are in no specification.)
Bug_RetriesForEver ==
  /\ step' = "send"
  /\ UNCHANGED <<server, lastAck, block, readOk, attempt, net, clientVars>>

\* MessageErrorCategory::TIMEOUT: attempt++ <= _retries, or abort.
ResendOrAbort ==
  \/ /\ attempt <= Retries
     /\ attempt' = attempt + 1
     /\ step' = "send"
     /\ UNCHANGED <<server, lastAck, block, readOk, net, clientVars>>
  \/ /\ attempt > Retries
     /\ AbortTransfer

Bug_ResendReadsNextBlock ==
  /\ Waiting
  /\ step' = "read"
  /\ UNCHANGED <<server, lastAck, block, readOk, attempt, net, clientVars>>

\* No datagram within _transactionTimeout.
WaitTimesOut ==
  /\ Waiting
  /\ ResendOrAbort

\* An acknowledgement the network still delivers.
AckArriving == {m \in net : m.type = "ACK" /\ block - m.at < MaxLife}

Bug_IgnoresAckNumber ==
  /\ Waiting
  /\ AckArriving # {}
  /\ lastAck' = Number(lastAck + 1)
  /\ step' = "read"
  /\ server' = IF readOk /\ block = NumBlocks THEN "complete" ELSE server
  /\ UNCHANGED <<block, readOk, attempt, net, clientVars>>

\* The acknowledgement of the block sent: the short block was the last one,
\* otherwise ProcessWaitingForAckState returns and Run calls it again.
ExpectedAck ==
  /\ Waiting
  /\ \E m \in AckArriving : m.num = Number(lastAck + 1)
  /\ lastAck' = Number(lastAck + 1)
  /\ step' = "read"
  /\ server' = IF readOk /\ block = NumBlocks THEN "complete" ELSE server
  /\ UNCHANGED <<block, readOk, attempt, net, clientVars>>

\* "Weird case - received ack late?": treated as a timeout.
UnexpectedAck ==
  /\ Waiting
  /\ \E m \in AckArriving : m.num # Number(lastAck + 1)
  /\ ResendOrAbort

\* ERROR from the client, an opcode that is not ACK, or a short message.
OtherMessage ==
  /\ Waiting
  /\ ErrorFrom("client") \in net
  /\ AbortTransfer

\* Receive returns nullptr when the system's call fails, as it does after the
\* client's host has refused a datagram. WaitForAck reports it and passes it
\* on; ProcessAckMessage dereferences it, and the process ends.
ReceiveFails ==
  /\ Waiting
  /\ server' = "crashed"
  /\ UNCHANGED <<step, lastAck, block, readOk, attempt, net, clientVars>>

-----------------------------------------------------------------------------
(***************************************************************************)
(* The client (RFC 1350).                                                  *)
(***************************************************************************)
Accepted == Len(got)

DataArriving == {m \in net : m.type = "DATA" /\ Accepted - m.at < MaxLife}

\* The next block: keep it and acknowledge it; a short block is the last.
ClientAccepts ==
  /\ client = "running"
  /\ \E m \in DataArriving :
       /\ m.num = Number(Accepted + 1)
       /\ got' = Append(got, m.at)
       /\ client' = IF m.at = NumBlocks THEN "complete" ELSE "running"
       /\ net' = net \cup {Ack(m.num, Accepted + 1)}
  /\ UNCHANGED serverVars

\* A client acknowledges a block again when it comes again or on a timeout.
\* Such a message is one that is in net already.
ClientGivesUp ==
  /\ client = "running"
  /\ client' = "failed"
  /\ net' \in {net, net \cup {ErrorFrom("client")}}
  /\ UNCHANGED <<serverVars, got>>

ClientGetsError ==
  /\ client = "running"
  /\ ErrorFrom("server") \in net
  /\ client' = "failed"
  /\ UNCHANGED <<serverVars, net, got>>

-----------------------------------------------------------------------------
ServerStep ==
  \/ ReadBlock \/ SendBlock \/ WaitTimesOut \/ ExpectedAck \/ UnexpectedAck
  \/ OtherMessage

Next ==
  \/ ReadBlock \/ SendBlock \/ WaitTimesOut \/ ExpectedAck \/ UnexpectedAck
  \/ OtherMessage \/ ReceiveFails
  \/ ClientAccepts \/ ClientGivesUp \/ ClientGetsError

Spec == Init /\ [][Next]_vars

\* The worker thread is scheduled, and its wait ends within the timeout.
\* Nothing is assumed of the client or of the network, and a receive need
\* not fail.
FairSpec == Spec /\ WF_vars(ServerStep)

-----------------------------------------------------------------------------
\* What the client holds is a prefix of the file, block for block, although
\* blocks are told apart by a number that wraps and messages come twice,
\* late or out of order.
ClientHasPrefix == \A i \in 1 .. Len(got) : got[i] = i

\* The two ends stay in lockstep: while the worker sends a block, the client
\* has accepted exactly the blocks before it, or that one as well.
Lockstep ==
  step \in {"send", "wait"} => Len(got) \in {block - 1, block}

\* The transaction is completed or aborted, whatever the client says and the
\* network loses, unless a receive fails: then it ends with the process
\* (ServerWorker.cpp:346-352, 362).
ServerFinishes == <>(server \in {"complete", "failed"} \/ server = "crashed")

\* A server that is gone has not completed the transfer.
Sender == IF server = "crashed" THEN "failed" ELSE server

Abstract == INSTANCE FileTransfer WITH
  delivered <- Len(got), sender <- Sender, receiver <- client

\* The transfer implements FileTransfer, with the worker as the sender.
ImplementsFileTransfer == Abstract!Spec
=============================================================================
