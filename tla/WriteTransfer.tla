---------------------------- MODULE WriteTransfer ----------------------------
(***************************************************************************)
(* A write request served by a tftplib worker: the acknowledgement of the  *)
(* request, sent by the dispatch thread (ServerWorker.cpp:518-530), and    *)
(* ServerWorker in the state WAITING_FOR_DATA, run by the worker's thread  *)
(* (ServerWorker.cpp:218-267 and 554-624).                                 *)
(*                                                                         *)
(* The dispatch thread sets WAITING_FOR_DATA first and then calls Ack(0),  *)
(* which sends the acknowledgement and only then stores _lastAck = 0. The  *)
(* worker's thread is free to run from the first of these three steps on,  *)
(* and stores _lastAck too. Prompt says whether the dispatch thread is     *)
(* through before the first DATA is received, as it is unless it loses the *)
(* processor for a round trip of the network; the code does not wait.      *)
(*                                                                         *)
(* The client keeps to RFC 1350 and is not part of the repository. The     *)
(* network loses, duplicates and reorders as in ReadTransfer. Writing to   *)
(* the disk succeeds: the code looks at no result of it.                   *)
(***************************************************************************)
EXTENDS BlockNumbers, Sequences

CONSTANTS
  NumBlocks,     \* blocks in the file; the last one is short
  MaxUnsent,     \* acknowledgements that fail to be sent, at most (a bound)
  Prompt         \* whether Ack(0) returns before DATA is received

ASSUME NumBlocksAssumption == NumBlocks \in Nat \ {0}
ASSUME UnsentAssumption == MaxUnsent \in Nat
ASSUME PromptAssumption == Prompt \in BOOLEAN

VARIABLES
  server,      \* the transaction: running, complete (finalized) or failed; or
               \* the server's process is gone: crashed
  request,     \* the dispatch thread, in Ack(0)
  step,        \* where the worker's thread is
  lastAck,     \* _lastAck
  written,     \* contents of the blocks written to the temporary file
  unsent,      \* acknowledgements that failed to be sent
  net,         \* messages sent
  lastIsEmpty, \* client: whether the last block of its file has no data at all
  sent,        \* client: the block it sends, 0 for the request
  client       \* client: running, complete or failed

serverVars == <<server, request, step, lastAck, written, unsent>>
clientVars == <<lastIsEmpty, sent, client>>
vars == <<serverVars, net, clientVars>>

Outcomes == {"running", "complete", "failed"}

TypeOK ==
  /\ server \in Outcomes \cup {"crashed"} /\ client \in Outcomes
  /\ request \in {"send", "store", "done"}
  /\ step \in {"receive", "ack", "store", "finalize"}
  /\ lastAck \in 0 .. (M - 1)
  /\ written \in Seq(1 .. NumBlocks)
  /\ unsent \in 0 .. MaxUnsent
  /\ net \subseteq Message(NumBlocks)
  /\ lastIsEmpty \in BOOLEAN
  /\ sent \in 0 .. NumBlocks

Init ==
  /\ server = "running" /\ request = "send" /\ step = "receive"
  /\ lastAck = 0 /\ written = <<>> /\ unsent = 0
  /\ net = {}
  /\ lastIsEmpty \in BOOLEAN
  /\ sent = 0 /\ client = "running"

-----------------------------------------------------------------------------
(***************************************************************************)
(* The dispatch thread.                                                    *)
(***************************************************************************)
AckFails == unsent < MaxUnsent /\ unsent' = unsent + 1

SendAck0 ==
  /\ server # "crashed" /\ request = "send"
  /\ \/ net' = net \cup {Ack(0, 0)} /\ request' = "store"
        /\ UNCHANGED unsent
     \/ AckFails /\ request' = "done" /\ UNCHANGED net
  /\ UNCHANGED <<server, step, lastAck, written, clientVars>>

StoreAck0 ==
  /\ server # "crashed" /\ request = "store"
  /\ lastAck' = 0
  /\ request' = "done"
  /\ UNCHANGED <<server, step, written, unsent, net, clientVars>>

-----------------------------------------------------------------------------
(***************************************************************************)
(* The worker.                                                             *)
(***************************************************************************)
Receiving == server = "running" /\ step = "receive" /\ (Prompt => request = "done")

\* Abort: an error message, and TerminateTransaction drops the FileWriter,
\* whose temporary file is deleted when it is closed.
AbortTransfer ==
  /\ server' = "failed"
  /\ net' = net \cup {ErrorFrom("server")}
  /\ UNCHANGED <<request, step, lastAck, written, unsent, clientVars>>

\* (Definitions named Bug_... are plausible mistakes in the definition that
\* follows them. They are in no specification.)
Bug_WaitsForEver == Receiving /\ UNCHANGED vars

\* _transactionTimeout has passed: there is no retry on this side.
WaitTimesOut == Receiving /\ AbortTransfer

DataArriving == {m \in net : m.type = "DATA" /\ sent - m.at < MaxLife}

\* A DATA message without data is shorter than sizeof(MessageData).
TooShort(m) == m.at = NumBlocks /\ lastIsEmpty

ExpectedBlock == IF lastAck = M - 1 THEN 0 ELSE lastAck + 1

Bug_AcceptsAnyBlock ==
  /\ Receiving
  /\ \E m \in DataArriving :
       /\ ~TooShort(m)
       /\ written' = Append(written, m.at)
  /\ step' = "ack"
  /\ UNCHANGED <<server, request, lastAck, unsent, net, clientVars>>

\* The block expected: written, whatever happens to its acknowledgement.
AcceptBlock ==
  /\ Receiving
  /\ \E m \in DataArriving :
       /\ ~TooShort(m) /\ m.num = ExpectedBlock
       /\ written' = Append(written, m.at)
  /\ step' = "ack"
  /\ UNCHANGED <<server, request, lastAck, unsent, net, clientVars>>

\* INVALID_MESSAGE_SIZE or INVALID_BLOCK: so ends a block that comes again.
RefuseBlock ==
  /\ Receiving
  /\ \E m \in DataArriving : TooShort(m) \/ m.num # ExpectedBlock
  /\ AbortTransfer

\* CLIENT_ERROR
ClientError ==
  /\ Receiving
  /\ ErrorFrom("client") \in net
  /\ AbortTransfer

\* Receive returns nullptr when the system's call fails, as it does after the
\* client's host has refused a datagram. ProcessWaitingForDataState reports
\* it and passes it on; ProcessDataMessage dereferences it, and the process
\* ends with both threads.
ReceiveFails ==
  /\ Receiving
  /\ server' = "crashed"
  /\ UNCHANGED <<request, step, lastAck, written, unsent, net, clientVars>>

LastWritten == written[Len(written)]

Bug_LastBlockOffByOne ==
  IF LastWritten >= NumBlocks - 1 THEN "finalize" ELSE "receive"

Bug_NeverFinalizes == "receive"

\* After the acknowledgement: the short block was the last one.
NextStep == IF LastWritten = NumBlocks THEN "finalize" ELSE "receive"

\* Ack: a failure to send is not looked at, and leaves _lastAck as it was.
SendAck ==
  /\ server = "running" /\ step = "ack"
  /\ \/ net' = net \cup {Ack(Number(LastWritten), LastWritten)} /\ step' = "store"
        /\ UNCHANGED unsent
     \/ AckFails /\ step' = NextStep /\ UNCHANGED net
  /\ UNCHANGED <<server, request, lastAck, written, clientVars>>

Bug_ForgetsLastAck ==
  /\ server = "running" /\ step = "store"
  /\ step' = NextStep
  /\ UNCHANGED <<server, request, lastAck, written, unsent, net, clientVars>>

StoreLastAck ==
  /\ server = "running" /\ step = "store"
  /\ lastAck' = Number(LastWritten)
  /\ step' = NextStep
  /\ UNCHANGED <<server, request, written, unsent, net, clientVars>>

\* The temporary file takes the place of the target; then TerminateTransaction.
Finalize ==
  /\ server = "running" /\ step = "finalize"
  /\ server' = "complete"
  /\ UNCHANGED <<request, step, lastAck, written, unsent, net, clientVars>>

-----------------------------------------------------------------------------
(***************************************************************************)
(* The client (RFC 1350). A message it repeats is one that is in net.      *)
(***************************************************************************)
AckArriving == {m \in net : m.type = "ACK" /\ sent - m.at < MaxLife}

ClientSendsNext ==
  /\ client = "running" /\ sent < NumBlocks
  /\ \E m \in AckArriving : m.num = Number(sent)
  /\ sent' = sent + 1
  /\ net' = net \cup {Data(Number(sent + 1), sent + 1)}
  /\ UNCHANGED <<serverVars, lastIsEmpty, client>>

ClientIsDone ==
  /\ client = "running" /\ sent = NumBlocks
  /\ \E m \in AckArriving : m.num = Number(sent)
  /\ client' = "complete"
  /\ UNCHANGED <<serverVars, net, lastIsEmpty, sent>>

ClientGivesUp ==
  /\ client = "running"
  /\ client' = "failed"
  /\ net' \in {net, net \cup {ErrorFrom("client")}}
  /\ UNCHANGED <<serverVars, lastIsEmpty, sent>>

ClientGetsError ==
  /\ client = "running"
  /\ ErrorFrom("server") \in net
  /\ client' = "failed"
  /\ UNCHANGED <<serverVars, net, lastIsEmpty, sent>>

-----------------------------------------------------------------------------
DispatchStep == SendAck0 \/ StoreAck0

ServerStep ==
  \/ WaitTimesOut \/ AcceptBlock \/ RefuseBlock \/ ClientError
  \/ SendAck \/ StoreLastAck \/ Finalize

Next ==
  \/ SendAck0 \/ StoreAck0
  \/ WaitTimesOut \/ AcceptBlock \/ RefuseBlock \/ ClientError \/ ReceiveFails
  \/ SendAck \/ StoreLastAck \/ Finalize
  \/ ClientSendsNext \/ ClientIsDone \/ ClientGivesUp \/ ClientGetsError

Spec == Init /\ [][Next]_vars

\* Both threads are scheduled, and the worker's wait ends within the timeout.
\* A receive need not fail.
FairSpec == Spec /\ WF_vars(DispatchStep) /\ WF_vars(ServerStep)

-----------------------------------------------------------------------------
\* No block is skipped and none comes before its time: each block written is
\* the one before it again (its acknowledgement could not be sent and the
\* client repeated it) or the next one.
NoGapNoReorder ==
  \A i \in 1 .. Len(written) :
    IF i = 1 THEN written[i] = 1
    ELSE written[i] \in {written[i - 1], written[i - 1] + 1}

\* While every acknowledgement can be sent, the file holds each block once,
\* although a block is told by a number that wraps and messages come twice,
\* late or out of order (ProcessDataMessage, ServerWorker.cpp:584).
WrittenIsPrefix == unsent = 0 => \A i \in 1 .. Len(written) : written[i] = i

\* WAITING_FOR_DATA: the worker waits for the block after the last one it
\* acknowledged, whatever the dispatch thread still does in Ack(0).
ExpectsNextBlock ==
  Receiving /\ written # <<>> /\ unsent = 0
    => ExpectedBlock = Number(LastWritten + 1)

\* A client that was told the last block is safe finds the file in place: no
\* timeout, stray message, duplicate or failed receive comes between the last
\* acknowledgement and the file.
AcknowledgedIsCommitted == client = "complete" ~> server = "complete"

\* The transaction is completed or aborted, whatever the client says and the
\* network loses, unless a receive fails: then it ends with the process
\* (ServerWorker.cpp:253-260, 563).
ServerFinishes == <>(server \in {"complete", "failed"} \/ server = "crashed")

\* A block that is written again adds nothing to the file's progress.
Progress == IF written = <<>> THEN 0 ELSE LastWritten

\* A server that is gone has not completed the transfer.
Receiver == IF server = "crashed" THEN "failed" ELSE server

Abstract == INSTANCE FileTransfer WITH
  delivered <- Progress, sender <- client, receiver <- Receiver

\* The transfer implements FileTransfer, with the worker as the receiver: the
\* target is replaced, and the client told that all is well, only when the
\* last block is there.
ImplementsFileTransfer == Abstract!Spec
=============================================================================
