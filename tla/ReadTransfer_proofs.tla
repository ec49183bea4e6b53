------------------------- MODULE ReadTransfer_proofs -------------------------
(***************************************************************************)
(* ReadTransfer for a file of any length, any modulus of the block numbers *)
(* and any number of retries. Worker and client know of each other only    *)
(* numbers that wrap. They stay in lockstep because a message is believed  *)
(* by its number only if it is less than M blocks late, and then the       *)
(* number tells which block it is about (NumbersApart).                    *)
(***************************************************************************)
EXTENDS ReadTransfer, TLAPS

\* Messages say what they are about: a DATA message one of the blocks the
\* worker has read, an ACK one of those the client has accepted.
MessagesAreTrue ==
  \A m \in net :
    /\ m.type \in {"DATA", "ACK"} =>
         m.at \in Nat /\ m.at >= 1 /\ m.num = Number(m.at)
    /\ m.type = "DATA" => m.at <= block
    /\ m.type = "ACK" => m.at <= Len(got)

\* Where the worker is between two blocks, and that _lastAck is the number of
\* the block before the one under way.
WorkerNumbers ==
  /\ step = "read" => Len(got) = block /\ lastAck = Number(block)
  /\ step # "read" => block >= 1 /\ lastAck = Number(block - 1)
  /\ server = "complete" => step = "read" /\ block = NumBlocks

\* The client is complete when it has the last block.
ClientNumbers ==
  /\ Len(got) <= NumBlocks
  /\ client = "running" => Len(got) < NumBlocks
  /\ client = "complete" => Len(got) = NumBlocks

IInv ==
  /\ TypeOK /\ ClientHasPrefix /\ Lockstep
  /\ MessagesAreTrue /\ WorkerNumbers /\ ClientNumbers

-----------------------------------------------------------------------------
(***************************************************************************)
(* Block numbers that wrap, for any modulus: the number of the next block  *)
(* is the successor of the number, modulo M, and two blocks less than M    *)
(* apart have different numbers.                                           *)
(***************************************************************************)
LEMMA Modulus == M \in Nat /\ M > 1
BY NumberAssumption

LEMMA Division ==
  ASSUME NEW a \in Nat
  PROVE  /\ a \div M \in Nat /\ (a % M) \in 0 .. (M - 1)
         /\ a = M * (a \div M) + (a % M)
BY Modulus, SMTT(30)

\* A multiple of M that is smaller than M is 0.
LEMMA SmallMultiple ==
  ASSUME NEW q \in Int, NEW r \in Int, -M < r, r < M, M * q = r
  PROVE  q = 0
<1>1. ASSUME q >= 1 PROVE M * q >= M
  BY <1>1, Modulus, SMTT(30)
<1>2. ASSUME q <= -1 PROVE M * q <= -M
  BY <1>2, Modulus, SMTT(30)
<1> QED
  BY <1>1, <1>2, Modulus

\* The number of a message that is at most M - 1 blocks late identifies it.
LEMMA NumbersApart ==
  ASSUME NEW a \in Nat, NEW b \in Nat, -M < b - a, b - a < M,
         Number(a) = Number(b)
  PROVE  a = b
<1> DEFINE p == a \div M
           q == b \div M
<1>1. p \in Nat /\ q \in Nat /\ (a % M) \in Int /\ (b % M) = (a % M)
  BY Division DEF Number
<1>2. a = M * p + (a % M) /\ b = M * q + (b % M)
  BY Division
<1> HIDE DEF p, q
<1>3. M * (q - p) = b - a
  <2>1. M * (q - p) = M * q - M * p
    BY <1>1, Modulus, SMTT(30)
  <2>2. M * p \in Int /\ M * q \in Int
    BY <1>1, Modulus
  <2> QED
    BY <1>1, <1>2, <2>1, <2>2
<1>4. q - p = 0
  BY <1>1, <1>3, SmallMultiple
<1>5. q = p
  BY <1>1, <1>4
<1> QED
  BY <1>1, <1>2, <1>5

LEMMA NumberType ==
  ASSUME NEW n \in Nat
  PROVE  Number(n) \in 0 .. (M - 1)
BY Division DEF Number

\* _lastAck + 1, in 16 bits, is the number of the block after.
LEMMA NumberOfNext ==
  ASSUME NEW n \in Nat
  PROVE  Number(Number(n) + 1) = Number(n + 1)
<1> DEFINE q == n \div M
           r == n % M
<1>1. q \in Nat /\ r \in 0 .. (M - 1) /\ n = M * q + r
  BY Division
<1>2. Number(n) = r
  BY DEF Number
<1> HIDE DEF q, r
<1>3. CASE r + 1 < M
  <2>1. n + 1 = M * q + (r + 1)
    BY <1>1, Modulus
  <2> QED
    BY <1>1, <1>2, <1>3, <2>1, Modulus, SMTT(30) DEF Number
<1>4. CASE r + 1 = M
  <2>1. n + 1 = M * (q + 1)
    BY <1>1, <1>4, Modulus, SMTT(30)
  <2> QED
    BY <1>1, <1>2, <1>4, <2>1, Modulus, SMTT(30) DEF Number
<1> QED
  BY <1>1, <1>3, <1>4, Modulus

-----------------------------------------------------------------------------
\* The block under way, and its number as the worker computes it.
LEMMA NumberSent ==
  ASSUME TypeOK, WorkerNumbers, step # "read"
  PROVE  block \in Nat /\ block >= 1 /\ Number(lastAck + 1) = Number(block)
<1>1. block \in Nat /\ block >= 1 /\ block - 1 \in Nat /\ (block - 1) + 1 = block
  BY NumBlocksAssumption DEF TypeOK, WorkerNumbers
<1> QED
  BY <1>1, NumberOfNext DEF WorkerNumbers

\* The worker takes no acknowledgement of another block for that of the block
\* it sent: the client holds that block.
LEMMA AckIsOfBlock ==
  ASSUME IInv, step = "wait", NEW m \in AckArriving, m.num = Number(lastAck + 1)
  PROVE  Len(got) = block
<1>1. /\ m.at \in Nat /\ m.num = Number(m.at)
      /\ m.at <= Len(got) /\ block - m.at < MaxLife
  BY DEF IInv, MessagesAreTrue, AckArriving
<1>2. block \in Nat /\ block >= 1 /\ Number(m.at) = Number(block)
  BY <1>1, NumberSent DEF IInv
<1>3. Len(got) \in {block - 1, block}
  BY DEF IInv, Lockstep
<1>4. -M < block - m.at /\ block - m.at < M
  BY <1>1, <1>2, <1>3, NumberAssumption
<1>5. m.at = block
  BY <1>1, <1>2, <1>4, NumbersApart
<1> QED
  BY <1>1, <1>2, <1>3, <1>5

\* The client takes no other block for the one it waits for.
LEMMA DataIsNext ==
  ASSUME IInv, NEW m \in DataArriving, m.num = Number(Accepted + 1)
  PROVE  /\ m.at = Len(got) + 1 /\ m.at \in 1 .. NumBlocks
         /\ step # "read" /\ Len(got) + 1 = block
<1> DEFINE n == Len(got)
<1>1. /\ m.at \in Nat /\ m.at >= 1 /\ m.num = Number(m.at)
      /\ m.at <= block /\ n - m.at < MaxLife
  BY DEF IInv, MessagesAreTrue, DataArriving, Accepted
<1>2. n \in Nat /\ block \in Nat /\ block <= NumBlocks
  BY NumBlocksAssumption DEF IInv, TypeOK
<1>3. n \in {block - 1, block}
  BY <1>2 DEF IInv, Lockstep, WorkerNumbers, TypeOK
<1> HIDE DEF n
<1>4. n + 1 \in Nat /\ -M < (n + 1) - m.at /\ (n + 1) - m.at < M
  <2>1. m.at <= n + 1
    BY <1>1, <1>2, <1>3
  <2> QED
    BY <1>1, <1>2, <2>1, NumberAssumption
<1>5. Number(m.at) = Number(n + 1)
  BY <1>1 DEF Accepted, n
<1>6. m.at = n + 1
  BY <1>1, <1>4, <1>5, NumbersApart
<1>7. n + 1 = block /\ step # "read"
  BY <1>1, <1>2, <1>3, <1>6 DEF IInv, WorkerNumbers, n
<1> QED
  BY <1>1, <1>2, <1>6, <1>7 DEF n

-----------------------------------------------------------------------------
LEMMA InitIInv == Init => IInv
<1> SUFFICES ASSUME Init PROVE IInv
  OBVIOUS
<1>1. got = <<>> /\ Len(got) = 0 /\ got \in Seq(1 .. NumBlocks)
  BY DEF Init
<1>2. Number(0) = 0
  BY Modulus, SMTT(30) DEF Number
<1>3. TypeOK
  BY <1>1, Modulus, NumBlocksAssumption, RetriesAssumption
  DEF Init, TypeOK, Outcomes
<1>4. ClientHasPrefix /\ Lockstep /\ MessagesAreTrue
  BY <1>1 DEF Init, ClientHasPrefix, Lockstep, MessagesAreTrue
<1>5. WorkerNumbers /\ ClientNumbers
  BY <1>1, <1>2, NumBlocksAssumption DEF Init, WorkerNumbers, ClientNumbers
<1> QED
  BY <1>3, <1>4, <1>5 DEF IInv

\* Steps that change neither the blocks at either end nor _lastAck, but the
\* step of the worker between send and wait, an outcome that becomes failed or
\* crashed, or net by a message about no block.
LEMMA QuietStep ==
  ASSUME IInv,
         UNCHANGED <<lastAck, block, readOk, got>>,
         attempt' \in 0 .. (Retries + 1),
         \/ server' = server /\ (server = "complete" => step' = step)
         \/ server' \in {"failed", "crashed"},
         step' = step \/ (step' \in {"send", "wait"} /\ step # "read"),
         client' \in {client, "failed"},
         net' \in {net, net \cup {ErrorFrom("client")},
                   net \cup {ErrorFrom("server")}}
  PROVE  IInv'
<1> USE DEF IInv
<1>1. {ErrorFrom("client"), ErrorFrom("server")} \subseteq Message(NumBlocks)
  BY Modulus, NumBlocksAssumption DEF ErrorFrom, Message
<1>2. TypeOK'
  BY <1>1 DEF TypeOK, Outcomes
<1>3. ClientHasPrefix'
  BY DEF ClientHasPrefix
<1>4. Lockstep'
  BY DEF Lockstep, TypeOK
<1>5. MessagesAreTrue'
  BY DEF MessagesAreTrue, ErrorFrom
<1>6. WorkerNumbers'
  BY DEF WorkerNumbers
<1>7. ClientNumbers'
  BY DEF ClientNumbers
<1> QED
  BY <1>2, <1>3, <1>4, <1>5, <1>6, <1>7

LEMMA NextIInv == IInv /\ [Next]_vars => IInv'
<1> SUFFICES ASSUME IInv, [Next]_vars PROVE IInv'
  OBVIOUS
<1> USE DEF IInv
<1>0. /\ block \in Nat /\ block <= NumBlocks /\ Len(got) \in Nat
      /\ attempt \in 0 .. (Retries + 1)
  BY NumBlocksAssumption DEF TypeOK
<1>1. CASE ReadBlock
  <2>0. readOk' \in BOOLEAN /\ block' \in 0 .. NumBlocks
    <3>1. readOk' \in BOOLEAN
      BY <1>1 DEF ReadBlock
    <3>2. block' \in 0 .. NumBlocks
      BY <1>0, <1>1, NumBlocksAssumption DEF ReadBlock
    <3> QED
      BY <3>1, <3>2
  <2>1. TypeOK'
    BY <1>1, <2>0, RetriesAssumption DEF ReadBlock, TypeOK, clientVars
  <2>2. ClientHasPrefix' /\ ClientNumbers'
    BY <1>1 DEF ReadBlock, ClientHasPrefix, ClientNumbers, clientVars
  <2>3. MessagesAreTrue'
    BY <1>0, <1>1 DEF ReadBlock, MessagesAreTrue, clientVars
  <2>4. Lockstep' /\ WorkerNumbers'
    <3>1. block' - 1 = block /\ block' >= 1
      BY <1>0, <1>1 DEF ReadBlock
    <3> QED
      BY <1>1, <3>1 DEF ReadBlock, Lockstep, WorkerNumbers, clientVars
  <2> QED
    BY <2>1, <2>2, <2>3, <2>4
<1>2. CASE SendBlock
  <2>1. step = "send" /\ step' = "wait"
        /\ UNCHANGED <<server, lastAck, block, readOk, attempt, got, client>>
    BY <1>2 DEF SendBlock, clientVars
  <2>2. Number(lastAck + 1) = Number(block) /\ block >= 1
    BY <2>1, NumberSent
  <2> DEFINE m == Data(Number(lastAck + 1), block)
  <2>3. /\ m \in Message(NumBlocks) /\ m.type = "DATA"
        /\ m.at = block /\ m.num = Number(block)
    BY <1>0, <2>2, NumberType DEF Data, Message
  <2>4. net' \in {net, net \cup {m}}
    BY <1>2 DEF SendBlock
  <2> HIDE DEF m
  <2>5. TypeOK'
    BY <2>1, <2>3, <2>4 DEF TypeOK
  <2>6. MessagesAreTrue'
    BY <1>0, <2>1, <2>2, <2>3, <2>4 DEF MessagesAreTrue
  <2>7. ClientHasPrefix' /\ ClientNumbers' /\ Lockstep' /\ WorkerNumbers'
    BY <2>1 DEF ClientHasPrefix, ClientNumbers, Lockstep, WorkerNumbers
  <2> QED
    BY <2>5, <2>6, <2>7
<1>3. ASSUME ResendOrAbort, Waiting PROVE IInv'
  <2>1. CASE attempt <= Retries /\ attempt' = attempt + 1 /\ step' = "send"
             /\ UNCHANGED <<server, lastAck, block, readOk, net, clientVars>>
    BY <1>0, <1>3, <2>1, QuietStep, RetriesAssumption DEF Waiting, clientVars
  <2>2. CASE AbortTransfer
    BY <1>0, <2>2, QuietStep DEF AbortTransfer, clientVars
  <2> QED
    BY <1>3, <2>1, <2>2 DEF ResendOrAbort
<1>4. CASE WaitTimesOut
  BY <1>3, <1>4 DEF WaitTimesOut
<1>5. CASE UnexpectedAck
  BY <1>3, <1>5 DEF UnexpectedAck
<1>6. CASE OtherMessage \/ ReceiveFails
  BY <1>0, <1>6, QuietStep
  DEF OtherMessage, AbortTransfer, ReceiveFails, Waiting, clientVars
<1>7. CASE ExpectedAck
  <2>1. step = "wait" /\ step' = "read" /\ lastAck' = Number(lastAck + 1)
        /\ server' \in {server, "complete"} /\ server = "running"
        /\ (server' = "complete" => block = NumBlocks)
        /\ UNCHANGED <<block, readOk, attempt, net, got, client>>
    BY <1>7 DEF ExpectedAck, Waiting, clientVars
  <2>2. Len(got) = block
    BY <1>7, <2>1, AckIsOfBlock DEF ExpectedAck
  <2>3. lastAck' = Number(block)
    BY <2>1, NumberSent
  <2>4. TypeOK'
    BY <1>0, <2>1, <2>3, NumberType DEF TypeOK, Outcomes
  <2>5. ClientHasPrefix' /\ ClientNumbers' /\ MessagesAreTrue'
    BY <2>1 DEF ClientHasPrefix, ClientNumbers, MessagesAreTrue
  <2>6. Lockstep' /\ WorkerNumbers'
    BY <2>1, <2>2, <2>3 DEF Lockstep, WorkerNumbers
  <2> QED
    BY <2>4, <2>5, <2>6
<1>8. CASE ClientAccepts
  <2>1. PICK m \in DataArriving :
          /\ m.num = Number(Accepted + 1)
          /\ got' = Append(got, m.at)
          /\ client' = IF m.at = NumBlocks THEN "complete" ELSE "running"
          /\ net' = net \cup {Ack(m.num, Accepted + 1)}
    BY <1>8 DEF ClientAccepts
  <2>2. /\ m.at = Len(got) + 1 /\ m.at \in 1 .. NumBlocks
        /\ step # "read" /\ Len(got) + 1 = block
    BY <2>1, DataIsNext
  <2>3. UNCHANGED <<server, step, lastAck, block, readOk, attempt>>
    BY <1>8 DEF ClientAccepts, serverVars
  <2>4. /\ got' \in Seq(1 .. NumBlocks) /\ Len(got') = Len(got) + 1
        /\ \A i \in 1 .. Len(got) : got'[i] = got[i]
        /\ got'[Len(got) + 1] = m.at
    BY <2>1, <2>2 DEF TypeOK
  <2> DEFINE a == Ack(m.num, Accepted + 1)
  <2>5. /\ a \in Message(NumBlocks) /\ a.type = "ACK"
        /\ a.at = Len(got) + 1 /\ a.num = Number(Len(got) + 1)
    BY <1>0, <2>1, <2>2, NumberType DEF Ack, Message, Accepted
  <2>6. net' = net \cup {a}
    BY <2>1
  <2> HIDE DEF a
  <2>7. TypeOK'
    BY <2>1, <2>3, <2>4, <2>5, <2>6 DEF TypeOK, Outcomes
  <2>8. ClientHasPrefix'
    BY <1>0, <2>2, <2>4 DEF ClientHasPrefix
  <2>9. MessagesAreTrue'
    BY <1>0, <2>3, <2>4, <2>5, <2>6 DEF MessagesAreTrue
  <2>10. Lockstep' /\ WorkerNumbers'
    BY <1>0, <2>2, <2>3, <2>4 DEF Lockstep, WorkerNumbers, TypeOK
  <2>11. ClientNumbers'
    BY <1>0, <2>1, <2>2, <2>4, NumBlocksAssumption DEF ClientNumbers
  <2> QED
    BY <2>7, <2>8, <2>9, <2>10, <2>11
<1>9. CASE ClientGivesUp
  BY <1>0, <1>9, QuietStep DEF ClientGivesUp, serverVars
<1>10. CASE ClientGetsError
  BY <1>0, <1>10, QuietStep DEF ClientGetsError, serverVars
<1>11. CASE UNCHANGED vars
  BY <1>0, <1>11, QuietStep DEF vars
<1> QED
  BY <1>1, <1>2, <1>4, <1>5, <1>6, <1>7, <1>8, <1>9, <1>10, <1>11 DEF Next

\* The inductive invariant holds in every reachable state.
THEOREM Invariance == Spec => []IInv
BY InitIInv, NextIInv, PTL DEF Spec

\* Type correctness: an attempt counter within the retries, numbers below M.
THEOREM TypeCorrect == Spec => []TypeOK
<1>1. IInv => TypeOK
  BY DEF IInv
<1> QED
  BY <1>1, Invariance, PTL

\* What the client holds is a prefix of the file, for any length of the file,
\* although the 16 bits of a block number wrap (tftp_messages.h).
THEOREM PrefixHolds == Spec => []ClientHasPrefix
<1>1. IInv => ClientHasPrefix
  BY DEF IInv
<1> QED
  BY <1>1, Invariance, PTL

\* The two ends stay in lockstep (ProcessAckMessage, ServerWorker.cpp:358).
THEOREM LockstepHolds == Spec => []Lockstep
<1>1. IInv => Lockstep
  BY DEF IInv
<1> QED
  BY <1>1, Invariance, PTL

-----------------------------------------------------------------------------
\* A read request implements the abstract transfer: the blocks reach the
\* client in order, and neither end calls it complete before the client has
\* all of them.
THEOREM Implementation == Spec => ImplementsFileTransfer
<1>1. Init => Abstract!Init
  BY DEF Init, Sender, Abstract!Init
<1>2. IInv /\ IInv' /\ [Next]_vars => [Abstract!Next]_(Abstract!vars)
  <2> SUFFICES ASSUME IInv, IInv', [Next]_vars
               PROVE  Abstract!Next \/ UNCHANGED Abstract!vars
    OBVIOUS
  <2> USE DEF Abstract!vars, Sender
  <2>1. ASSUME UNCHANGED <<got, client>>, server' = server
        PROVE  UNCHANGED Abstract!vars
    BY <2>1
  <2>2. ASSUME UNCHANGED <<got, client>>, server = "running",
               server' \in {"failed", "crashed"}
        PROVE  Abstract!SenderEnds
    BY <2>2 DEF Abstract!SenderEnds
  <2>3. ASSUME UNCHANGED <<got, server>>, client = "running", client' = "failed"
        PROVE  Abstract!ReceiverEnds
    BY <2>3 DEF Abstract!ReceiverEnds
  <2>4. CASE ReadBlock \/ SendBlock
    BY <2>1, <2>4 DEF ReadBlock, SendBlock, clientVars
  <2>5. ASSUME ResendOrAbort, Waiting
        PROVE  Abstract!Next \/ UNCHANGED Abstract!vars
    BY <2>1, <2>2, <2>5
    DEF ResendOrAbort, AbortTransfer, Waiting, clientVars, Abstract!Next
  <2>6. CASE WaitTimesOut \/ UnexpectedAck
    BY <2>5, <2>6 DEF WaitTimesOut, UnexpectedAck
  <2>7. CASE OtherMessage \/ ReceiveFails
    BY <2>2, <2>7
    DEF OtherMessage, AbortTransfer, ReceiveFails, Waiting, clientVars, Abstract!Next
  <2>8. CASE ExpectedAck
    <3>1. server = "running" /\ server' \in {server, "complete"}
          /\ UNCHANGED <<got, client>>
      BY <2>8 DEF ExpectedAck, Waiting, clientVars
    <3>2. server' = "complete" => Len(got) = NumBlocks
      BY <3>1 DEF IInv, WorkerNumbers
    <3> QED
      BY <2>1, <3>1, <3>2 DEF Abstract!SenderEnds, Abstract!Next
  <2>9. CASE ClientAccepts
    <3>1. client = "running" /\ client' \in {"running", "complete"}
          /\ UNCHANGED server
      BY <2>9 DEF ClientAccepts, serverVars
    <3>2. Len(got') = Len(got) + 1 /\ Len(got) < NumBlocks
      BY <2>9, <3>1 DEF ClientAccepts, IInv, ClientNumbers, TypeOK
    <3>3. client' = "complete" => Len(got') = NumBlocks
      BY DEF IInv, ClientNumbers
    <3> QED
      BY <3>1, <3>2, <3>3 DEF Abstract!Deliver, Abstract!Next
  <2>10. CASE ClientGivesUp \/ ClientGetsError
    BY <2>3, <2>10 DEF ClientGivesUp, ClientGetsError, serverVars, Abstract!Next
  <2>11. CASE UNCHANGED vars
    BY <2>1, <2>11 DEF vars
  <2> QED
    BY <2>4, <2>6, <2>7, <2>8, <2>9, <2>10, <2>11 DEF Next
<1> QED
  BY <1>1, <1>2, Invariance, PTL DEF Spec, ImplementsFileTransfer, Abstract!Spec
=============================================================================
