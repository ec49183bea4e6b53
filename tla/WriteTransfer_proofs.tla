------------------------- MODULE WriteTransfer_proofs -------------------------
(***************************************************************************)
(* WriteTransfer for a file of any length, any modulus of the block        *)
(* numbers and any number of acknowledgements that are not sent, when the  *)
(* dispatch thread is through with Ack(0) before data arrives (Prompt).    *)
(*                                                                         *)
(* The worker has written the blocks up to Progress. _lastAck is the       *)
(* number of that block, or of the one before if the acknowledgement is    *)
(* still to be sent or could not be sent; in the second case the client is *)
(* still at that block, and what it sends again is that block.             *)
(***************************************************************************)
EXTENDS WriteTransfer, TLAPS

\* _lastAck is that of the block before the one written last.
Behind == Progress >= 1 /\ lastAck = Number(Progress - 1)

WorkerNumbers ==
  /\ step \in {"ack", "store"} => Behind
  /\ step \in {"receive", "finalize"} =>
       lastAck = Number(Progress) \/ (Behind /\ unsent > 0)
  /\ step = "finalize" => Progress = NumBlocks
  /\ server = "complete" => Progress = NumBlocks

\* The client is at the block the worker has written last, or at the next one
\* if that block has been acknowledged.
ClientNumbers ==
  /\ sent \in {Progress, Progress + 1}
  /\ sent = Progress + 1 => step = "store" \/ ~Behind
  /\ client = "complete" => Progress = NumBlocks

\* Messages say what they are about: a DATA message one of the blocks the
\* client has sent, an ACK one that was written, and not the last one written
\* as long as its acknowledgement has not been sent.
MessagesAreTrue ==
  \A m \in net :
    /\ m.type \in {"DATA", "ACK"} => m.at \in Nat /\ m.num = Number(m.at)
    /\ m.type = "DATA" => m.at >= 1 /\ m.at <= sent
    /\ m.type = "ACK" => m.at <= Progress
    /\ m.type = "ACK" /\ Behind /\ step # "store" => m.at < Progress

\* The dispatch thread is in Ack(0) only before the first block.
AckZeroFirst ==
  Prompt /\ (request # "done" => step = "receive" /\ written = <<>> /\ lastAck = 0)

IInv ==
  /\ TypeOK /\ NoGapNoReorder /\ WrittenIsPrefix
  /\ WorkerNumbers /\ ClientNumbers /\ MessagesAreTrue /\ AckZeroFirst

-----------------------------------------------------------------------------
(***************************************************************************)
(* Block numbers that wrap, for any modulus: the number of the next block  *)
(* is the successor of the number, modulo M, and two blocks less than M    *)
(* apart have different numbers.                                           *)
(***************************************************************************)
LEMMA Modulus == M \in Nat /\ M > 1
BY NumberAssumption

LEMMA Division ==
  ASSUME NEW a \in Nat
  PROVE  /\ a \div M \in Nat /\ (a % M) \in 0 .. (M - 1)
         /\ a = M * (a \div M) + (a % M)
BY Modulus, SMTT(30)

\* A multiple of M that is smaller than M is 0.
LEMMA SmallMultiple ==
  ASSUME NEW q \in Int, NEW r \in Int, -M < r, r < M, M * q = r
  PROVE  q = 0
<1>1. ASSUME q >= 1 PROVE M * q >= M
  BY <1>1, Modulus, SMTT(30)
<1>2. ASSUME q <= -1 PROVE M * q <= -M
  BY <1>2, Modulus, SMTT(30)
<1> QED
  BY <1>1, <1>2, Modulus

\* The number of a message that is at most M - 1 blocks late identifies it.
LEMMA NumbersApart ==
  ASSUME NEW a \in Nat, NEW b \in Nat, -M < b - a, b - a < M,
         Number(a) = Number(b)
  PROVE  a = b
<1> DEFINE p == a \div M
           q == b \div M
<1>1. p \in Nat /\ q \in Nat /\ (a % M) \in Int /\ (b % M) = (a % M)
  BY Division DEF Number
<1>2. a = M * p + (a % M) /\ b = M * q + (b % M)
  BY Division
<1> HIDE DEF p, q
<1>3. M * (q - p) = b - a
  <2>1. M * (q - p) = M * q - M * p
    BY <1>1, Modulus, SMTT(30)
  <2>2. M * p \in Int /\ M * q \in Int
    BY <1>1, Modulus
  <2> QED
    BY <1>1, <1>2, <2>1, <2>2
<1>4. q - p = 0
  BY <1>1, <1>3, SmallMultiple
<1>5. q = p
  BY <1>1, <1>4
<1> QED
  BY <1>1, <1>2, <1>5

LEMMA NumberType ==
  ASSUME NEW n \in Nat
  PROVE  Number(n) \in 0 .. (M - 1)
BY Division DEF Number

\* _lastAck + 1, in 16 bits, is the number of the block after.
LEMMA NumberOfNext ==
  ASSUME NEW n \in Nat
  PROVE  Number(Number(n) + 1) = Number(n + 1)
<1> DEFINE q == n \div M
           r == n % M
<1>1. q \in Nat /\ r \in 0 .. (M - 1) /\ n = M * q + r
  BY Division
<1>2. Number(n) = r
  BY DEF Number
<1> HIDE DEF q, r
<1>3. CASE r + 1 < M
  <2>1. n + 1 = M * q + (r + 1)
    BY <1>1, Modulus
  <2> QED
    BY <1>1, <1>2, <1>3, <2>1, Modulus, SMTT(30) DEF Number
<1>4. CASE r + 1 = M
  <2>1. n + 1 = M * (q + 1)
    BY <1>1, <1>4, Modulus, SMTT(30)
  <2> QED
    BY <1>1, <1>2, <1>4, <2>1, Modulus, SMTT(30) DEF Number
<1> QED
  BY <1>1, <1>3, <1>4, Modulus

-----------------------------------------------------------------------------
LEMMA ElementsOfSeq ==
  ASSUME NEW S, NEW s \in Seq(S)
  PROVE  \A i \in 1 .. Len(s) : s[i] \in S
OBVIOUS

LEMMA ProgressType ==
  ASSUME TypeOK
  PROVE  /\ Progress \in Nat /\ Progress <= NumBlocks
         /\ Progress = 0 <=> written = <<>>
         /\ written # <<>> => Progress = LastWritten
         /\ lastAck \in 0 .. (M - 1) /\ sent \in Nat /\ unsent \in Nat
<1>1. CASE written = <<>>
  BY <1>1, NumBlocksAssumption, UnsentAssumption DEF TypeOK, Progress
<1>2. CASE written # <<>>
  <2>1. Len(written) \in 1 .. Len(written)
    BY <1>2 DEF TypeOK
  <2>2. \A i \in 1 .. Len(written) : written[i] \in 1 .. NumBlocks
    BY ElementsOfSeq DEF TypeOK
  <2>3. LastWritten \in 1 .. NumBlocks
    BY <2>1, <2>2 DEF LastWritten
  <2> QED
    BY <1>2, <2>3, NumBlocksAssumption, UnsentAssumption DEF TypeOK, Progress
<1> QED
  BY <1>1, <1>2

LEMMA ProgressTypeNext ==
  ASSUME TypeOK'
  PROVE  Progress' \in Nat
<1>1. CASE written' = <<>>
  BY <1>1 DEF Progress
<1>2. CASE written' # <<>>
  <2>1. Len(written') \in 1 .. Len(written')
    BY <1>2 DEF TypeOK
  <2>2. \A i \in 1 .. Len(written') : written'[i] \in 1 .. NumBlocks
    BY ElementsOfSeq DEF TypeOK
  <2>3. LastWritten' \in 1 .. NumBlocks
    BY <2>1, <2>2 DEF LastWritten
  <2> QED
    BY <1>2, <2>3, NumBlocksAssumption DEF Progress
<1> QED
  BY <1>1, <1>2

\* The block expected, computed without division, is the one after _lastAck.
LEMMA ExpectedIsNext ==
  ASSUME NEW n \in Nat, lastAck = Number(n)
  PROVE  ExpectedBlock = Number(n + 1)
<1>1. Number(lastAck + 1) = Number(n + 1) /\ lastAck \in 0 .. (M - 1)
  BY NumberOfNext, NumberType
<1>2. CASE lastAck = M - 1
  BY <1>1, <1>2, Modulus, SMTT(30) DEF ExpectedBlock, Number
<1>3. CASE lastAck # M - 1
  BY <1>1, <1>3, Modulus, SMTT(30) DEF ExpectedBlock, Number
<1> QED
  BY <1>2, <1>3

\* Neighbours have different numbers.
LEMMA BehindOrNotNext ==
  ASSUME TypeOK', lastAck' = Number(Progress')
  PROVE  ~Behind'
<1> SUFFICES ASSUME Behind' PROVE FALSE
  OBVIOUS
<1> DEFINE p == Progress'
<1>1. p \in Nat
  BY ProgressTypeNext
<1>2. p >= 1 /\ lastAck' = Number(p - 1)
  BY DEF Behind
<1>3. Number(p) = Number(p - 1)
  BY <1>2
<1> HIDE DEF p
<1>4. p - 1 \in Nat
  BY <1>1, <1>2
<1>5. p = p - 1
  BY <1>1, <1>3, <1>4, NumbersApart, Modulus
<1> QED
  BY <1>1, <1>5

\* A block the worker accepts is the next one, or, when its acknowledgement
\* could not be sent, the last one again.
LEMMA BlockAccepted ==
  ASSUME IInv, Receiving, NEW m \in DataArriving, m.num = ExpectedBlock
  PROVE  /\ m.at = sent /\ m.at \in 1 .. NumBlocks
         /\ \/ m.at = Progress + 1 /\ lastAck = Number(Progress)
            \/ m.at = Progress /\ Behind /\ unsent > 0
<1> DEFINE p == Progress
<1>1. /\ m.at \in Nat /\ m.at >= 1 /\ m.at <= sent /\ m.num = Number(m.at)
      /\ sent - m.at < MaxLife
  BY DEF IInv, MessagesAreTrue, DataArriving
<1>2. p \in Nat /\ sent \in {p, p + 1} /\ sent <= NumBlocks
  BY ProgressType, NumBlocksAssumption DEF IInv, ClientNumbers, TypeOK
<1>3. CASE lastAck = Number(p)
  <2>1. Number(m.at) = Number(p + 1) /\ p + 1 \in Nat
    BY <1>1, <1>2, <1>3, ExpectedIsNext
  <2> HIDE DEF p
  <2>2. -M < (p + 1) - m.at /\ (p + 1) - m.at < M
    BY <1>1, <1>2, NumberAssumption
  <2>3. m.at = p + 1
    BY <1>1, <2>1, <2>2, NumbersApart
  <2>4. m.at = sent /\ m.at \in 1 .. NumBlocks
    BY <1>1, <1>2, <2>3, NumBlocksAssumption
  <2> QED
    BY <1>3, <2>3, <2>4 DEF p
<1>4. CASE Behind /\ unsent > 0
  <2>1. p - 1 \in Nat /\ (p - 1) + 1 = p /\ lastAck = Number(p - 1)
    BY <1>2, <1>4 DEF Behind
  <2>2. sent = p
    BY <1>2, <1>4 DEF IInv, ClientNumbers, Receiving
  <2> HIDE DEF p
  <2>3. Number(m.at) = Number(p)
    BY <1>1, <2>1, ExpectedIsNext
  <2>4. -M < p - m.at /\ p - m.at < M
    BY <1>1, <1>2, <2>2, NumberAssumption
  <2>5. m.at = p
    BY <1>1, <1>2, <2>3, <2>4, NumbersApart
  <2>6. m.at = sent /\ m.at \in 1 .. NumBlocks
    BY <1>1, <1>2, <2>2, <2>5, NumBlocksAssumption
  <2> QED
    BY <1>4, <2>5, <2>6 DEF p
<1> QED
  BY <1>3, <1>4 DEF IInv, WorkerNumbers, Receiving

\* The client takes no other acknowledgement for that of the block it sent:
\* the worker has written the block and acknowledged it.
LEMMA AckAccepted ==
  ASSUME IInv, NEW m \in AckArriving, m.num = Number(sent)
  PROVE  sent = Progress /\ (step = "store" \/ ~Behind)
<1> DEFINE p == Progress
<1>1. /\ m.at \in Nat /\ m.at <= p /\ m.num = Number(m.at)
      /\ Behind /\ step # "store" => m.at < p
      /\ sent - m.at < MaxLife
  BY DEF IInv, MessagesAreTrue, AckArriving
<1>2. p \in Nat /\ sent \in Nat /\ sent \in {p, p + 1}
  BY ProgressType DEF IInv, ClientNumbers
<1> HIDE DEF p
<1>3. -M < sent - m.at /\ sent - m.at < M
  BY <1>1, <1>2, NumberAssumption
<1>4. m.at = sent
  BY <1>1, <1>2, <1>3, NumbersApart
<1>5. sent = p /\ (step = "store" \/ ~Behind)
  BY <1>1, <1>2, <1>4
<1> QED
  BY <1>5 DEF p

-----------------------------------------------------------------------------
LEMMA InitIInv == Prompt /\ Init => IInv
<1> SUFFICES ASSUME Prompt, Init PROVE IInv
  OBVIOUS
<1>1. written = <<>> /\ Len(written) = 0 /\ written \in Seq(1 .. NumBlocks)
  BY DEF Init
<1>2. Number(0) = 0
  BY Modulus, SMTT(30) DEF Number
<1>3. Progress = 0
  BY <1>1 DEF Progress
<1>4. TypeOK
  BY <1>1, Modulus, NumBlocksAssumption, UnsentAssumption
  DEF Init, TypeOK, Outcomes
<1>5. NoGapNoReorder /\ WrittenIsPrefix
  BY <1>1 DEF NoGapNoReorder, WrittenIsPrefix
<1>6. WorkerNumbers /\ ClientNumbers /\ MessagesAreTrue /\ AckZeroFirst
  BY <1>2, <1>3
  DEF Init, WorkerNumbers, ClientNumbers, MessagesAreTrue, AckZeroFirst, Behind
<1> QED
  BY <1>4, <1>5, <1>6 DEF IInv

\* Steps that change nothing but an outcome, which becomes failed or crashed,
\* and net, by a message about no block.
LEMMA QuietStep ==
  ASSUME IInv,
         UNCHANGED <<request, step, lastAck, written, unsent,
                     lastIsEmpty, sent>>,
         server' \in {server, "failed", "crashed"}, client' \in {client, "failed"},
         net' \in {net, net \cup {ErrorFrom("client")},
                   net \cup {ErrorFrom("server")}}
  PROVE  IInv'
<1> USE DEF IInv
<1>1. {ErrorFrom("client"), ErrorFrom("server")} \subseteq Message(NumBlocks)
  BY Modulus, NumBlocksAssumption DEF ErrorFrom, Message
<1>2. Progress' = Progress /\ (Behind' <=> Behind)
  BY DEF Progress, LastWritten, Behind
<1>3. TypeOK'
  BY <1>1 DEF TypeOK, Outcomes
<1>4. NoGapNoReorder' /\ WrittenIsPrefix' /\ AckZeroFirst'
  BY DEF NoGapNoReorder, WrittenIsPrefix, AckZeroFirst
<1>5. WorkerNumbers' /\ ClientNumbers'
  BY <1>2 DEF WorkerNumbers, ClientNumbers
<1>6. MessagesAreTrue'
  BY <1>2 DEF MessagesAreTrue, ErrorFrom
<1> QED
  BY <1>3, <1>4, <1>5, <1>6

\* The block accepted goes to the end of the file.
LEMMA AcceptKeepsIInv == IInv /\ AcceptBlock => IInv'
<1> SUFFICES ASSUME IInv, AcceptBlock PROVE IInv'
  OBVIOUS
<1> USE DEF IInv
<1>1. PICK m \in DataArriving :
        m.num = ExpectedBlock /\ written' = Append(written, m.at)
  BY DEF AcceptBlock
<1>2. /\ Receiving /\ step = "receive" /\ step' = "ack"
      /\ server = "running" /\ request = "done"
      /\ UNCHANGED <<server, request, lastAck, unsent, net,
                     lastIsEmpty, sent, client>>
  BY DEF AcceptBlock, Receiving, AckZeroFirst, clientVars
<1>3. /\ m.at = sent /\ m.at \in 1 .. NumBlocks
      /\ \/ m.at = Progress + 1 /\ lastAck = Number(Progress)
         \/ m.at = Progress /\ Behind /\ unsent > 0
  BY <1>1, <1>2, BlockAccepted
<1> DEFINE n == Len(written)
<1>4. /\ n \in Nat /\ written' \in Seq(1 .. NumBlocks) /\ Len(written') = n + 1
      /\ \A i \in 1 .. n : written'[i] = written[i]
      /\ written'[n + 1] = m.at
  BY <1>1, <1>3 DEF TypeOK
<1>5. Progress' = m.at
  BY <1>4 DEF Progress, LastWritten
<1>6. Progress \in Nat /\ lastAck \in 0 .. (M - 1)
      /\ (Progress = 0 <=> written = <<>>)
      /\ (written # <<>> => Progress = written[n])
  BY ProgressType DEF LastWritten
<1>7. Behind'
  BY <1>2, <1>3, <1>5, <1>6 DEF Behind
<1>8. TypeOK'
  BY <1>2, <1>4 DEF TypeOK
<1>9. NoGapNoReorder'
  <2>1. n = 0 => m.at = 1
    BY <1>3, <1>4, <1>6 DEF TypeOK, Behind
  <2>2. n > 0 => m.at \in {written[n], written[n] + 1}
    BY <1>3, <1>4, <1>6 DEF TypeOK
  <2>3. ASSUME NEW i \in 1 .. (n + 1)
        PROVE  IF i = 1 THEN written'[i] = 1
               ELSE written'[i] \in {written'[i - 1], written'[i - 1] + 1}
    <3>1. CASE i \in 1 .. n
      <4>1. i # 1 => i - 1 \in 1 .. n
        BY <1>4, <3>1
      <4>2. written'[i] = written[i] /\ (i # 1 => written'[i - 1] = written[i - 1])
        BY <1>4, <3>1, <4>1
      <4> QED
        BY <3>1, <4>2 DEF NoGapNoReorder
    <3>2. CASE i = n + 1
      BY <1>4, <2>1, <2>2, <3>2
    <3> QED
      BY <1>4, <3>1, <3>2
  <2> QED
    BY <1>4, <2>3 DEF NoGapNoReorder
<1>10. WrittenIsPrefix'
  <2>1. ASSUME unsent = 0 PROVE m.at = n + 1
    <3>1. m.at = Progress + 1
      BY <1>3, <2>1
    <3>2. n > 0 => written[n] = n
      BY <1>4, <2>1 DEF WrittenIsPrefix
    <3> QED
      BY <1>4, <1>6, <3>1, <3>2 DEF TypeOK
  <2> QED
    BY <1>2, <1>4, <2>1 DEF WrittenIsPrefix
<1>11. WorkerNumbers' /\ AckZeroFirst'
  BY <1>2, <1>7 DEF WorkerNumbers, AckZeroFirst
<1>12. ClientNumbers'
  BY <1>2, <1>3, <1>5, <1>6, ProgressType
  DEF ClientNumbers, TypeOK
<1>13. MessagesAreTrue'
  <2>1. CASE m.at = Progress + 1
    BY <1>2, <1>3, <1>5, <1>6, <2>1 DEF MessagesAreTrue
  <2>2. CASE m.at = Progress /\ Behind
    BY <1>2, <1>3, <1>5, <1>6, <2>2 DEF MessagesAreTrue
  <2> QED
    BY <1>3, <2>1, <2>2
<1> QED
  BY <1>8, <1>9, <1>10, <1>11, <1>12, <1>13

LEMMA NextIInv == IInv /\ [Next]_vars => IInv'
<1> SUFFICES ASSUME IInv, [Next]_vars PROVE IInv'
  OBVIOUS
<1> USE DEF IInv
<1>0. /\ Progress \in Nat /\ Progress <= NumBlocks
      /\ Progress = 0 <=> written = <<>>
      /\ written # <<>> => Progress = LastWritten
      /\ lastAck \in 0 .. (M - 1) /\ sent \in Nat /\ unsent \in Nat
  BY ProgressType
<1>a. ASSUME UNCHANGED written
      PROVE  Progress' = Progress
  BY <1>a DEF Progress, LastWritten
<1>b. ASSUME UNCHANGED <<written, lastAck>>
      PROVE  Behind' <=> Behind
  BY <1>b DEF Progress, LastWritten, Behind
<1>c. ASSUME UNCHANGED <<written, unsent>>
      PROVE  NoGapNoReorder' /\ WrittenIsPrefix'
  BY <1>c DEF NoGapNoReorder, WrittenIsPrefix
<1>d. ASSUME UNCHANGED written, AckFails
      PROVE  NoGapNoReorder' /\ WrittenIsPrefix'
             /\ unsent' \in 0 .. MaxUnsent /\ unsent' > 0
  BY <1>0, <1>d, UnsentAssumption DEF AckFails, NoGapNoReorder, WrittenIsPrefix
<1>1. CASE SendAck0
  <2>1. /\ request # "done" /\ request' \in {"store", "done"}
        /\ UNCHANGED <<server, step, lastAck, written, lastIsEmpty,
                       sent, client>>
        /\ \/ net' = net \cup {Ack(0, 0)} /\ UNCHANGED unsent
           \/ AckFails /\ UNCHANGED net
    BY <1>1 DEF SendAck0, clientVars
  <2>2. step = "receive" /\ Progress = 0 /\ lastAck = 0 /\ written = <<>>
    BY <1>0, <2>1 DEF AckZeroFirst
  <2>3. /\ Ack(0, 0) \in Message(NumBlocks) /\ Number(0) = 0
        /\ Ack(0, 0).type = "ACK" /\ Ack(0, 0).at = 0 /\ Ack(0, 0).num = 0
    BY Modulus, NumBlocksAssumption, SMTT(30) DEF Ack, Message, Number
  <2>4. ~Behind /\ ~Behind' /\ Progress' = 0
    BY <1>a, <1>b, <2>1, <2>2 DEF Behind
  <2>5. TypeOK'
    BY <1>d, <2>1, <2>3 DEF TypeOK
  <2>6. NoGapNoReorder' /\ WrittenIsPrefix' /\ AckZeroFirst'
    BY <1>c, <1>d, <2>1, <2>2 DEF AckZeroFirst
  <2>7. WorkerNumbers' /\ ClientNumbers'
    BY <2>1, <2>2, <2>3, <2>4 DEF WorkerNumbers, ClientNumbers
  <2>8. MessagesAreTrue'
    BY <2>1, <2>2, <2>3, <2>4 DEF MessagesAreTrue
  <2> QED
    BY <2>5, <2>6, <2>7, <2>8
<1>2. CASE StoreAck0
  <2>1. /\ request # "done" /\ request' = "done" /\ lastAck' = 0
        /\ UNCHANGED <<server, step, written, unsent, net, lastIsEmpty,
                       sent, client>>
    BY <1>2 DEF StoreAck0, clientVars
  <2>2. UNCHANGED lastAck
    BY <2>1 DEF AckZeroFirst
  <2>3. TypeOK'
    BY <2>1, <2>2 DEF TypeOK
  <2>4. NoGapNoReorder' /\ WrittenIsPrefix' /\ AckZeroFirst'
    BY <1>c, <2>1 DEF AckZeroFirst
  <2>5. WorkerNumbers' /\ ClientNumbers' /\ MessagesAreTrue'
    BY <1>a, <1>b, <2>1, <2>2 DEF WorkerNumbers, ClientNumbers, MessagesAreTrue
  <2> QED
    BY <2>3, <2>4, <2>5
<1>3. CASE WaitTimesOut \/ RefuseBlock \/ ClientError \/ ReceiveFails
  BY <1>3, QuietStep
  DEF WaitTimesOut, RefuseBlock, ClientError, ReceiveFails, AbortTransfer,
      clientVars
<1>4. CASE AcceptBlock
  BY <1>4, AcceptKeepsIInv
<1>5. CASE SendAck
  <2>1. /\ step = "ack" /\ server = "running"
        /\ UNCHANGED <<server, request, lastAck, written, lastIsEmpty,
                       sent, client>>
    BY <1>5 DEF SendAck, clientVars
  <2>2. Behind /\ Behind' /\ Progress >= 1 /\ Progress' = Progress
        /\ LastWritten = Progress /\ request = "done"
    BY <1>0, <1>a, <1>b, <2>1 DEF WorkerNumbers, Behind, AckZeroFirst
  <2>3. CASE net' = net \cup {Ack(Number(LastWritten), LastWritten)}
             /\ step' = "store" /\ UNCHANGED unsent
    <3> DEFINE a == Ack(Number(LastWritten), LastWritten)
    <3>1. /\ a \in Message(NumBlocks) /\ a.type = "ACK"
          /\ a.at = Progress /\ a.num = Number(Progress)
      BY <1>0, <2>2, NumberType DEF Ack, Message
    <3>2. net' = net \cup {a}
      BY <2>3
    <3> HIDE DEF a
    <3>3. TypeOK'
      BY <2>1, <2>3, <3>1, <3>2 DEF TypeOK
    <3>4. NoGapNoReorder' /\ WrittenIsPrefix' /\ AckZeroFirst'
      BY <1>c, <2>1, <2>2, <2>3 DEF AckZeroFirst
    <3>5. WorkerNumbers' /\ ClientNumbers'
      BY <2>1, <2>2, <2>3 DEF WorkerNumbers, ClientNumbers
    <3>6. MessagesAreTrue'
      BY <1>0, <2>1, <2>2, <2>3, <3>1, <3>2 DEF MessagesAreTrue
    <3> QED
      BY <3>3, <3>4, <3>5, <3>6
  <2>4. CASE AckFails /\ step' = NextStep /\ UNCHANGED net
    <3>1. step' \in {"receive", "finalize"}
          /\ (step' = "finalize" => Progress = NumBlocks)
      BY <2>2, <2>4 DEF NextStep
    <3>2. TypeOK'
      BY <1>d, <2>1, <2>4, <3>1 DEF TypeOK
    <3>3. NoGapNoReorder' /\ WrittenIsPrefix' /\ AckZeroFirst'
      BY <1>d, <2>1, <2>2, <2>4 DEF AckZeroFirst
    <3>4. WorkerNumbers' /\ ClientNumbers'
      BY <1>d, <2>1, <2>2, <2>4, <3>1 DEF WorkerNumbers, ClientNumbers
    <3>5. MessagesAreTrue'
      BY <2>1, <2>2, <2>4, <3>1 DEF MessagesAreTrue
    <3> QED
      BY <3>2, <3>3, <3>4, <3>5
  <2> QED
    BY <1>5, <2>3, <2>4 DEF SendAck
<1>6. CASE StoreLastAck
  <2>1. /\ step = "store" /\ server = "running"
        /\ UNCHANGED <<server, request, written, unsent, net,
                       lastIsEmpty, sent, client>>
        /\ lastAck' = Number(LastWritten) /\ step' = NextStep
    BY <1>6 DEF StoreLastAck, clientVars
  <2>2. Progress >= 1 /\ Progress' = Progress /\ LastWritten = Progress
        /\ request = "done"
    BY <1>0, <1>a, <2>1 DEF WorkerNumbers, Behind, AckZeroFirst
  <2>3. lastAck' = Number(Progress) /\ lastAck' \in 0 .. (M - 1)
    BY <1>0, <2>1, <2>2, NumberType
  <2>4. step' \in {"receive", "finalize"}
        /\ (step' = "finalize" => Progress = NumBlocks)
    BY <2>1, <2>2 DEF NextStep
  <2>5. TypeOK'
    BY <2>1, <2>3, <2>4 DEF TypeOK
  <2>6. ~Behind'
    BY <2>2, <2>3, <2>5, BehindOrNotNext
  <2>7. NoGapNoReorder' /\ WrittenIsPrefix' /\ AckZeroFirst'
    BY <1>c, <2>1, <2>2 DEF AckZeroFirst
  <2>8. WorkerNumbers' /\ ClientNumbers'
    BY <2>1, <2>2, <2>3, <2>4, <2>6 DEF WorkerNumbers, ClientNumbers
  <2>9. MessagesAreTrue'
    BY <2>1, <2>2, <2>6 DEF MessagesAreTrue
  <2> QED
    BY <2>5, <2>7, <2>8, <2>9
<1>7. CASE Finalize
  <2>1. /\ step = "finalize" /\ server' = "complete"
        /\ UNCHANGED <<request, step, lastAck, written, unsent, net,
                       lastIsEmpty, sent, client>>
    BY <1>7 DEF Finalize, clientVars
  <2>2. TypeOK'
    BY <2>1 DEF TypeOK, Outcomes
  <2>3. NoGapNoReorder' /\ WrittenIsPrefix' /\ AckZeroFirst'
    BY <1>c, <2>1 DEF AckZeroFirst
  <2>4. WorkerNumbers' /\ ClientNumbers' /\ MessagesAreTrue'
    BY <1>a, <1>b, <2>1 DEF WorkerNumbers, ClientNumbers, MessagesAreTrue
  <2> QED
    BY <2>2, <2>3, <2>4
<1>8. CASE ClientSendsNext
  <2>1. /\ sent < NumBlocks /\ sent' = sent + 1
        /\ net' = net \cup {Data(Number(sent + 1), sent + 1)}
        /\ UNCHANGED <<server, request, step, lastAck, written, unsent,
                       lastIsEmpty, client>>
        /\ \E m \in AckArriving : m.num = Number(sent)
    BY <1>8 DEF ClientSendsNext, serverVars
  <2>2. sent = Progress /\ (step = "store" \/ ~Behind)
    BY <2>1, AckAccepted
  <2>3. Progress' = Progress /\ (Behind' <=> Behind)
    BY <1>a, <1>b, <2>1
  <2> DEFINE d == Data(Number(sent + 1), sent + 1)
  <2>4. /\ d \in Message(NumBlocks) /\ d.type = "DATA"
        /\ d.at = sent + 1 /\ d.num = Number(sent + 1)
    BY <1>0, <2>1, NumberType, NumBlocksAssumption DEF Data, Message
  <2>5. net' = net \cup {d}
    BY <2>1
  <2> HIDE DEF d
  <2>6. TypeOK'
    BY <1>0, <2>1, <2>4, <2>5, NumBlocksAssumption DEF TypeOK
  <2>7. NoGapNoReorder' /\ WrittenIsPrefix' /\ AckZeroFirst'
    BY <1>c, <2>1 DEF AckZeroFirst
  <2>8. WorkerNumbers' /\ ClientNumbers'
    BY <1>0, <2>1, <2>2, <2>3 DEF WorkerNumbers, ClientNumbers
  <2>9. MessagesAreTrue'
    BY <1>0, <2>1, <2>3, <2>4, <2>5 DEF MessagesAreTrue
  <2> QED
    BY <2>6, <2>7, <2>8, <2>9
<1>9. CASE ClientIsDone
  <2>1. /\ sent = NumBlocks /\ client' = "complete"
        /\ UNCHANGED <<server, request, step, lastAck, written, unsent,
                       net, lastIsEmpty, sent>>
        /\ \E m \in AckArriving : m.num = Number(sent)
    BY <1>9 DEF ClientIsDone, serverVars
  <2>2. Progress = NumBlocks
    BY <2>1, AckAccepted
  <2>3. TypeOK'
    BY <2>1 DEF TypeOK, Outcomes
  <2>4. NoGapNoReorder' /\ WrittenIsPrefix' /\ AckZeroFirst'
    BY <1>c, <2>1 DEF AckZeroFirst
  <2>5. WorkerNumbers' /\ ClientNumbers' /\ MessagesAreTrue'
    BY <1>a, <1>b, <2>1, <2>2 DEF WorkerNumbers, ClientNumbers, MessagesAreTrue
  <2> QED
    BY <2>3, <2>4, <2>5
<1>10. CASE ClientGivesUp
  BY <1>10, QuietStep DEF ClientGivesUp, serverVars
<1>11. CASE ClientGetsError
  BY <1>11, QuietStep DEF ClientGetsError, serverVars
<1>12. CASE UNCHANGED vars
  BY <1>12, QuietStep DEF vars, serverVars, clientVars
<1> QED
  BY <1>1, <1>2, <1>3, <1>4, <1>5, <1>6, <1>7, <1>8, <1>9, <1>10, <1>11, <1>12
  DEF Next

\* The inductive invariant holds in every reachable state.
THEOREM Invariance == Prompt /\ Spec => []IInv
BY InitIInv, NextIInv, PTL DEF Spec

\* Type correctness: _lastAck stays below M, and only blocks of the file are
\* written.
THEOREM TypeCorrect == Prompt /\ Spec => []TypeOK
<1>1. IInv => TypeOK
  BY DEF IInv
<1> QED
  BY <1>1, Invariance, PTL

\* No block is skipped and none comes before its time, for any length of the
\* file, although block numbers wrap and acknowledgements fail to be sent
\* (ProcessDataMessage, ServerWorker.cpp:584).
THEOREM NoGapHolds == Prompt /\ Spec => []NoGapNoReorder
<1>1. IInv => NoGapNoReorder
  BY DEF IInv
<1> QED
  BY <1>1, Invariance, PTL

\* Each block is written once while every acknowledgement can be sent.
THEOREM PrefixHolds == Prompt /\ Spec => []WrittenIsPrefix
<1>1. IInv => WrittenIsPrefix
  BY DEF IInv
<1> QED
  BY <1>1, Invariance, PTL

\* The worker waits for the block after the last one it acknowledged: the
\* successor it computes without a division is the number of that block.
THEOREM ExpectsNextHolds == Prompt /\ Spec => []ExpectsNextBlock
<1>1. IInv => ExpectsNextBlock
  <2> SUFFICES ASSUME IInv, Receiving, written # <<>>, unsent = 0
               PROVE  ExpectedBlock = Number(LastWritten + 1)
    BY DEF ExpectsNextBlock
  <2>1. lastAck = Number(Progress)
    BY DEF IInv, WorkerNumbers, Receiving
  <2>2. Progress \in Nat /\ Progress = LastWritten
    BY ProgressType DEF IInv
  <2> QED
    BY <2>1, <2>2, ExpectedIsNext
<1> QED
  BY <1>1, Invariance, PTL

-----------------------------------------------------------------------------
\* A write request implements the abstract transfer: the worker takes the
\* blocks in order, it replaces the target only when it has all of them, and
\* the client is told so no earlier.
THEOREM Implementation == Prompt /\ Spec => ImplementsFileTransfer
<1>1. Init => Abstract!Init
  BY DEF Init, Progress, Receiver, Abstract!Init
<1>2. IInv /\ IInv' /\ [Next]_vars => [Abstract!Next]_(Abstract!vars)
  <2> SUFFICES ASSUME IInv, IInv', [Next]_vars
               PROVE  Abstract!Next \/ UNCHANGED Abstract!vars
    OBVIOUS
  <2> USE DEF Abstract!vars, Receiver
  <2>0. UNCHANGED written => Progress' = Progress
    BY DEF Progress, LastWritten
  <2>1. ASSUME UNCHANGED <<written, server, client>>
        PROVE  UNCHANGED Abstract!vars
    BY <2>0, <2>1
  <2>2. ASSUME UNCHANGED <<written, client>>, server = "running",
                           server' \in {"failed", "crashed"}
        PROVE  Abstract!Next
    BY <2>0, <2>2 DEF Abstract!ReceiverEnds, Abstract!Next
  <2>3. ASSUME UNCHANGED <<written, server>>, client = "running",
                           client' = "failed"
        PROVE  Abstract!Next
    BY <2>0, <2>3 DEF Abstract!SenderEnds, Abstract!Next
  <2>4. CASE SendAck0 \/ StoreAck0 \/ SendAck \/ StoreLastAck
    BY <2>1, <2>4 DEF SendAck0, StoreAck0, SendAck, StoreLastAck, clientVars
  <2>5. CASE WaitTimesOut \/ RefuseBlock \/ ClientError \/ ReceiveFails
    BY <2>2, <2>5
    DEF WaitTimesOut, RefuseBlock, ClientError, ReceiveFails, AbortTransfer,
        Receiving, clientVars
  <2>6. CASE AcceptBlock
    <3>1. /\ Receiving /\ server = "running" /\ UNCHANGED <<server, client>>
          /\ \E m \in DataArriving :
               m.num = ExpectedBlock /\ written' = Append(written, m.at)
      BY <2>6 DEF AcceptBlock, Receiving, clientVars
    <3>2. PICK m \in DataArriving :
            m.num = ExpectedBlock /\ written' = Append(written, m.at)
      BY <3>1
    <3>3. m.at \in 1 .. NumBlocks /\ m.at \in {Progress, Progress + 1}
      BY <3>1, <3>2, BlockAccepted
    <3>4. Progress' = m.at
      BY <3>2, <3>3 DEF Progress, LastWritten, IInv, TypeOK
    <3>5. Progress \in Nat /\ Progress <= NumBlocks
      BY ProgressType DEF IInv
    <3>6. CASE m.at = Progress
      BY <3>1, <3>4, <3>6
    <3>7. CASE m.at = Progress + 1
      <4>1. Progress < NumBlocks
        BY <3>3, <3>5, <3>7, NumBlocksAssumption
      <4> QED
        BY <3>1, <3>4, <3>7, <4>1 DEF Abstract!Deliver, Abstract!Next
    <3> QED
      BY <3>3, <3>6, <3>7
  <2>7. CASE Finalize
    <3>1. /\ server = "running" /\ server' = "complete"
          /\ Progress = NumBlocks /\ UNCHANGED <<written, client>>
      BY <2>7 DEF Finalize, clientVars, IInv, WorkerNumbers
    <3> QED
      BY <2>0, <3>1 DEF Abstract!ReceiverEnds, Abstract!Next
  <2>8. CASE ClientSendsNext
    BY <2>1, <2>8 DEF ClientSendsNext, serverVars
  <2>9. CASE ClientIsDone
    <3>1. /\ client = "running" /\ client' = "complete"
          /\ UNCHANGED <<written, server>>
      BY <2>9 DEF ClientIsDone, serverVars
    <3>2. Progress' = NumBlocks
      BY <3>1 DEF IInv, ClientNumbers
    <3> QED
      BY <2>0, <3>1, <3>2 DEF Abstract!SenderEnds, Abstract!Next
  <2>10. CASE ClientGivesUp \/ ClientGetsError
    BY <2>3, <2>10 DEF ClientGivesUp, ClientGetsError, serverVars
  <2>11. CASE UNCHANGED vars
    BY <2>1, <2>11 DEF vars, serverVars, clientVars
  <2> QED
    BY <2>4, <2>5, <2>6, <2>7, <2>8, <2>9, <2>10, <2>11 DEF Next
<1> QED
  BY <1>1, <1>2, Invariance, PTL DEF Spec, ImplementsFileTransfer, Abstract!Spec
=============================================================================
