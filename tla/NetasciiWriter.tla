---------------------------- MODULE NetasciiWriter ----------------------------
(***************************************************************************)
(* How FileWriter turns the line ends of a file sent in mode netascii into *)
(* those of Windows (FileWriter.cpp:94-183), through the HaloBuffer of the *)
(* worker. Both CR LF and LF alone become CR LF, any other byte stays.     *)
(*                                                                         *)
(* The loop looks one byte ahead of the one it is at. That this byte has   *)
(* come is left to a lag: the first block is written by half only, later   *)
(* ones as many bytes as have come. Each time CR LF lies across the end of *)
(* a call, one byte of the lag is used up.                                 *)
(***************************************************************************)
EXTENDS Naturals, Sequences

CONSTANTS
  BlockSize,    \* bytes of a full block
  BufferSize,   \* HaloBuffer::Size, a multiple of BlockSize
  MaxFile       \* the length of the files tried

ASSUME TextAssumption ==
  /\ BlockSize \in Nat \ {0} /\ MaxFile \in Nat
  /\ BufferSize \in Nat /\ BufferSize >= 2 * BlockSize

Characters == {"CR", "LF", "x"}

\* A file ends with a block that is not full, and not empty.
FilesToSend ==
  {f \in UNION {[1 .. n -> Characters] : n \in 1 .. MaxFile} : Len(f) % BlockSize # 0}

VARIABLES
  sent,       \* the file as the client sends it
  buffer,     \* _buffer
  buffered,   \* _bytesBuffered
  written,    \* _bytesWritten, which counts the bytes taken from the buffer
  limit,      \* BufferOut's bufferSize; 0 when no call is under way
  processed,  \* its variable of that name
  out,        \* the bytes written to the file
  straddled,  \* how many CR LF lay across the end of a call
  lookedPast, \* whether a byte that had not come was taken for the next one
  finalized   \* whether Finalize is over

textVars ==
  <<sent, buffer, buffered, written, limit, processed, out, straddled, lookedPast, finalized>>

\* The buffer is the worker's, and holds bytes of an earlier transfer.
StartWith(file, stale) ==
  /\ sent = file
  /\ buffer = [i \in 0 .. (BufferSize - 1) |-> stale]
  /\ buffered = 0 /\ written = 0
  /\ limit = 0 /\ processed = 0
  /\ out = <<>>
  /\ straddled = 0 /\ lookedPast = FALSE /\ finalized = FALSE

TextInit == \E file \in FilesToSend, stale \in Characters : StartWith(file, stale)

\* data[i], of the HaloBuffer's memory, which is mapped twice, one after the
\* other: reading on past its end comes to its beginning.
At(i) == buffer[i % BufferSize]

InBufferOut == limit # 0

BlockLength == IF buffered + BlockSize <= Len(sent) THEN BlockSize
               ELSE Len(sent) - buffered

\* (Definitions named Bug_... are plausible mistakes in the definition that
\* follows them. They are in no specification.)
Bug_NoLag(n) == n

\* How much WriteBlock asks BufferOut to write.
Share(n) == IF written = 0 THEN n \div 2 ELSE n

\* WriteBlock of the next block: into the buffer, then BufferOut.
WriteBlock ==
  /\ ~InBufferOut /\ buffered < Len(sent)
  /\ LET n == BlockLength
     IN  /\ buffer' = [i \in DOMAIN buffer |->
                         IF \E k \in 0 .. (n - 1) : i = (buffered + k) % BufferSize
                         THEN sent[1 + buffered + (CHOOSE k \in 0 .. (n - 1) :
                                                     i = (buffered + k) % BufferSize)]
                         ELSE buffer[i]]
         /\ buffered' = buffered + n
         /\ limit' = Share(n)
  /\ processed' = 0
  /\ UNCHANGED <<sent, written, out, straddled, lookedPast, finalized>>

\* Finalize writes what is left.
Finalize ==
  /\ ~InBufferOut /\ buffered = Len(sent) /\ ~finalized
  /\ limit' = IF buffered > written THEN buffered - written ELSE 0
  /\ processed' = 0
  /\ finalized' = TRUE
  /\ UNCHANGED <<sent, buffer, buffered, written, out, straddled, lookedPast>>

-----------------------------------------------------------------------------
\* One turn of BufferOut's loop. Segments are written a byte at a time.
Turn == InBufferOut /\ processed < limit

LooksAhead == At(written) = "CR" /\ processed + 1 < buffered

SeesCrLf == LooksAhead /\ At(written + 1) = "LF"

TurnCrLf ==
  /\ Turn /\ SeesCrLf
  /\ out' = out \o <<"CR", "LF">>
  /\ written' = written + 2
  /\ processed' = processed + 2
  /\ straddled' = straddled + (IF processed + 2 > limit THEN 1 ELSE 0)
  /\ lookedPast' = (lookedPast \/ written + 1 >= buffered)
  /\ UNCHANGED <<sent, buffer, buffered, limit, finalized>>

\* Two bytes are written for one, and _bytesWritten is set right.
TurnLf ==
  /\ Turn /\ At(written) = "LF"
  /\ out' = out \o <<"CR", "LF">>
  /\ written' = written + 1
  /\ processed' = processed + 1
  /\ UNCHANGED <<sent, buffer, buffered, limit, straddled, lookedPast, finalized>>

\* Any other byte, a CR that stands alone among them.
TurnOther ==
  /\ Turn /\ ~SeesCrLf /\ At(written) # "LF"
  /\ out' = Append(out, At(written))
  /\ written' = written + 1
  /\ processed' = processed + 1
  /\ lookedPast' = (lookedPast \/ (LooksAhead /\ written + 1 >= buffered))
  /\ UNCHANGED <<sent, buffer, buffered, limit, straddled, finalized>>

EndBufferOut ==
  /\ InBufferOut /\ processed >= limit
  /\ limit' = 0
  /\ UNCHANGED <<sent, buffer, buffered, written, processed, out, straddled, lookedPast,
                 finalized>>

TextNext ==
  \/ WriteBlock \/ Finalize
  \/ TurnCrLf \/ TurnLf \/ TurnOther \/ EndBufferOut

TextSpec == TextInit /\ [][TextNext]_textVars

-----------------------------------------------------------------------------
\* What the first n bytes of a file are to become, independent of blocks: a
\* byte at a time, with a look at the one before.
ConvertedUpto(file) ==
  LET Upto[n \in 0 .. Len(file)] ==
        IF n = 0 THEN <<>>
        ELSE IF file[n] # "LF" THEN Append(Upto[n - 1], file[n])
        ELSE IF n > 1 /\ file[n - 1] = "CR" THEN Append(Upto[n - 1], "LF")
        ELSE Upto[n - 1] \o <<"CR", "LF">>
  IN  Upto

Converted(file) == ConvertedUpto(file)[Len(file)]

\* The file that is put in place is the conversion of the one that was sent,
\* however it was cut into blocks, unless a byte that had not come was looked
\* at. That needs a CR at the very end of the file, or as many CR LF across the
\* ends of calls as half a block has bytes.
ConversionIsRight ==
  /\ finalized /\ ~InBufferOut /\ ~lookedPast => out = Converted(sent)
  /\ lookedPast => \/ sent[Len(sent)] = "CR"
                   \/ straddled >= BlockSize \div 2
=============================================================================
