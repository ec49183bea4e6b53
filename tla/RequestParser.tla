---------------------------- MODULE RequestParser ----------------------------
(***************************************************************************)
(* How a request is validated before anything in it is used                *)
(* (tftp_messages.cpp:7-34 and 131-175): a name and a mode, each ended by  *)
(* a zero byte. A message is what follows the opcode; the names of the     *)
(* modes are one byte long here, and "a" is any byte that is none of them. *)
(*                                                                         *)
(* strLenS looks at up to maxSz + 1 bytes, so that the byte behind the     *)
(* message takes part: what the buffer of the pool held before.            *)
(***************************************************************************)
EXTENDS Integers, Sequences

CONSTANT MaxMessage     \* the length of the messages tried

ASSUME MessageAssumption == MaxMessage \in Nat

NUL == "NUL"
Bytes == {NUL, "a", "octet", "netascii", "mail"}

\* ProcessRequestMessage refuses shorter ones.
Messages == UNION {[1 .. n -> Bytes] : n \in 2 .. MaxMessage}

VARIABLES
  message,    \* filenameAndMode, as far as it was received
  behind,     \* the byte behind it in the buffer
  verdict     \* what Validate returned

requestVars == <<message, behind, verdict>>

RequestWith(m, b) == message = m /\ behind = b /\ verdict = "none"

RequestInit == \E m \in Messages, b \in Bytes : RequestWith(m, b)

Memory == Append(message, behind)

Missing == -1

\* How many bytes there are before the zero byte, counted from str.
strLenS(str, maxSz) ==
  LET zeros == {i \in 0 .. maxSz : str + i \in DOMAIN Memory /\ Memory[str + i] = NUL}
  IN  IF zeros = {} THEN Missing ELSE CHOOSE i \in zeros : \A j \in zeros : i <= j

HasFilename == strLenS(1, Len(message)) # Missing

\* (Definitions named Bug_... are plausible mistakes in the definition that
\* follows them. They are in no specification.)
Bug_StaysOnZero == 1 + strLenS(1, Len(message))

\* Where the mode begins, by getModeStr and getModeStrS.
ModeStr == 1 + strLenS(1, Len(message)) + 1

HasMode ==
  LET filenameLen == strLenS(1, Len(message))
  IN  /\ filenameLen # Missing
      /\ filenameLen + 2 <= Len(message)
      /\ strLenS(ModeStr, Len(message) - (filenameLen + 1)) # Missing

\* getMode, of a mode that HasMode found to end: StrToEnum compares all of it,
\* upper and lower case being different: "a" also stands for "OCTET".
StrToEnum ==
  IF Memory[ModeStr] \in {"octet", "netascii", "mail"} /\ Memory[ModeStr + 1] = NUL
  THEN Memory[ModeStr] ELSE "UNDEFINED"

Validate ==
  /\ verdict = "none"
  /\ verdict' = IF HasFilename /\ HasMode /\ StrToEnum \notin {"mail", "UNDEFINED"}
                THEN "valid" ELSE "invalid"
  /\ UNCHANGED <<message, behind>>

RequestSpec == RequestInit /\ [][Validate]_requestVars

-----------------------------------------------------------------------------
\* A name and a mode the server supports, in lower case as the code has them
\* (RFC 1350 allows any case), each with its zero byte. What follows, as the
\* options of later RFCs do, is not looked at.
WellFormed(m) ==
  \E i, j \in 1 .. Len(m) :
    /\ m[i] = NUL /\ \A k \in 1 .. (i - 1) : m[k] # NUL
    /\ j = i + 2 /\ m[j] = NUL /\ m[i + 1] \in {"octet", "netascii"}

\* A well-formed request is accepted whatever lies behind it in memory, and
\* what is accepted is well-formed, but for one kind: if a single zero byte is
\* missing at the end of the mode, the byte behind the message decides.
AcceptsRequests ==
  /\ verdict = "invalid" => ~WellFormed(message)
  /\ verdict = "valid" => \/ WellFormed(message)
                          \/ behind = NUL /\ WellFormed(Append(message, NUL))
=============================================================================
