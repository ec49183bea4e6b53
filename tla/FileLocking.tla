----------------------------- MODULE FileLocking -----------------------------
(***************************************************************************)
(* The file locks of tftplib and the workers that take and release them:   *)
(* FileSecurityHandler's table of one RWInterlock per file, and the fields *)
(* _filePath, _currentOperation and _fileLocked by which a ServerWorker    *)
(* remembers what it locked.                                               *)
(*                                                                         *)
(* The dispatch thread processes one request at a time, and locks; the end *)
(* of a transfer unlocks, in the worker's thread, and so does a rejected   *)
(* request, in the dispatch thread. The table's mutex makes each call one  *)
(* step, a refused TryLock that takes back its change of the word          *)
(* included. That a request goes to an idle worker is TransactionDispatch. *)
(***************************************************************************)
EXTENDS LockWord, FiniteSets

CONSTANTS
  Workers,             \* Server::_workers
  Files,               \* paths below the server's root
  RejectsAnyTime       \* whether a request can fail the checks made before the
                       \* file is locked while another transaction goes on

ASSUME WorkersAssumption ==
  IsFiniteSet(Workers) /\ Cardinality(Workers) < WriteFlag
ASSUME RejectsAssumption == RejectsAnyTime \in BOOLEAN

Operations == {"RRQ", "WRQ"}

NoFile == "none"
NoOperation == "UNDEF"

VARIABLES
  locks,         \* _locks: the word of each file that has an entry
  stage,         \* where the worker's transaction is
  filePath,      \* _filePath
  operation,     \* _currentOperation
  fileLocked     \* _fileLocked

fields == <<filePath, operation, fileLocked>>
vars == <<locks, stage, filePath, operation, fileLocked>>

\* "RRQ", "WRQ": a valid request, its file not locked yet.
\* "transfer": granted the file. "ending": the transfer is over.
\* "rejected": the request is, and the transaction ends without a transfer.
Stages == Operations \cup {"idle", "transfer", "ending", "rejected"}

TypeOK ==
  /\ \E present \in SUBSET Files : locks \in [present -> Word]
  /\ stage \in [Workers -> Stages]
  /\ filePath \in [Workers -> Files \cup {NoFile}]
  /\ operation \in [Workers -> Operations \cup {NoOperation}]
  /\ fileLocked \in [Workers -> BOOLEAN]

Init ==
  /\ locks = [f \in {} |-> 0]
  /\ stage = [w \in Workers |-> "idle"]
  /\ filePath = [w \in Workers |-> NoFile]
  /\ operation = [w \in Workers |-> NoOperation]
  /\ fileLocked = [w \in Workers |-> FALSE]

Goto(w, s) == stage' = [stage EXCEPT ![w] = s]

-----------------------------------------------------------------------------
(***************************************************************************)
(* The table.                                                              *)
(***************************************************************************)
Present == DOMAIN locks

\* _locks[file]: a file without an entry gets a free lock.
Entry(f) == IF f \in Present THEN locks[f] ELSE 0

WithWord(f, word) ==
  [g \in Present \cup {f} |-> IF g = f THEN word ELSE locks[g]]

Without(f) == [g \in Present \ {f} |-> locks[g]]

\* (Definitions named Bug_... are plausible mistakes in the definition that
\* follows them. They are in no specification.)
Bug_LeavesEntry(f, op) ==
  WithWord(f, IF op = "RRQ" THEN Decr(locks[f]) ELSE ClearFlag(locks[f]))

\* UnlockRead or UnlockWrite of the entry, which goes when it is free.
Unlocked(f, op) ==
  LET word == IF op = "RRQ" THEN Decr(locks[f]) ELSE ClearFlag(locks[f])
  IN  IF word = 0 THEN Without(f) ELSE WithWord(f, word)

Bug_WriteIgnoresReaders(f, op) == ~HasFlag(Entry(f))

\* Whether TryLockRead or TryLockWrite succeeds.
Grants(f, op) == IF op = "RRQ" THEN ~HasFlag(Entry(f)) ELSE Entry(f) = 0

LockedWord(f, op) ==
  IF op = "RRQ" THEN Incr(Entry(f)) ELSE SetFlag(Entry(f))

-----------------------------------------------------------------------------
(***************************************************************************)
(* ProcessRequestMessage, in the dispatch thread.                          *)
(***************************************************************************)
InDispatch == {w \in Workers : stage[w] \in Operations \cup {"rejected"}}

\* A malformed request is rejected before _filePath is stored, one for a file
\* that may not be read or written, or in mode mail, after it. None of them
\* touches _currentOperation and _fileLocked.
RejectRequest(w) ==
  /\ stage[w] = "idle" /\ InDispatch = {}
  /\ RejectsAnyTime \/ \A v \in Workers : stage[v] = "idle"
  /\ \E f \in Files : filePath' \in {filePath, [filePath EXCEPT ![w] = f]}
  /\ Goto(w, "rejected")
  /\ UNCHANGED <<locks, operation, fileLocked>>

ValidRequest(w) ==
  /\ stage[w] = "idle" /\ InDispatch = {}
  /\ \E f \in Files, op \in Operations :
       /\ filePath' = [filePath EXCEPT ![w] = f]
       /\ Goto(w, op)
  /\ UNCHANGED <<locks, operation, fileLocked>>

\* _locks[file] and TryLock; then _fileLocked says whether it was granted.
LockFile(w) ==
  LET f == filePath[w]  op == stage[w]
  IN  /\ op \in Operations
      /\ operation' = [operation EXCEPT ![w] = op]
      /\ fileLocked' = [fileLocked EXCEPT ![w] = Grants(f, op)]
      /\ locks' = WithWord(f, IF Grants(f, op) THEN LockedWord(f, op) ELSE Entry(f))
      /\ Goto(w, IF Grants(f, op) THEN "transfer" ELSE "rejected")
      /\ UNCHANGED filePath

-----------------------------------------------------------------------------
(***************************************************************************)
(* TerminateTransaction: by the worker at the end of its transfer, by the  *)
(* dispatch thread when a request is rejected. The fields are left as they *)
(* are for the next transaction.                                           *)
(***************************************************************************)
EndTransfer(w) ==
  /\ stage[w] = "transfer"
  /\ Goto(w, "ending")
  /\ UNCHANGED <<locks, fields>>

Terminating(w) == stage[w] \in {"ending", "rejected"}

BelievesLocked(w) == fileLocked[w] /\ operation[w] # NoOperation

UnlockFile(w) ==
  /\ Terminating(w) /\ BelievesLocked(w) /\ filePath[w] \in Present
  /\ locks' = Unlocked(filePath[w], operation[w])
  /\ Goto(w, "idle")
  /\ UNCHANGED fields

\* "wtf": the file has no entry in the table, and nothing is done.
UnlockMissing(w) ==
  /\ Terminating(w) /\ BelievesLocked(w) /\ filePath[w] \notin Present
  /\ Goto(w, "idle")
  /\ UNCHANGED <<locks, fields>>

NothingToUnlock(w) ==
  /\ Terminating(w) /\ ~BelievesLocked(w)
  /\ Goto(w, "idle")
  /\ UNCHANGED <<locks, fields>>

-----------------------------------------------------------------------------
Next ==
  \E w \in Workers :
    \/ RejectRequest(w) \/ ValidRequest(w) \/ LockFile(w)
    \/ EndTransfer(w)
    \/ UnlockFile(w) \/ UnlockMissing(w) \/ NothingToUnlock(w)

Spec == Init /\ [][Next]_vars

-----------------------------------------------------------------------------
\* The workers that were granted the file and have not released it.
Holders(f, op) ==
  {w \in Workers : /\ filePath[w] = f /\ operation[w] = op
                   /\ stage[w] \in {"transfer", "ending"}}

\* The word of a file is exactly what the transactions that hold the file put
\* into it, and the table has no entry for a file nobody holds: no file stays
\* locked after its last transaction, and the table does not grow.
TableMatchesHolders ==
  \A f \in Files :
    /\ Entry(f) = Cardinality(Holders(f, "RRQ"))
                  + WriteFlag * Cardinality(Holders(f, "WRQ"))
    /\ f \in Present => Entry(f) # 0

Transferring(f, op) ==
  {w \in Workers : filePath[w] = f /\ operation[w] = op /\ stage[w] = "transfer"}

\* Whoever unlocks finds the lock in the table: the code comments the other
\* case "wtf" (FileSecurityHandler.cpp:142, 159). It takes a transaction that
\* was granted a file, and a later one of the same worker that is rejected
\* before it locks and unlocks by the fields of the first.
UnlockFindsEntry ==
  \A w \in Workers :
    Terminating(w) /\ BelievesLocked(w) => filePath[w] \in Present

\* A file being written is transferred by nobody else.
WriterIsAlone ==
  \A f \in Files : \A w \in Transferring(f, "WRQ") :
    Transferring(f, "WRQ") \cup Transferring(f, "RRQ") = {w}

\* Each file has a readers/writer lock of its own.
FileLock(f) == INSTANCE RWLock WITH
  Clients <- Workers, readers <- Holders(f, "RRQ"), writers <- Holders(f, "WRQ")

EachLockSteps ==
  \A f \in Files : FileLock(f)!Next \/ UNCHANGED FileLock(f)!vars

\* What the requests and the ends of transfers do to the table is, file by
\* file, what the abstract readers/writer lock RWLock allows: the conjunction
\* of FileLock(f)!Spec over the files.
ImplementsRWLocks ==
  /\ \A f \in Files : FileLock(f)!Init
  /\ [][EachLockSteps]_vars
=============================================================================
