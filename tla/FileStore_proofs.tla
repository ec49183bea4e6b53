--------------------------- MODULE FileStore_proofs ---------------------------
(***************************************************************************)
(* FileLocking and FileStore for every number of workers below the range   *)
(* of the lock word, every set of files and every behaviour in which a     *)
(* request is rejected before it locks only while all other workers are    *)
(* idle (~RejectsAnyTime): the table accounts for the holders, each file   *)
(* has a readers/writer lock, and what the locks and the one temporary     *)
(* file keep whole on disk.                                                *)
(*                                                                         *)
(* That the table accounts for the holders is not inductive: a release is  *)
(* right only if the three fields a worker releases by are those it locked *)
(* by, and a rejected request, which may carry the fields of the worker's  *)
(* transaction before, is harmless only because nobody holds a file then.  *)
(***************************************************************************)
EXTENDS FileStore, FiniteSetTheorems, TLAPS

-----------------------------------------------------------------------------
(***************************************************************************)
(* The locks.                                                              *)
(***************************************************************************)
Readers(f) == Holders(f, "RRQ")
Writers(f) == Holders(f, "WRQ")

Unheld(f) == f \notin Present /\ Readers(f) = {} /\ Writers(f) = {}

HeldForRead(f) ==
  /\ f \in Present /\ locks[f] = Cardinality(Readers(f))
  /\ Readers(f) # {} /\ Writers(f) = {}

HeldForWrite(f) ==
  /\ f \in Present /\ locks[f] = WriteFlag
  /\ Readers(f) = {} /\ \E w \in Workers : Writers(f) = {w}

FileState(f) == Unheld(f) \/ HeldForRead(f) \/ HeldForWrite(f)

Typed ==
  /\ Present \subseteq Files /\ locks \in [Present -> Word]
  /\ stage \in [Workers -> Stages]
  /\ filePath \in [Workers -> Files \cup {NoFile}]
  /\ operation \in [Workers -> Operations \cup {NoOperation}]
  /\ fileLocked \in [Workers -> BOOLEAN]

\* What a worker remembers is what it asked for, and what it was granted.
Remembers ==
  \A w \in Workers :
    /\ stage[w] \in Operations => filePath[w] \in Files
    /\ stage[w] \in {"transfer", "ending"} =>
         fileLocked[w] /\ operation[w] \in Operations /\ filePath[w] \in Files

\* The dispatch thread is at one request at a time.
OneRequest == \A v, w \in InDispatch : v = w

\* A rejected request with fields of an earlier transaction is alone.
StaleIsAlone ==
  \A w \in Workers : stage[w] = "rejected" /\ fileLocked[w] =>
    \A v \in Workers \ {w} : stage[v] = "idle"

LockInv ==
  /\ Typed /\ Remembers /\ OneRequest /\ StaleIsAlone
  /\ \A f \in Files : FileState(f)

LEMMA TypedImpliesTypeOK == Typed => TypeOK
BY DEF Typed, TypeOK

\* How many readers there can be, and what it means that there is none.
LEMMA ReadersAreFew ==
  ASSUME NEW f
  PROVE  /\ IsFiniteSet(Readers(f))
         /\ Cardinality(Readers(f)) \in Nat
         /\ Cardinality(Readers(f)) < WriteFlag
         /\ Cardinality(Readers(f)) = 0 <=> Readers(f) = {}
<1>1. Readers(f) \in SUBSET Workers
  BY DEF Readers, Holders
<1>2. /\ IsFiniteSet(Readers(f))
      /\ Cardinality(Readers(f)) <= Cardinality(Workers)
  BY <1>1, FS_Subset, WorkersAssumption
<1>3. Cardinality(Readers(f)) \in Nat /\ Cardinality(Workers) \in Nat
  BY <1>2, FS_CardinalityType, WorkersAssumption
<1>4. Cardinality(Readers(f)) = 0 <=> Readers(f) = {}
  BY <1>2, FS_EmptySet
<1> QED
  BY <1>2, <1>3, <1>4, WorkersAssumption, WriteFlagAssumption

\* A step that changes the table for one file at most leaves the others alone.
LEMMA Elsewhere ==
  ASSUME Typed, NEW f, NEW word, NEW g \in Files,
         locks' = WithWord(f, word) \/ locks' = Without(f), g # f,
         Readers(g)' = Readers(g), Writers(g)' = Writers(g),
         FileState(g)
  PROVE  FileState(g)'
<1>1. (g \in Present)' <=> g \in Present
  BY DEF Present, WithWord, Without
<1>2. g \in Present => locks'[g] = locks[g]
  BY DEF Present, WithWord, Without
<1> QED
  BY <1>1, <1>2 DEF FileState, Unheld, HeldForRead, HeldForWrite

\* A step that changes neither the table nor who holds what.
LEMMA Nowhere ==
  ASSUME NEW g \in Files, locks' = locks,
         Readers(g)' = Readers(g), Writers(g)' = Writers(g),
         FileState(g)
  PROVE  FileState(g)'
BY DEF FileState, Unheld, HeldForRead, HeldForWrite, Present

\* What the table says of a file in the two cases a request asks about.
LEMMA GrantMeaning ==
  ASSUME LockInv, NEW f \in Files
  PROVE  /\ Grants(f, "RRQ") <=> Writers(f) = {}
         /\ Grants(f, "WRQ") <=> Unheld(f)
         /\ Writers(f) = {} => Entry(f) = Cardinality(Readers(f))
         /\ Entry(f) # 0 => f \in Present
<1>1. FileState(f)
  BY DEF LockInv
<1>2. /\ Cardinality(Readers(f)) \in Nat /\ Cardinality(Readers(f)) < WriteFlag
      /\ Cardinality(Readers(f)) = 0 <=> Readers(f) = {}
  BY ReadersAreFew
<1>3. WriteFlag \in Nat \ {0}
  BY WriteFlagAssumption
<1>4. CASE Unheld(f)
  BY <1>2, <1>3, <1>4 DEF Unheld, Grants, Entry, HasFlag
<1>5. CASE HeldForRead(f)
  BY <1>2, <1>3, <1>5 DEF Unheld, HeldForRead, Grants, Entry, HasFlag
<1>6. CASE HeldForWrite(f)
  BY <1>2, <1>3, <1>6 DEF Unheld, HeldForWrite, Grants, Entry, HasFlag
<1> QED
  BY <1>1, <1>4, <1>5, <1>6 DEF FileState

LEMMA InitLockInv == Init => LockInv
<1> SUFFICES ASSUME Init PROVE LockInv
  OBVIOUS
<1>1. Present = {} /\ \A f, op : Holders(f, op) = {}
  BY DEF Init, Present, Holders
<1>2. Typed
  BY <1>1 DEF Init, Typed, Stages, Present
<1>3. Remembers /\ OneRequest /\ StaleIsAlone
  BY DEF Init, Remembers, OneRequest, StaleIsAlone, InDispatch, Operations
<1> QED
  BY <1>1, <1>2, <1>3 DEF LockInv, FileState, Unheld, Readers, Writers

-----------------------------------------------------------------------------
\* A request arrives: nobody holds more or less than before.
LEMMA RequestLockInv ==
  ASSUME LockInv, ~RejectsAnyTime, NEW w \in Workers,
         RejectRequest(w) \/ ValidRequest(w)
  PROVE  LockInv'
<1> USE DEF LockInv
<1>0. /\ stage[w] = "idle" /\ InDispatch = {} /\ locks' = locks
      /\ UNCHANGED <<operation, fileLocked>>
      /\ \E s \in {"rejected", "RRQ", "WRQ"} : stage' = [stage EXCEPT ![w] = s]
      /\ \E f \in Files : filePath' \in {filePath, [filePath EXCEPT ![w] = f]}
      /\ stage'[w] \in Operations => filePath'[w] \in Files
      /\ stage'[w] = "rejected" => \A v \in Workers : stage[v] = "idle"
  BY DEF RejectRequest, ValidRequest, Goto, Operations, Typed
<1>1. Typed'
  BY <1>0 DEF Typed, Stages, Operations, Present
<1>2. /\ \A v \in Workers \ {w} : stage'[v] = stage[v] /\ filePath'[v] = filePath[v]
      /\ stage'[w] \in {"rejected", "RRQ", "WRQ"}
  BY <1>0 DEF Typed
<1>3. Remembers'
  BY <1>0, <1>2 DEF Remembers
<1>4. OneRequest'
  BY <1>0, <1>2 DEF OneRequest, InDispatch
<1>5. StaleIsAlone'
  BY <1>0, <1>2 DEF StaleIsAlone, InDispatch
<1>6. ASSUME NEW f \in Files PROVE FileState(f)'
  <2>1. Readers(f)' = Readers(f) /\ Writers(f)' = Writers(f)
    BY <1>0, <1>2 DEF Readers, Writers, Holders
  <2> QED
    BY <1>0, <2>1, Nowhere
<1> QED
  BY <1>1, <1>3, <1>4, <1>5, <1>6

\* The request locks its file, or is refused.
LEMMA LockLockInv ==
  ASSUME LockInv, NEW w \in Workers, LockFile(w),
         NEW f \in Files, NEW op \in Operations, filePath[w] = f, stage[w] = op
  PROVE  LockInv'
<1> USE DEF LockInv
<1> DEFINE granted == Grants(f, op)
<1>0. /\ filePath' = filePath
      /\ operation' = [operation EXCEPT ![w] = op]
      /\ fileLocked' = [fileLocked EXCEPT ![w] = granted]
      /\ locks' = WithWord(f, IF granted THEN LockedWord(f, op) ELSE Entry(f))
      /\ stage' = [stage EXCEPT ![w] = IF granted THEN "transfer" ELSE "rejected"]
  BY DEF LockFile, Goto
<1>g. granted \in BOOLEAN
  BY DEF Grants, HasFlag
<1>1. /\ Grants(f, "RRQ") <=> Writers(f) = {}
      /\ Grants(f, "WRQ") <=> Unheld(f)
      /\ Writers(f) = {} => Entry(f) = Cardinality(Readers(f))
      /\ Entry(f) # 0 => f \in Present
  BY <1>0, GrantMeaning
<1>2. /\ Cardinality(Readers(f)) \in Nat /\ Cardinality(Readers(f)) < WriteFlag
      /\ IsFiniteSet(Readers(f)) /\ WriteFlag \in Nat \ {0}
  BY ReadersAreFew, WriteFlagAssumption
<1>3. /\ \A v \in Workers \ {w} : /\ stage'[v] = stage[v]
                                  /\ operation'[v] = operation[v]
                                  /\ fileLocked'[v] = fileLocked[v]
      /\ operation'[w] = op /\ fileLocked'[w] = granted
      /\ stage'[w] = IF granted THEN "transfer" ELSE "rejected"
  BY <1>0 DEF Typed
<1>4. Entry(f) \in Word
  BY <1>2 DEF Entry, Typed, Word
<1>5. Typed'
  <2>1. LockedWord(f, op) \in Word
    BY <1>2, <1>4 DEF LockedWord, Incr, SetFlag, HasFlag, Word
  <2>2. Present' \subseteq Files /\ locks' \in [Present' -> Word]
    BY <1>0, <1>4, <2>1 DEF WithWord, Present, Typed
  <2> HIDE DEF granted
  <2> QED
    BY <1>0, <1>g, <2>2 DEF Typed, Stages, Operations
<1>6. Remembers' /\ OneRequest' /\ StaleIsAlone'
  <2> HIDE DEF granted
  <2> QED
    BY <1>0, <1>3 DEF Remembers, OneRequest, StaleIsAlone, InDispatch, Operations
<1>7. ASSUME NEW g \in Files, g # f PROVE FileState(g)'
  <2>1. Readers(g)' = Readers(g) /\ Writers(g)' = Writers(g)
    BY <1>0, <1>3, <1>7 DEF Readers, Writers, Holders
  <2> HIDE DEF granted
  <2> QED
    BY <1>0, <1>7, <2>1, Elsewhere
<1>8. FileState(f)'
  <2>1. w \notin Readers(f) /\ w \notin Writers(f)
    BY <1>0 DEF Readers, Writers, Holders, Operations
  <2>2. CASE granted /\ op = "RRQ"
    <3>1. Readers(f)' = Readers(f) \cup {w} /\ Writers(f)' = {}
      BY <1>0, <1>1, <1>3, <2>2 DEF Readers, Writers, Holders
    <3>2. Cardinality(Readers(f)') = Cardinality(Readers(f)) + 1
      BY <1>2, <2>1, <3>1, FS_AddElement
    <3>3. (f \in Present)' /\ locks'[f] = Incr(Entry(f))
      BY <1>0, <2>2 DEF Present, WithWord, LockedWord
    <3>4. Incr(Entry(f)) = Cardinality(Readers(f)) + 1
      BY <1>1, <1>2, <2>2 DEF Incr
    <3> QED
      BY <3>1, <3>2, <3>3, <3>4 DEF FileState, HeldForRead
  <2>3. CASE granted /\ op = "WRQ"
    <3>1. Readers(f)' = {} /\ Writers(f)' = {w}
      BY <1>0, <1>1, <1>3, <2>3 DEF Readers, Writers, Holders, Unheld
    <3>2. (f \in Present)' /\ locks'[f] = WriteFlag
      BY <1>0, <1>1, <1>2, <2>3
      DEF Present, WithWord, LockedWord, SetFlag, HasFlag, Entry, Unheld
    <3> QED
      BY <3>1, <3>2 DEF FileState, HeldForWrite
  <2>4. CASE ~granted
    <3>1. Readers(f)' = Readers(f) /\ Writers(f)' = Writers(f)
      BY <1>0, <1>3, <2>1, <2>4 DEF Readers, Writers, Holders
    <3>2. f \in Present
      BY <1>0, <1>1, <2>4 DEF Operations, FileState, HeldForRead, HeldForWrite, Unheld
    <3>3. locks' = locks
      BY <1>0, <2>4, <3>2 DEF WithWord, Entry, Present, Typed
    <3> QED
      BY <1>0, <3>1, <3>3, Nowhere
  <2> QED
    BY <1>0, <2>2, <2>3, <2>4 DEF Operations
<1> QED
  BY <1>5, <1>6, <1>7, <1>8

\* A transfer ends; its file stays held.
LEMMA EndLockInv ==
  ASSUME LockInv, NEW w \in Workers, EndTransfer(w)
  PROVE  LockInv'
<1> USE DEF LockInv
<1>0. /\ stage[w] = "transfer" /\ stage' = [stage EXCEPT ![w] = "ending"]
      /\ UNCHANGED <<locks, filePath, operation, fileLocked>>
  BY DEF EndTransfer, Goto, fields
<1>1. stage'[w] = "ending" /\ \A v \in Workers \ {w} : stage'[v] = stage[v]
  BY <1>0 DEF Typed
<1>2. Typed'
  BY <1>0 DEF Typed, Stages, Present
<1>3. Remembers' /\ OneRequest' /\ StaleIsAlone'
  BY <1>0, <1>1 DEF Remembers, OneRequest, StaleIsAlone, InDispatch, Operations
<1>4. ASSUME NEW g \in Files PROVE FileState(g)'
  <2>1. Readers(g)' = Readers(g) /\ Writers(g)' = Writers(g)
    BY <1>0, <1>1 DEF Readers, Writers, Holders
  <2> QED
    BY <1>0, <2>1, Nowhere
<1> QED
  BY <1>2, <1>3, <1>4

\* Who releases a lock holds it, and the file has an entry. A rejected request
\* never does: with the fields of an earlier transaction it finds no entry.
LEMMA ReleaseMeaning ==
  ASSUME LockInv, NEW w \in Workers, Terminating(w)
  PROVE  /\ stage[w] = "ending" =>
              /\ BelievesLocked(w) /\ filePath[w] \in Present
              /\ w \in Holders(filePath[w], operation[w])
         /\ stage[w] = "rejected" /\ BelievesLocked(w) => Present = {}
<1> USE DEF LockInv
<1>1. ASSUME stage[w] = "ending"
      PROVE  /\ BelievesLocked(w) /\ filePath[w] \in Present
             /\ w \in Holders(filePath[w], operation[w])
  <2>1. fileLocked[w] /\ operation[w] \in Operations /\ filePath[w] \in Files
    BY <1>1 DEF Remembers
  <2>2. w \in Holders(filePath[w], operation[w])
    BY <1>1 DEF Holders
  <2>3. w \in Readers(filePath[w]) \/ w \in Writers(filePath[w])
    BY <2>1, <2>2 DEF Operations, Readers, Writers
  <2>4. FileState(filePath[w])
    BY <2>1
  <2>5. filePath[w] \in Present
    BY <2>3, <2>4 DEF FileState, Unheld, HeldForRead, HeldForWrite
  <2>6. operation[w] # NoOperation
    BY <2>1 DEF Operations, NoOperation
  <2> QED
    BY <2>1, <2>2, <2>5, <2>6 DEF BelievesLocked
<1>2. ASSUME stage[w] = "rejected", BelievesLocked(w) PROVE Present = {}
  <2>1. \A v \in Workers : stage[v] \notin {"transfer", "ending"}
    BY <1>2 DEF StaleIsAlone, BelievesLocked
  <2>2. \A g \in Files : Readers(g) = {} /\ Writers(g) = {}
    BY <2>1 DEF Readers, Writers, Holders
  <2>3. \A g \in Files : g \notin Present
    BY <2>2 DEF FileState, Unheld, HeldForRead, HeldForWrite
  <2> QED
    BY <2>3 DEF Typed
<1> QED
  BY <1>1, <1>2

\* The end of a transaction that releases nothing.
LEMMA NoReleaseLockInv ==
  ASSUME LockInv, NEW w \in Workers, UnlockMissing(w) \/ NothingToUnlock(w)
  PROVE  LockInv'
<1> USE DEF LockInv
<1>0. /\ Terminating(w) /\ stage' = [stage EXCEPT ![w] = "idle"]
      /\ UNCHANGED <<locks, filePath, operation, fileLocked>>
      /\ ~BelievesLocked(w) \/ filePath[w] \notin Present
  BY DEF UnlockMissing, NothingToUnlock, Goto, fields
<1>1. stage[w] = "rejected"
  BY <1>0, ReleaseMeaning DEF Terminating
<1>2. stage'[w] = "idle" /\ \A v \in Workers \ {w} : stage'[v] = stage[v]
  BY <1>0 DEF Typed
<1>3. Typed'
  BY <1>0 DEF Typed, Stages, Present
<1>4. Remembers' /\ OneRequest' /\ StaleIsAlone'
  BY <1>0, <1>2 DEF Remembers, OneRequest, StaleIsAlone, InDispatch, Operations
<1>5. ASSUME NEW g \in Files PROVE FileState(g)'
  <2>1. Readers(g)' = Readers(g) /\ Writers(g)' = Writers(g)
    BY <1>0, <1>1, <1>2 DEF Readers, Writers, Holders
  <2> QED
    BY <1>0, <2>1, Nowhere
<1> QED
  BY <1>3, <1>4, <1>5

\* What the release does to the holders of the file, and to its word.
LEMMA ReleaseSteps ==
  ASSUME LockInv, NEW w \in Workers, UnlockFile(w),
         NEW f \in Files, NEW op \in Operations, filePath[w] = f, operation[w] = op
  PROVE  /\ stage[w] = "ending" /\ stage' = [stage EXCEPT ![w] = "idle"]
         /\ w \in Holders(f, op) /\ Holders(f, op)' = Holders(f, op) \ {w}
         /\ \A g \in Files, o \in Operations :
              g # f \/ o # op => Holders(g, o)' = Holders(g, o)
         /\ locks' = Unlocked(f, op)
         /\ UNCHANGED <<filePath, operation, fileLocked>>
<1> USE DEF LockInv
<1>1. /\ Terminating(w) /\ BelievesLocked(w) /\ f \in Present
      /\ stage' = [stage EXCEPT ![w] = "idle"]
      /\ locks' = Unlocked(f, op) /\ UNCHANGED <<filePath, operation, fileLocked>>
  BY DEF UnlockFile, Goto, fields
<1>2. stage[w] = "ending"
  BY <1>1, ReleaseMeaning DEF Terminating
<1>3. w \in Holders(f, op)
  BY <1>2 DEF Holders
<1>4. stage'[w] = "idle" /\ \A v \in Workers \ {w} : stage'[v] = stage[v]
  BY <1>1 DEF Typed
<1>5. Holders(f, op)' = Holders(f, op) \ {w}
  BY <1>1, <1>4 DEF Holders
<1>6. ASSUME NEW g \in Files, NEW o \in Operations, g # f \/ o # op
      PROVE  Holders(g, o)' = Holders(g, o)
  BY <1>1, <1>4, <1>6 DEF Holders
<1> QED
  BY <1>1, <1>2, <1>3, <1>5, <1>6

LEMMA ReleaseLockInv ==
  ASSUME LockInv, NEW w \in Workers, UnlockFile(w),
         NEW f \in Files, NEW op \in Operations, filePath[w] = f, operation[w] = op
  PROVE  LockInv'
<1>0. /\ stage[w] = "ending" /\ stage' = [stage EXCEPT ![w] = "idle"]
      /\ w \in Holders(f, op) /\ Holders(f, op)' = Holders(f, op) \ {w}
      /\ \A g \in Files, o \in Operations :
           g # f \/ o # op => Holders(g, o)' = Holders(g, o)
      /\ locks' = Unlocked(f, op)
      /\ UNCHANGED <<filePath, operation, fileLocked>>
  BY ReleaseSteps
<1> USE DEF LockInv
<1>1. /\ Cardinality(Readers(f)) \in Nat /\ Cardinality(Readers(f)) < WriteFlag
      /\ IsFiniteSet(Readers(f)) /\ WriteFlag \in Nat \ {0}
  BY ReadersAreFew, WriteFlagAssumption
<1>2. stage'[w] = "idle" /\ \A v \in Workers \ {w} : stage'[v] = stage[v]
  BY <1>0 DEF Typed
<1>3. Remembers' /\ OneRequest' /\ StaleIsAlone'
  BY <1>0, <1>2 DEF Remembers, OneRequest, StaleIsAlone, InDispatch, Operations
<1>4. f \in Present /\ (HeldForRead(f) \/ HeldForWrite(f)) /\ locks[f] \in Word
  <2>1. w \in Readers(f) \/ w \in Writers(f)
    BY <1>0 DEF Readers, Writers, Operations
  <2> QED
    BY <2>1 DEF FileState, Unheld, HeldForRead, HeldForWrite, Typed
<1> DEFINE word == IF op = "RRQ" THEN Decr(locks[f]) ELSE ClearFlag(locks[f])
<1>5. locks' = IF word = 0 THEN Without(f) ELSE WithWord(f, word)
  BY <1>0 DEF Unlocked
<1>6. Typed'
  <2>1. word \in Word
    BY <1>1, <1>4 DEF Decr, ClearFlag, HasFlag, Word
  <2> HIDE DEF word
  <2>2. Present' \subseteq Files /\ locks' \in [Present' -> Word]
    BY <1>4, <1>5, <2>1 DEF WithWord, Without, Present, Typed
  <2> QED
    BY <1>0, <2>2 DEF Typed, Stages
<1>7. ASSUME NEW g \in Files, g # f PROVE FileState(g)'
  <2>1. Readers(g)' = Readers(g) /\ Writers(g)' = Writers(g)
    BY <1>0, <1>7 DEF Readers, Writers, Operations
  <2> HIDE DEF word
  <2> QED
    BY <1>5, <1>7, <2>1, Elsewhere
<1>8. FileState(f)'
  <2>1. CASE op = "RRQ"
    <3>1. w \in Readers(f) /\ Readers(f)' = Readers(f) \ {w} /\ Writers(f)' = Writers(f)
      BY <1>0, <2>1 DEF Readers, Writers, Operations
    <3>2. HeldForRead(f)
      BY <1>4, <3>1 DEF HeldForWrite
    <3>3. Cardinality(Readers(f)') = Cardinality(Readers(f)) - 1
      BY <1>1, <3>1, FS_RemoveElement
    <3>4. Cardinality(Readers(f)) # 0
      BY <3>1, ReadersAreFew
    <3>5. word = Cardinality(Readers(f)')
      BY <1>1, <2>1, <3>2, <3>3, <3>4 DEF Decr, HeldForRead
    <3>6. Cardinality(Readers(f)') = 0 <=> Readers(f)' = {}
      <4>1. IsFiniteSet(Readers(f)')
        BY <1>1, <3>1, FS_RemoveElement
      <4> QED
        BY <4>1, FS_EmptySet
    <3> HIDE DEF word
    <3>7. CASE word = 0
      BY <1>5, <3>1, <3>2, <3>5, <3>6, <3>7
      DEF FileState, Unheld, HeldForRead, Without, Present
    <3>8. CASE word # 0
      BY <1>5, <3>1, <3>2, <3>5, <3>6, <3>8
      DEF FileState, HeldForRead, WithWord, Present
    <3> QED
      BY <3>7, <3>8
  <2>2. CASE op = "WRQ"
    <3>1. w \in Writers(f) /\ Writers(f)' = Writers(f) \ {w} /\ Readers(f)' = Readers(f)
      BY <1>0, <2>2 DEF Readers, Writers, Operations
    <3>2. HeldForWrite(f)
      BY <1>4, <3>1 DEF HeldForRead
    <3>3. word = 0
      BY <1>1, <2>2, <3>2 DEF ClearFlag, HasFlag, HeldForWrite
    <3>4. Readers(f)' = {} /\ Writers(f)' = {}
      BY <3>1, <3>2 DEF HeldForWrite
    <3> QED
      BY <1>5, <3>3, <3>4 DEF FileState, Unheld, Without, Present
  <2> QED
    BY <2>1, <2>2 DEF Operations
<1> QED
  BY <1>3, <1>6, <1>7, <1>8

LEMMA NextLockInv == LockInv /\ ~RejectsAnyTime /\ [Next]_vars => LockInv'
<1> SUFFICES ASSUME LockInv, ~RejectsAnyTime, [Next]_vars PROVE LockInv'
  OBVIOUS
<1>1. ASSUME NEW w \in Workers, RejectRequest(w) \/ ValidRequest(w) PROVE LockInv'
  BY <1>1, RequestLockInv
<1>2. ASSUME NEW w \in Workers, LockFile(w) PROVE LockInv'
  <2>1. stage[w] \in Operations /\ filePath[w] \in Files
    BY <1>2 DEF LockFile, LockInv, Remembers
  <2> QED
    BY <1>2, <2>1, LockLockInv
<1>3. ASSUME NEW w \in Workers, EndTransfer(w) PROVE LockInv'
  BY <1>3, EndLockInv
<1>4. ASSUME NEW w \in Workers, UnlockFile(w) PROVE LockInv'
  <2>1. operation[w] \in Operations /\ filePath[w] \in Files
    BY <1>4 DEF UnlockFile, BelievesLocked, LockInv, Typed, NoOperation
  <2> QED
    BY <1>4, <2>1, ReleaseLockInv
<1>5. ASSUME NEW w \in Workers, UnlockMissing(w) \/ NothingToUnlock(w) PROVE LockInv'
  BY <1>5, NoReleaseLockInv
<1>6. CASE UNCHANGED vars
  <2>1. \A g \in Files : Readers(g)' = Readers(g) /\ Writers(g)' = Writers(g)
    BY <1>6 DEF vars, Readers, Writers, Holders
  <2>2. \A g \in Files : FileState(g)'
    BY <1>6, <2>1, Nowhere DEF vars, LockInv
  <2> QED
    BY <1>6, <2>2
    DEF vars, LockInv, Typed, Present, Remembers, OneRequest, StaleIsAlone, InDispatch
<1> QED
  BY <1>1, <1>2, <1>3, <1>4, <1>5, <1>6 DEF Next

-----------------------------------------------------------------------------
\* The inductive invariant of the locks holds in every behaviour of FileLocking
\* in which no request is rejected beside another transaction.
THEOREM LockInvariance == ~RejectsAnyTime /\ Spec => []LockInv
<1> SUFFICES ASSUME ~RejectsAnyTime PROVE Spec => []LockInv
  OBVIOUS
<1>1. LockInv /\ [Next]_vars => LockInv'
  BY NextLockInv
<1> QED
  BY InitLockInv, <1>1, PTL DEF Spec

LEMMA TableFromInv == LockInv => TableMatchesHolders
<1> SUFFICES ASSUME LockInv, NEW f \in Files
             PROVE  /\ Entry(f) = Cardinality(Readers(f))
                                  + WriteFlag * Cardinality(Writers(f))
                    /\ f \in Present => Entry(f) # 0
  BY DEF TableMatchesHolders, Readers, Writers
<1>1. /\ Cardinality(Readers(f)) \in Nat /\ WriteFlag \in Nat \ {0}
      /\ Cardinality(Readers(f)) = 0 <=> Readers(f) = {}
      /\ Cardinality({}) = 0 /\ \A w : Cardinality({w}) = 1
  BY ReadersAreFew, WriteFlagAssumption, FS_EmptySet, FS_Singleton
<1>2. FileState(f)
  BY DEF LockInv
<1>3. CASE Unheld(f)
  BY <1>1, <1>3 DEF Unheld, Entry
<1>4. CASE HeldForRead(f)
  BY <1>1, <1>4 DEF HeldForRead, Entry
<1>5. CASE HeldForWrite(f)
  <2>1. Cardinality(Writers(f)) = 1 /\ Cardinality(Readers(f)) = 0
    BY <1>1, <1>5 DEF HeldForWrite
  <2> QED
    BY <1>1, <1>5, <2>1 DEF HeldForWrite, Entry
<1> QED
  BY <1>2, <1>3, <1>4, <1>5 DEF FileState

\* The table of FileSecurityHandler (FileSecurityHandler.cpp:120-168) accounts
\* for the transactions that hold each file, for any number of workers.
THEOREM TableHolds == ~RejectsAnyTime /\ Spec => []TableMatchesHolders
BY LockInvariance, TableFromInv, PTL

\* A file that is being written is transferred by nobody else: what a second
\* worker's early rejection breaks (ServerWorker.cpp:739) and nothing else does.
THEOREM WriterAloneHolds == ~RejectsAnyTime /\ Spec => []WriterIsAlone
<1>1. LockInv => WriterIsAlone
  <2> SUFFICES ASSUME LockInv, NEW f \in Files, NEW w \in Transferring(f, "WRQ")
               PROVE  Transferring(f, "WRQ") \cup Transferring(f, "RRQ") = {w}
    BY DEF WriterIsAlone
  <2>1. FileState(f) /\ w \in Writers(f)
    BY DEF LockInv, Transferring, Writers, Holders
  <2>2. Readers(f) = {} /\ Writers(f) = {w}
    BY <2>1 DEF FileState, Unheld, HeldForRead, HeldForWrite
  <2>3. /\ Transferring(f, "WRQ") \subseteq Writers(f)
        /\ Transferring(f, "RRQ") \subseteq Readers(f)
    BY DEF Transferring, Readers, Writers, Holders
  <2> QED
    BY <2>2, <2>3
<1> QED
  BY <1>1, LockInvariance, PTL

LEMMA StepsOfEachLock == LockInv /\ [Next]_vars => [EachLockSteps]_vars
<1> SUFFICES ASSUME LockInv, Next, NEW f \in Files
             PROVE  FileLock(f)!Next \/ UNCHANGED <<Readers(f), Writers(f)>>
  BY DEF EachLockSteps, FileLock!vars, Readers, Writers
<1>1. ASSUME NEW w \in Workers,
             \/ RejectRequest(w) \/ ValidRequest(w) \/ EndTransfer(w)
             \/ UnlockMissing(w) \/ NothingToUnlock(w)
      PROVE  UNCHANGED <<Readers(f), Writers(f)>>
  <2>1. /\ operation' = operation
        /\ \E s \in Stages : stage' = [stage EXCEPT ![w] = s]
        /\ (stage[w] \in {"transfer", "ending"}) <=> (stage'[w] \in {"transfer", "ending"})
        /\ stage[w] \in {"transfer", "ending"} => filePath'[w] = filePath[w]
        /\ \A v \in Workers \ {w} : filePath'[v] = filePath[v]
    BY <1>1, ReleaseMeaning
    DEF RejectRequest, ValidRequest, EndTransfer, UnlockMissing, NothingToUnlock,
        Terminating, Goto, fields, LockInv, Typed, Stages, Operations
  <2>2. \A v \in Workers \ {w} : stage'[v] = stage[v]
    BY <2>1 DEF LockInv, Typed
  <2> QED
    BY <2>1, <2>2 DEF Readers, Writers, Holders
<1>2. ASSUME NEW w \in Workers, LockFile(w)
      PROVE  FileLock(f)!Next \/ UNCHANGED <<Readers(f), Writers(f)>>
  <2>1. /\ filePath' = filePath
        /\ \A v \in Workers \ {w} : stage'[v] = stage[v] /\ operation'[v] = operation[v]
        /\ operation'[w] = stage[w] /\ stage[w] \in Operations
        /\ stage'[w] = IF Grants(filePath[w], stage[w]) THEN "transfer" ELSE "rejected"
    BY <1>2 DEF LockFile, Goto, LockInv, Typed
  <2>2. CASE f # filePath[w] \/ ~Grants(filePath[w], stage[w])
    BY <2>1, <2>2 DEF Readers, Writers, Holders, Operations
  <2>3. CASE f = filePath[w] /\ stage[w] = "RRQ" /\ Grants(filePath[w], stage[w])
    <3>1. Writers(f) = {}
      BY <2>3, GrantMeaning
    <3>2. Readers(f)' = Readers(f) \cup {w} /\ Writers(f)' = {} /\ w \notin Readers(f)
      BY <2>1, <2>3, <3>1 DEF Readers, Writers, Holders
    <3> QED
      BY <3>1, <3>2 DEF FileLock!Next, FileLock!GrantRead, Readers, Writers
  <2>4. CASE f = filePath[w] /\ stage[w] = "WRQ" /\ Grants(filePath[w], stage[w])
    <3>1. Readers(f) = {} /\ Writers(f) = {}
      BY <2>4, GrantMeaning DEF Unheld
    <3>2. Readers(f)' = {} /\ Writers(f)' = {w}
      BY <2>1, <2>4, <3>1 DEF Readers, Writers, Holders
    <3> QED
      BY <3>1, <3>2 DEF FileLock!Next, FileLock!GrantWrite, Readers, Writers
  <2> QED
    BY <2>1, <2>2, <2>3, <2>4 DEF Operations
<1>3. ASSUME NEW w \in Workers, UnlockFile(w)
      PROVE  FileLock(f)!Next \/ UNCHANGED <<Readers(f), Writers(f)>>
  <2>1. operation[w] \in Operations /\ filePath[w] \in Files
    BY <1>3 DEF UnlockFile, BelievesLocked, LockInv, Typed, NoOperation
  <2>2. /\ w \in Holders(filePath[w], operation[w])
        /\ filePath[w] = f => Holders(f, operation[w])' = Holders(f, operation[w]) \ {w}
        /\ \A o \in Operations :
             f # filePath[w] \/ o # operation[w] => Holders(f, o)' = Holders(f, o)
    <3>1. PICK h \in Files, op \in Operations : filePath[w] = h /\ operation[w] = op
      BY <2>1
    <3>2. /\ w \in Holders(h, op) /\ Holders(h, op)' = Holders(h, op) \ {w}
          /\ \A g \in Files, o \in Operations :
               g # h \/ o # op => Holders(g, o)' = Holders(g, o)
          /\ operation' = operation
      BY <1>3, <3>1, ReleaseSteps
    <3>3. Holders(f, operation[w])' = Holders(f, op)'
      BY <3>1, <3>2
    <3> QED
      BY <3>1, <3>2, <3>3
  <2>3. CASE filePath[w] # f
    BY <2>2, <2>3 DEF Readers, Writers, Operations
  <2>4. CASE filePath[w] = f /\ operation[w] = "RRQ"
    <3>1. w \in Readers(f) /\ Readers(f)' = Readers(f) \ {w} /\ Writers(f)' = Writers(f)
      BY <1>3, <2>2, <2>4, ReleaseSteps DEF Readers, Writers, Operations
    <3> QED
      BY <3>1 DEF FileLock!Next, FileLock!ReleaseRead, Readers, Writers
  <2>5. CASE filePath[w] = f /\ operation[w] = "WRQ"
    <3>1. w \in Writers(f) /\ Writers(f)' = Writers(f) \ {w} /\ Readers(f)' = Readers(f)
      BY <1>3, <2>2, <2>5, ReleaseSteps DEF Readers, Writers, Operations
    <3> QED
      BY <3>1 DEF FileLock!Next, FileLock!ReleaseWrite, Readers, Writers
  <2> QED
    BY <2>1, <2>3, <2>4, <2>5 DEF Operations
<1> QED
  BY <1>1, <1>2, <1>3 DEF Next

\* Each file's entry is a readers/writer lock, for any number of workers.
THEOREM Implementation == ~RejectsAnyTime /\ Spec => ImplementsRWLocks
<1> SUFFICES ASSUME ~RejectsAnyTime PROVE Spec => ImplementsRWLocks
  OBVIOUS
<1>1. Init => \A f \in Files : FileLock(f)!Init
  BY DEF Init, FileLock!Init, Holders
<1>2. Spec => []LockInv
  BY LockInvariance
<1> QED
  BY <1>1, <1>2, StepsOfEachLock, PTL DEF Spec, ImplementsRWLocks

-----------------------------------------------------------------------------
(***************************************************************************)
(* The files. What a writer leaves in place is whole because the temporary *)
(* file is whole whenever nobody has it open; a reader's file stays as it  *)
(* is because its lock excludes the writers of that file.                  *)
(***************************************************************************)
StoreTyped ==
  /\ target \in [Files -> Contents] /\ temp \in Contents
  /\ tempOpen \in Workers \cup {"nobody"}
  /\ file \in [Workers -> FileSteps]
  /\ seen \in [Workers -> Contents]
  /\ crowded \in [Workers -> BOOLEAN] /\ diskFailed \in BOOLEAN

\* A worker has a file for as long as its transfer goes on.
FollowsStage ==
  \A w \in Workers :
    /\ file[w] # "none" <=> stage[w] = "transfer"
    /\ file[w] = "reading" => operation[w] = "RRQ"
    /\ file[w] \in WriterSteps => operation[w] = "WRQ"

\* A file that is not there was written by nobody.
AbsentIsAbsent ==
  /\ \A f \in Files : target[f].what = "absent" => target[f] = Absent
  /\ temp.what = "absent" => temp = Absent

\* Who has the temporary file open, and what it holds then and afterwards.
TempIsOpeners ==
  \A w \in Workers :
    /\ tempOpen = w <=> file[w] \in {"open", "full"}
    /\ file[w] = "full" /\ ~diskFailed => temp = Content(w, "whole")

PartIsOpen ==
  temp.what = "part" /\ ~diskFailed => \E w \in Workers : file[w] = "open"

TempIsAwaited ==
  temp # Absent => \/ tempOpen # "nobody"
                   \/ \E w \in Workers : file[w] \in {"closed", "created"}

CreatedIsThere ==
  \A w \in Workers : file[w] = "created" => target[filePath[w]] # Absent

\* A writer that was not crowded is the only one, and works on its own file.
AloneIsAlone ==
  \A w \in Workers : file[w] \in WriterSteps /\ ~crowded[w] =>
    /\ \A v \in Workers \ {w} : file[v] \notin WriterSteps
    /\ file[w] # "refused"
    /\ file[w] \in {"closed", "created"} /\ ~diskFailed => temp = Content(w, "whole")

StoreInv ==
  /\ StoreTyped /\ FollowsStage /\ AbsentIsAbsent
  /\ TempIsOpeners /\ PartIsOpen /\ TempIsAwaited /\ CreatedIsThere /\ AloneIsAlone
  /\ TargetIsWhole /\ WriterGetsItsFile /\ ReaderSeesOneVersion

LEMMA InitStoreInv == StoreInit => StoreInv
<1> SUFFICES ASSUME StoreInit PROVE StoreInv
  OBVIOUS
<1> USE DEF StoreInit, Init, Content, Absent, Old
<1>1. target \in [Files -> Contents] /\ \A f \in Files : target[f].what \in {"absent", "whole"}
  BY DEF Contents
<1>2. StoreTyped
  BY <1>1 DEF StoreTyped, Contents, FileSteps
<1>3. AbsentIsAbsent /\ TargetIsWhole
  BY <1>1 DEF AbsentIsAbsent, TargetIsWhole
<1>4. FollowsStage /\ CreatedIsThere /\ AloneIsAlone /\ WriterGetsItsFile /\ ReaderSeesOneVersion
  BY DEF FollowsStage, CreatedIsThere, AloneIsAlone, WriterGetsItsFile,
         ReaderSeesOneVersion, WriterSteps
<1>5. TempIsOpeners /\ PartIsOpen /\ TempIsAwaited
  BY NobodyAssumption DEF TempIsOpeners, PartIsOpen, TempIsAwaited
<1> QED
  BY <1>2, <1>3, <1>4, <1>5 DEF StoreInv

\* A step that leaves the disk, and the locked files of the transfers, alone.
LEMMA DiskKept ==
  ASSUME StoreInv, UNCHANGED disk,
         \A v \in Workers :
           /\ stage'[v] = "transfer" <=> stage[v] = "transfer"
           /\ stage[v] = "transfer" => filePath'[v] = filePath[v] /\ operation'[v] = operation[v]
  PROVE  StoreInv'
<1> USE DEF StoreInv, disk
<1>1. StoreTyped' /\ AbsentIsAbsent' /\ TempIsOpeners' /\ PartIsOpen' /\ TempIsAwaited'
      /\ AloneIsAlone' /\ TargetIsWhole'
  BY DEF StoreTyped, AbsentIsAbsent, TempIsOpeners, PartIsOpen, TempIsAwaited,
         AloneIsAlone, TargetIsWhole
<1>2. FollowsStage'
  BY DEF FollowsStage, WriterSteps
<1>3. CreatedIsThere' /\ WriterGetsItsFile' /\ ReaderSeesOneVersion'
  BY DEF FollowsStage, CreatedIsThere, WriterGetsItsFile, ReaderSeesOneVersion
<1> QED
  BY <1>1, <1>2, <1>3

\* A rejected request, and the end of a transaction.
LEMMA OutsideTransfer ==
  ASSUME LockInv, StoreInv, NEW w \in Workers, Rejected(w) \/ Unlocking(w)
  PROVE  StoreInv'
<1>1. /\ UNCHANGED <<disk, operation>>
      /\ \E s \in {"rejected", "idle"} : stage' = [stage EXCEPT ![w] = s]
      /\ stage[w] # "transfer"
      /\ \A v \in Workers \ {w} : filePath'[v] = filePath[v]
  BY DEF Rejected, Unlocking, RejectRequest, UnlockFile, UnlockMissing, NothingToUnlock,
         Terminating, Goto, fields, LockInv, Typed
<1>2. \A v \in Workers : /\ stage'[v] = "transfer" <=> stage[v] = "transfer"
                         /\ stage[v] = "transfer" => v # w
  BY <1>1 DEF LockInv, Typed
<1> QED
  BY <1>1, <1>2, DiskKept

\* With a new request of w what it wrote before is told to be old, in the same
\* way in the files and in what the readers have seen.
LEMMA AgedContent ==
  ASSUME NEW w, NEW c \in Contents
  PROVE  /\ Aged(w, c) \in Contents /\ Aged(w, c).what = c.what
         /\ c.by # w => Aged(w, c) = c
         /\ c = Absent => Aged(w, c) = Absent
BY DEF Aged, Contents, Absent, Content

LEMMA RequestedStoreInv ==
  ASSUME LockInv, StoreInv, NEW w \in Workers, Requested(w)
  PROVE  StoreInv'
<1> USE DEF StoreInv
<1>0. /\ UNCHANGED <<temp, tempOpen, file, crowded, diskFailed, operation>>
      /\ target' = [f \in Files |-> Aged(w, target[f])]
      /\ seen' = [v \in Workers |-> Aged(w, seen[v])]
      /\ \E s \in Operations : stage' = [stage EXCEPT ![w] = s]
      /\ stage[w] = "idle"
      /\ \A v \in Workers \ {w} : filePath'[v] = filePath[v]
  BY DEF Requested, ValidRequest, Goto, LockInv, Typed
<1>1. \A v \in Workers : /\ stage'[v] = "transfer" <=> stage[v] = "transfer"
                         /\ file[v] # "none" => v # w /\ filePath'[v] = filePath[v]
                         /\ file[v] # "none" => filePath[v] \in Files
  BY <1>0 DEF LockInv, Typed, Remembers, FollowsStage, Operations
<1>2. /\ \A f \in Files : target'[f] = Aged(w, target[f]) /\ target[f] \in Contents
      /\ \A v \in Workers : seen'[v] = Aged(w, seen[v]) /\ seen[v] \in Contents
  BY <1>0 DEF StoreTyped
<1>3. StoreTyped' /\ TempIsOpeners' /\ PartIsOpen' /\ TempIsAwaited' /\ AloneIsAlone'
  <2>1. target' \in [Files -> Contents] /\ seen' \in [Workers -> Contents]
    BY <1>0, <1>2, AgedContent
  <2> QED
    BY <1>0, <2>1 DEF StoreTyped, TempIsOpeners, PartIsOpen, TempIsAwaited, AloneIsAlone
<1>4. FollowsStage'
  BY <1>0, <1>1 DEF FollowsStage, WriterSteps
<1>5. \A f \in Files : /\ target'[f].what = target[f].what
                       /\ target[f] = Absent => target'[f] = Absent
                       /\ target[f] # Absent => target'[f] # Absent
                       /\ target[f].by # w => target'[f] = target[f]
  <2>1. \A f \in Files : target[f].what = "absent" => target[f] = Absent
    BY DEF AbsentIsAbsent
  <2>2. Absent.what = "absent"
    BY DEF Absent, Content
  <2> QED
    BY <1>2, <2>1, <2>2, AgedContent
<1>6. AbsentIsAbsent' /\ TargetIsWhole'
  BY <1>0, <1>5 DEF AbsentIsAbsent, TargetIsWhole
<1>7. CreatedIsThere'
  BY <1>0, <1>1, <1>5 DEF CreatedIsThere
<1>8. WriterGetsItsFile'
  <2> SUFFICES ASSUME NEW v \in Workers, file[v] = "done", ~crowded[v], ~diskFailed
               PROVE  target'[filePath'[v]] = Content(v, "whole")
    BY <1>0 DEF WriterGetsItsFile
  <2>1. target[filePath[v]] = Content(v, "whole")
    BY DEF WriterGetsItsFile
  <2>2. Content(v, "whole").by = v
    BY DEF Content
  <2> QED
    BY <1>1, <1>5, <2>1, <2>2
<1>9. ReaderSeesOneVersion'
  BY <1>0, <1>1, <1>2 DEF ReaderSeesOneVersion
<1> QED
  BY <1>3, <1>4, <1>6, <1>7, <1>8, <1>9

\* The file is locked, and about to be opened if it was granted.
LEMMA LockingStoreInv ==
  ASSUME LockInv, StoreInv, NEW w \in Workers, Locking(w)
  PROVE  StoreInv'
<1> USE DEF StoreInv
<1>0. /\ UNCHANGED <<target, temp, tempOpen, seen, crowded, diskFailed, filePath>>
      /\ stage[w] \in Operations
      /\ \E s \in {"transfer", "rejected"} :
           /\ stage' = [stage EXCEPT ![w] = s]
           /\ file' = IF s = "transfer" THEN [file EXCEPT ![w] = "new"] ELSE file
      /\ \A v \in Workers \ {w} : operation'[v] = operation[v]
  <2>1. Grants(filePath[w], stage[w]) \in BOOLEAN
    BY DEF Grants, HasFlag
  <2> QED
    BY <2>1 DEF Locking, LockFile, Goto, MoveFile, LockInv, Typed
<1>1. /\ \A v \in Workers \ {w} : file'[v] = file[v] /\ stage'[v] = stage[v]
      /\ file[w] = "none" /\ file'[w] = (IF stage'[w] = "transfer" THEN "new" ELSE "none")
  BY <1>0 DEF LockInv, Typed, StoreTyped, FollowsStage, Operations
<1>2. StoreTyped'
  BY <1>0 DEF StoreTyped, FileSteps
<1>3. FollowsStage'
  BY <1>0, <1>1 DEF FollowsStage, WriterSteps
<1>4. AbsentIsAbsent' /\ TargetIsWhole'
  BY <1>0 DEF AbsentIsAbsent, TargetIsWhole
<1>5. TempIsOpeners' /\ PartIsOpen' /\ TempIsAwaited'
  BY <1>0, <1>1 DEF TempIsOpeners, PartIsOpen, TempIsAwaited
<1>6. CreatedIsThere' /\ AloneIsAlone' /\ WriterGetsItsFile' /\ ReaderSeesOneVersion'
  BY <1>0, <1>1
  DEF CreatedIsThere, AloneIsAlone, WriterGetsItsFile, ReaderSeesOneVersion, WriterSteps
<1> QED
  BY <1>2, <1>3, <1>4, <1>5, <1>6

\* The reader opens its file, and sees it as it is.
LEMMA OpenTargetStoreInv ==
  ASSUME LockInv, StoreInv, NEW w \in Workers, OpenTarget(w)
  PROVE  StoreInv'
<1> USE DEF StoreInv
<1>0. /\ file[w] = "new" /\ operation[w] = "RRQ" /\ file' = [file EXCEPT ![w] = "reading"]
      /\ seen' = [seen EXCEPT ![w] = target[filePath[w]]]
      /\ UNCHANGED <<stage, filePath, operation, target, temp, tempOpen, crowded, diskFailed>>
  BY DEF OpenTarget, MoveFile, vars
<1>1. /\ file'[w] = "reading" /\ seen'[w] = target[filePath[w]]
      /\ \A v \in Workers \ {w} : file'[v] = file[v] /\ seen'[v] = seen[v]
      /\ filePath[w] \in Files
  BY <1>0 DEF StoreTyped, FollowsStage, LockInv, Remembers
<1>2. StoreTyped'
  BY <1>0, <1>1 DEF StoreTyped, FileSteps
<1>3. FollowsStage'
  BY <1>0, <1>1 DEF FollowsStage, WriterSteps
<1>4. AbsentIsAbsent' /\ TargetIsWhole'
  BY <1>0 DEF AbsentIsAbsent, TargetIsWhole
<1>5. TempIsOpeners' /\ PartIsOpen' /\ TempIsAwaited'
  BY <1>0, <1>1 DEF TempIsOpeners, PartIsOpen, TempIsAwaited
<1>6. CreatedIsThere' /\ AloneIsAlone' /\ WriterGetsItsFile' /\ ReaderSeesOneVersion'
  BY <1>0, <1>1
  DEF CreatedIsThere, AloneIsAlone, WriterGetsItsFile, ReaderSeesOneVersion, WriterSteps
<1> QED
  BY <1>2, <1>3, <1>4, <1>5, <1>6

\* The writer opens the temporary file, unless another one has it open.
LEMMA OpenTempStoreInv ==
  ASSUME LockInv, StoreInv, NEW w \in Workers, OpenTemp(w)
  PROVE  StoreInv'
<1> USE DEF StoreInv
<1>0. /\ file[w] = "new" /\ operation[w] = "WRQ"
      /\ \/ /\ tempOpen = "nobody" /\ temp' = Content(w, "part") /\ tempOpen' = w
            /\ file' = [file EXCEPT ![w] = "open"]
         \/ /\ tempOpen # "nobody" /\ file' = [file EXCEPT ![w] = "refused"]
            /\ UNCHANGED <<temp, tempOpen>>
      /\ crowded' = [v \in Workers |->
                       IF v = w THEN OtherWriters(w) # {}
                       ELSE crowded[v] \/ v \in OtherWriters(w)]
      /\ UNCHANGED <<stage, filePath, operation, target, seen, diskFailed>>
  BY DEF OpenTemp, MoveFile, vars
<1>1. /\ file'[w] \in {"open", "refused"}
      /\ file'[w] = "open" => tempOpen = "nobody" /\ temp' = Content(w, "part") /\ tempOpen' = w
      /\ file'[w] = "refused" => tempOpen # "nobody" /\ temp' = temp /\ tempOpen' = tempOpen
      /\ \A v \in Workers \ {w} : file'[v] = file[v]
  BY <1>0 DEF StoreTyped
<1>2. StoreTyped'
  <2>1. temp' \in Contents /\ tempOpen' \in Workers \cup {"nobody"}
    BY <1>0 DEF StoreTyped, Contents, Content
  <2>2. file' \in [Workers -> FileSteps]
    BY <1>0 DEF StoreTyped, FileSteps, WriterSteps
  <2>3. crowded' \in [Workers -> BOOLEAN]
    <3>1. \A v \in Workers : crowded[v] \in BOOLEAN
      BY DEF StoreTyped
    <3> QED
      BY <1>0, <3>1, Zenon
  <2> QED
    BY <1>0, <2>1, <2>2, <2>3 DEF StoreTyped
<1>3. FollowsStage'
  BY <1>0, <1>1 DEF FollowsStage, WriterSteps
<1>4. AbsentIsAbsent' /\ TargetIsWhole'
  BY <1>0 DEF AbsentIsAbsent, TargetIsWhole, Content
<1>5. TempIsOpeners'
  <2>1. tempOpen = "nobody" => \A v \in Workers : file[v] \notin {"open", "full"}
    BY NobodyAssumption DEF TempIsOpeners
  <2> QED
    BY <1>0, <1>1, <2>1 DEF TempIsOpeners
<1>6. PartIsOpen'
  BY <1>0, <1>1 DEF PartIsOpen
<1>7. TempIsAwaited'
  BY <1>1, NobodyAssumption DEF TempIsAwaited
<1>8. CreatedIsThere' /\ WriterGetsItsFile' /\ ReaderSeesOneVersion'
  <2>1. \A v \in Workers : file'[v] = "done" => v # w /\ (~crowded'[v] => ~crowded[v])
    BY <1>0, <1>1
  <2> QED
    BY <1>0, <1>1, <2>1 DEF CreatedIsThere, WriterGetsItsFile, ReaderSeesOneVersion
<1>9. AloneIsAlone'
  <2> SUFFICES ASSUME NEW u \in Workers, file'[u] \in WriterSteps, ~crowded'[u]
               PROVE  /\ \A v \in Workers \ {u} : file'[v] \notin WriterSteps
                      /\ file'[u] # "refused"
                      /\ file'[u] \in {"closed", "created"} /\ ~diskFailed =>
                           temp' = Content(u, "whole")
    BY <1>0 DEF AloneIsAlone
  <2>1. CASE u = w
    <3>1. \A v \in Workers \ {w} : file[v] \notin WriterSteps
      BY <1>0, <2>1 DEF OtherWriters
    <3>2. tempOpen = "nobody"
      BY <1>0, <3>1 DEF StoreTyped, TempIsOpeners, WriterSteps
    <3> QED
      BY <1>1, <2>1, <3>1, <3>2
  <2>2. CASE u # w
    BY <1>0, <1>1, <2>2 DEF OtherWriters
  <2> QED
    BY <2>1, <2>2
<1> QED
  BY <1>2, <1>3, <1>4, <1>5, <1>6, <1>7, <1>8, <1>9

\* The blocks are written, the last one with them.
LEMMA WriteBlocksStoreInv ==
  ASSUME LockInv, StoreInv, NEW w \in Workers, WriteBlocks(w)
  PROVE  StoreInv'
<1> USE DEF StoreInv
<1>0. /\ file[w] = "open" /\ file' = [file EXCEPT ![w] = "full"]
      /\ \/ temp' = Content(w, "whole") /\ diskFailed' = diskFailed
         \/ diskFailed' = TRUE /\ temp' = temp
      /\ UNCHANGED <<stage, filePath, operation, target, tempOpen, seen, crowded>>
  BY DEF WriteBlocks, MoveFile, vars
<1>1. file'[w] = "full" /\ \A v \in Workers \ {w} : file'[v] = file[v]
  BY <1>0 DEF StoreTyped
<1>2. tempOpen = w /\ \A v \in Workers \ {w} : file[v] \notin {"open", "full"}
  BY <1>0 DEF TempIsOpeners
<1>3. StoreTyped'
  <2>1. Content(w, "whole") \in Contents
    BY DEF Contents, Content
  <2>2. file' \in [Workers -> FileSteps]
    BY <1>0 DEF StoreTyped, FileSteps, WriterSteps
  <2> QED
    BY <1>0, <2>1, <2>2 DEF StoreTyped
<1>4. FollowsStage'
  BY <1>0, <1>1 DEF FollowsStage, WriterSteps
<1>5. AbsentIsAbsent' /\ TargetIsWhole'
  BY <1>0 DEF AbsentIsAbsent, TargetIsWhole, Content
<1>6. TempIsOpeners'
  BY <1>0, <1>1, <1>2 DEF TempIsOpeners
<1>7. PartIsOpen' /\ TempIsAwaited'
  BY <1>0, <1>1, <1>2, NobodyAssumption DEF PartIsOpen, TempIsAwaited, Content
<1>8. CreatedIsThere' /\ WriterGetsItsFile' /\ ReaderSeesOneVersion'
  BY <1>0, <1>1 DEF CreatedIsThere, WriterGetsItsFile, ReaderSeesOneVersion
<1>9. AloneIsAlone'
  BY <1>0, <1>1 DEF AloneIsAlone, WriterSteps
<1> QED
  BY <1>3, <1>4, <1>5, <1>6, <1>7, <1>8, <1>9

\* Finalize closes the temporary file.
LEMMA CommitStoreInv ==
  ASSUME LockInv, StoreInv, NEW w \in Workers, Commit(w)
  PROVE  StoreInv'
<1> USE DEF StoreInv
<1>0. /\ file[w] \in {"full", "refused"} /\ file' = [file EXCEPT ![w] = "closed"]
      /\ tempOpen' = IF tempOpen = w THEN "nobody" ELSE tempOpen
      /\ UNCHANGED <<stage, filePath, operation, target, temp, seen, crowded, diskFailed>>
  BY DEF Commit, MoveFile, vars
<1>1. file'[w] = "closed" /\ \A v \in Workers \ {w} : file'[v] = file[v]
  BY <1>0 DEF StoreTyped
<1>2. StoreTyped'
  BY <1>0 DEF StoreTyped, FileSteps, WriterSteps
<1>3. FollowsStage'
  BY <1>0, <1>1 DEF FollowsStage, WriterSteps
<1>4. AbsentIsAbsent' /\ TargetIsWhole'
  BY <1>0 DEF AbsentIsAbsent, TargetIsWhole
<1>5. TempIsOpeners'
  BY <1>0, <1>1, NobodyAssumption DEF TempIsOpeners
<1>6. PartIsOpen' /\ TempIsAwaited'
  BY <1>0, <1>1 DEF PartIsOpen, TempIsAwaited
<1>7. CreatedIsThere' /\ WriterGetsItsFile' /\ ReaderSeesOneVersion'
  BY <1>0, <1>1 DEF CreatedIsThere, WriterGetsItsFile, ReaderSeesOneVersion
<1>8. AloneIsAlone'
  BY <1>0, <1>1 DEF AloneIsAlone, WriterSteps, TempIsOpeners
<1> QED
  BY <1>2, <1>3, <1>4, <1>5, <1>6, <1>7, <1>8

\* Nobody reads the file that a writer has.
LEMMA ReadersElsewhere ==
  ASSUME LockInv, StoreInv, NEW w \in Workers, file[w] \in WriterSteps
  PROVE  /\ filePath[w] \in Files
         /\ \A v \in Workers : file[v] = "reading" => filePath[v] # filePath[w]
<1>1. stage[w] = "transfer" /\ operation[w] = "WRQ"
  BY DEF StoreInv, FollowsStage, WriterSteps
<1>2. filePath[w] \in Files
  BY <1>1 DEF LockInv, Remembers
<1>3. w \in Writers(filePath[w])
  BY <1>1 DEF Writers, Holders
<1>4. Readers(filePath[w]) = {}
  <2>1. FileState(filePath[w])
    BY <1>2 DEF LockInv
  <2> QED
    BY <1>3, <2>1 DEF FileState, Unheld, HeldForRead, HeldForWrite
<1>5. \A v \in Workers : file[v] = "reading" => v \in Readers(filePath[v])
  BY DEF StoreInv, FollowsStage, Readers, Holders
<1> QED
  BY <1>2, <1>4, <1>5

\* Nobody else writes the file that a writer has.
LEMMA WritersElsewhere ==
  ASSUME LockInv, StoreInv, NEW w \in Workers, file[w] \in WriterSteps,
         NEW v \in Workers, v # w, file[v] \in WriterSteps
  PROVE  filePath[v] # filePath[w]
<1>1. /\ stage[w] = "transfer" /\ operation[w] = "WRQ"
      /\ stage[v] = "transfer" /\ operation[v] = "WRQ"
  BY DEF StoreInv, FollowsStage, WriterSteps
<1>2. filePath[w] \in Files
  BY <1>1 DEF LockInv, Remembers
<1>3. w \in Writers(filePath[w]) /\ v \in Writers(filePath[v])
  BY <1>1 DEF Writers, Holders
<1>4. FileState(filePath[w])
  BY <1>2 DEF LockInv
<1> QED
  BY <1>3, <1>4 DEF FileState, Unheld, HeldForRead, HeldForWrite

\* OverwriteFile makes the target, if there is none.
LEMMA CreateTargetStoreInv ==
  ASSUME LockInv, StoreInv, NEW w \in Workers, CreateTarget(w)
  PROVE  StoreInv'
<1> USE DEF StoreInv
<1>0. /\ file[w] = "closed" /\ file' = [file EXCEPT ![w] = "created"]
      /\ target' = [target EXCEPT ![filePath[w]] =
                      IF @ = Absent THEN Content(w, "empty") ELSE @]
      /\ UNCHANGED <<stage, filePath, operation, temp, tempOpen, seen, crowded, diskFailed>>
  BY DEF CreateTarget, MoveFile, vars
<1>1. file'[w] = "created" /\ \A v \in Workers \ {w} : file'[v] = file[v]
  BY <1>0 DEF StoreTyped
<1>2. /\ filePath[w] \in Files
      /\ \A v \in Workers : file[v] = "reading" => filePath[v] # filePath[w]
      /\ \A v \in Workers \ {w} : file[v] = "done" => filePath[v] # filePath[w]
  BY <1>0, ReadersElsewhere, WritersElsewhere DEF WriterSteps
<1>3. /\ target'[filePath[w]] # Absent
      /\ target'[filePath[w]] \in {target[filePath[w]], Content(w, "empty")}
      /\ \A f \in Files \ {filePath[w]} : target'[f] = target[f]
      /\ \A f \in Files : target[f] # Absent => target'[f] # Absent
  BY <1>0, <1>2 DEF StoreTyped, Absent, Content
<1>4. StoreTyped'
  <2>1. Content(w, "empty") \in Contents
    BY DEF Contents, Content
  <2> QED
    BY <1>0, <2>1 DEF StoreTyped, FileSteps, WriterSteps
<1>5. FollowsStage'
  BY <1>0, <1>1 DEF FollowsStage, WriterSteps
<1>6. AbsentIsAbsent' /\ TargetIsWhole'
  BY <1>0, <1>3 DEF AbsentIsAbsent, TargetIsWhole, Content
<1>7. TempIsOpeners' /\ PartIsOpen' /\ TempIsAwaited'
  BY <1>0, <1>1 DEF TempIsOpeners, PartIsOpen, TempIsAwaited
<1>8. CreatedIsThere'
  <2>1. \A v \in Workers : file[v] = "created" => filePath[v] \in Files
    BY ReadersElsewhere DEF WriterSteps
  <2> QED
    BY <1>0, <1>1, <1>3, <2>1 DEF CreatedIsThere
<1>9. AloneIsAlone'
  BY <1>0, <1>1 DEF AloneIsAlone, WriterSteps
<1>10. WriterGetsItsFile' /\ ReaderSeesOneVersion'
  <2>1. \A v \in Workers : file[v] \in {"done", "reading"} => filePath[v] \in Files
    BY ReadersElsewhere DEF WriterSteps, LockInv, Remembers, FollowsStage
  <2> QED
    BY <1>0, <1>1, <1>2, <1>3, <2>1 DEF WriterGetsItsFile, ReaderSeesOneVersion
<1> QED
  BY <1>4, <1>5, <1>6, <1>7, <1>8, <1>9, <1>10

\* The temporary file takes the target's place, if it is there and closed.
LEMMA ReplaceTargetStoreInv ==
  ASSUME LockInv, StoreInv, NEW w \in Workers, ReplaceTarget(w)
  PROVE  StoreInv'
<1> USE DEF StoreInv
<1>0. /\ file[w] = "created" /\ file' = [file EXCEPT ![w] = "done"]
      /\ \/ /\ target[filePath[w]] # Absent /\ temp # Absent /\ tempOpen = "nobody"
            /\ target' = [target EXCEPT ![filePath[w]] = temp] /\ temp' = Absent
         \/ /\ target[filePath[w]] = Absent \/ temp = Absent \/ tempOpen # "nobody"
            /\ UNCHANGED <<target, temp>>
      /\ UNCHANGED <<stage, filePath, operation, tempOpen, seen, crowded, diskFailed>>
  BY DEF ReplaceTarget, MoveFile, vars
<1>1. file'[w] = "done" /\ \A v \in Workers \ {w} : file'[v] = file[v]
  BY <1>0 DEF StoreTyped
<1>2. /\ filePath[w] \in Files
      /\ \A v \in Workers : file[v] = "reading" => filePath[v] # filePath[w]
      /\ \A v \in Workers \ {w} : file[v] \in {"done", "created"} => filePath[v] # filePath[w]
      /\ \A v \in Workers : file[v] \in {"done", "created", "reading"} => filePath[v] \in Files
  BY <1>0, ReadersElsewhere, WritersElsewhere
  DEF WriterSteps, LockInv, Remembers, FollowsStage
<1>3. \A f \in Files \ {filePath[w]} : target'[f] = target[f]
  BY <1>0 DEF StoreTyped
<1>4. tempOpen = "nobody" /\ ~diskFailed => temp.what # "part"
  BY NobodyAssumption DEF PartIsOpen, TempIsOpeners
<1>5. \/ /\ target'[filePath[w]] = temp /\ temp # Absent /\ tempOpen = "nobody"
         /\ temp' = Absent
      \/ UNCHANGED <<target, temp>> /\ (temp = Absent \/ tempOpen # "nobody")
  BY <1>0, <1>2 DEF StoreTyped, CreatedIsThere
<1>6. StoreTyped'
  <2>1. Absent \in Contents
    BY DEF Contents, Absent, Content
  <2>2. temp' \in Contents /\ target' \in [Files -> Contents]
    BY <1>0, <2>1 DEF StoreTyped
  <2>3. file' \in [Workers -> FileSteps]
    BY <1>0 DEF StoreTyped, FileSteps, WriterSteps
  <2> QED
    BY <1>0, <2>2, <2>3 DEF StoreTyped
<1>7. FollowsStage'
  BY <1>0, <1>1 DEF FollowsStage, WriterSteps
<1>8. AbsentIsAbsent'
  BY <1>0, <1>3, <1>5 DEF AbsentIsAbsent
<1>9. TargetIsWhole'
  BY <1>0, <1>3, <1>4, <1>5 DEF TargetIsWhole
<1>10. TempIsOpeners'
  <2>1. \A v \in Workers : file[v] = "full" => tempOpen = v
    BY DEF TempIsOpeners
  <2>2. \A v \in Workers : file[v] = "full" => temp' = temp
    BY <1>5, <2>1, NobodyAssumption
  <2> QED
    BY <1>0, <1>1, <2>2 DEF TempIsOpeners
<1>11. PartIsOpen' /\ TempIsAwaited'
  BY <1>0, <1>1, <1>5 DEF PartIsOpen, TempIsAwaited, Absent, Content
<1>12. CreatedIsThere'
  BY <1>0, <1>1, <1>2, <1>3 DEF CreatedIsThere
<1>13. AloneIsAlone'
  BY <1>0, <1>1 DEF AloneIsAlone, WriterSteps
<1>14. WriterGetsItsFile'
  <2>1. CASE crowded[w] \/ diskFailed
    BY <1>0, <1>1, <1>2, <1>3, <2>1 DEF WriterGetsItsFile
  <2>2. CASE ~crowded[w] /\ ~diskFailed
    <3>1. temp = Content(w, "whole")
      BY <1>0, <2>2 DEF AloneIsAlone, WriterSteps
    <3>2. tempOpen = "nobody"
      <4>1. \A v \in Workers : file[v] \notin {"open", "full"}
        BY <1>0, <2>2 DEF AloneIsAlone, WriterSteps
      <4> QED
        BY <4>1 DEF StoreTyped, TempIsOpeners
    <3>3. temp # Absent
      BY <3>1 DEF Content, Absent
    <3>4. target'[filePath[w]] = Content(w, "whole")
      BY <1>5, <3>1, <3>2, <3>3
    <3> QED
      BY <1>0, <1>1, <1>2, <1>3, <3>4 DEF WriterGetsItsFile
  <2> QED
    BY <2>1, <2>2
<1>15. ReaderSeesOneVersion'
  BY <1>0, <1>1, <1>2, <1>3 DEF ReaderSeesOneVersion
<1> QED
  BY <1>6, <1>7, <1>8, <1>9, <1>10, <1>11, <1>12, <1>13, <1>14, <1>15

\* The end of a transfer: a temporary file that is still open goes with it.
LEMMA DropFileStoreInv ==
  ASSUME LockInv, StoreInv, NEW w \in Workers, DropFile(w)
  PROVE  StoreInv'
<1> USE DEF StoreInv
<1>0. /\ file[w] \in {"open", "refused", "done", "reading"}
      /\ file' = [file EXCEPT ![w] = "none"]
      /\ stage' = [stage EXCEPT ![w] = "ending"]
      /\ \/ tempOpen = w /\ temp' = Absent /\ tempOpen' = "nobody"
         \/ tempOpen # w /\ UNCHANGED <<temp, tempOpen>>
      /\ seen' = [seen EXCEPT ![w] = Absent]
      /\ crowded' = [crowded EXCEPT ![w] = FALSE]
      /\ UNCHANGED <<filePath, operation, target, diskFailed>>
  BY DEF DropFile, EndTransfer, Goto, fields, MoveFile
<1>1. /\ file'[w] = "none" /\ stage'[w] = "ending"
      /\ \A v \in Workers \ {w} : /\ file'[v] = file[v] /\ stage'[v] = stage[v]
                                  /\ seen'[v] = seen[v] /\ crowded'[v] = crowded[v]
  BY <1>0 DEF StoreTyped, LockInv, Typed
<1>2. Absent \in Contents /\ Absent.what = "absent"
  BY DEF Contents, Absent, Content
<1>3. StoreTyped'
  <2>1. temp' \in Contents /\ tempOpen' \in Workers \cup {"nobody"}
    BY <1>0, <1>2 DEF StoreTyped
  <2>2. seen' \in [Workers -> Contents]
    BY <1>0, <1>2 DEF StoreTyped
  <2>3. file' \in [Workers -> FileSteps] /\ crowded' \in [Workers -> BOOLEAN]
    BY <1>0 DEF StoreTyped, FileSteps
  <2> QED
    BY <1>0, <2>1, <2>2, <2>3 DEF StoreTyped
<1>4. FollowsStage'
  BY <1>0, <1>1 DEF FollowsStage, WriterSteps
<1>5. AbsentIsAbsent' /\ TargetIsWhole'
  BY <1>0, <1>2 DEF AbsentIsAbsent, TargetIsWhole
<1>6. TempIsOpeners'
  BY <1>0, <1>1, NobodyAssumption DEF TempIsOpeners
<1>7. PartIsOpen' /\ TempIsAwaited'
  BY <1>0, <1>1, <1>2 DEF PartIsOpen, TempIsAwaited, TempIsOpeners
<1>8. CreatedIsThere' /\ WriterGetsItsFile' /\ ReaderSeesOneVersion'
  BY <1>0, <1>1 DEF CreatedIsThere, WriterGetsItsFile, ReaderSeesOneVersion
<1>9. AloneIsAlone'
  <2>1. ASSUME NEW u \in Workers, u # w, file[u] \in WriterSteps, ~crowded[u]
        PROVE  temp' = temp \/ file[u] \notin {"closed", "created"}
    <3>1. file[w] \notin {"open", "full"}
      BY <2>1 DEF AloneIsAlone, WriterSteps
    <3> QED
      BY <1>0, <3>1 DEF TempIsOpeners
  <2>2. "none" \notin WriterSteps
    BY DEF WriterSteps
  <2> SUFFICES ASSUME NEW u \in Workers, file'[u] \in WriterSteps, ~crowded'[u]
               PROVE  /\ \A v \in Workers \ {u} : file'[v] \notin WriterSteps
                      /\ file'[u] # "refused"
                      /\ file'[u] \in {"closed", "created"} /\ ~diskFailed =>
                           temp' = Content(u, "whole")
    BY <1>0 DEF AloneIsAlone
  <2>3. u # w /\ file[u] \in WriterSteps /\ ~crowded[u]
    BY <1>1, <2>2
  <2> QED
    BY <1>1, <2>1, <2>2, <2>3 DEF AloneIsAlone
<1> QED
  BY <1>3, <1>4, <1>5, <1>6, <1>7, <1>8, <1>9

-----------------------------------------------------------------------------
\* Each step of FileStore is a step of FileLocking, or none.
LEMMA StoreStepLocks == StoreNext => [Next]_vars
<1> SUFFICES ASSUME NEW w \in Workers,
                    \/ Rejected(w) \/ Requested(w) \/ Locking(w)
                    \/ OpenTarget(w) \/ OpenTemp(w)
                    \/ WriteBlocks(w) \/ Commit(w) \/ CreateTarget(w) \/ ReplaceTarget(w)
                    \/ DropFile(w) \/ Unlocking(w)
             PROVE  [Next]_vars
  BY DEF StoreNext
<1> QED
  BY DEF Rejected, Requested, Locking, OpenTarget, OpenTemp, WriteBlocks, Commit,
         CreateTarget, ReplaceTarget, DropFile, Unlocking, Next

LEMMA NextStoreInv == LockInv /\ StoreInv /\ [StoreNext]_storeVars => StoreInv'
<1> SUFFICES ASSUME LockInv, StoreInv, [StoreNext]_storeVars PROVE StoreInv'
  OBVIOUS
<1>1. CASE UNCHANGED storeVars
  BY <1>1, DiskKept DEF storeVars, vars
<1>2. CASE StoreNext
  BY <1>2, OutsideTransfer, RequestedStoreInv, LockingStoreInv, OpenTargetStoreInv,
     OpenTempStoreInv, WriteBlocksStoreInv, CommitStoreInv, CreateTargetStoreInv,
     ReplaceTargetStoreInv, DropFileStoreInv DEF StoreNext
<1> QED
  BY <1>1, <1>2

\* What the transfers do to the files respects the locks: FileStore implements
\* FileLocking, and keeps the inductive invariants of both.
THEOREM StoreInvariance ==
  ~RejectsAnyTime /\ StoreSpec => Spec /\ [](LockInv /\ StoreInv)
<1> SUFFICES ASSUME ~RejectsAnyTime
             PROVE  StoreSpec => Spec /\ [](LockInv /\ StoreInv)
  OBVIOUS
<1>1. StoreInit => Init /\ LockInv /\ StoreInv
  BY InitLockInv, InitStoreInv DEF StoreInit
<1>2. [StoreNext]_storeVars => [Next]_vars
  BY StoreStepLocks DEF storeVars
<1>3. LockInv /\ StoreInv /\ [StoreNext]_storeVars => (LockInv /\ StoreInv)'
  BY <1>2, NextLockInv, NextStoreInv
<1> QED
  BY <1>1, <1>2, <1>3, PTL DEF StoreSpec, Spec

\* Types of both modules.
THEOREM TypeCorrect == ~RejectsAnyTime /\ StoreSpec => []StoreTypeOK
<1>1. LockInv /\ StoreInv => StoreTypeOK
  BY TypedImpliesTypeOK DEF LockInv, StoreInv, StoreTyped, StoreTypeOK
<1> QED
  BY <1>1, StoreInvariance, PTL

\* However many writers use the one temporary file (FileWriter.cpp:28-35), no
\* file of the server ever becomes a part of what somebody sends, unless the
\* disk fails.
THEOREM TargetWholeHolds == ~RejectsAnyTime /\ StoreSpec => []TargetIsWhole
<1>1. StoreInv => TargetIsWhole
  BY DEF StoreInv
<1> QED
  BY <1>1, StoreInvariance, PTL

\* A writer that had the temporary file for itself leaves its file in place.
THEOREM WriterGetsHolds == ~RejectsAnyTime /\ StoreSpec => []WriterGetsItsFile
<1>1. StoreInv => WriterGetsItsFile
  BY DEF StoreInv
<1> QED
  BY <1>1, StoreInvariance, PTL

\* A file does not change under a reader (ServerWorker.cpp:730-744).
THEOREM ReaderHolds == ~RejectsAnyTime /\ StoreSpec => []ReaderSeesOneVersion
<1>1. StoreInv => ReaderSeesOneVersion
  BY DEF StoreInv
<1> QED
  BY <1>1, StoreInvariance, PTL

\* The temporary file does not outlive the transfers.
THEOREM NoTempHolds == ~RejectsAnyTime /\ StoreSpec => []NoTempLeft
<1>1. StoreInv => NoTempLeft
  BY DEF StoreInv, StoreTyped, TempIsAwaited, TempIsOpeners, NoTempLeft, WriterSteps
<1> QED
  BY <1>1, StoreInvariance, PTL
=============================================================================
