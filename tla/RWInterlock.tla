----------------------------- MODULE RWInterlock -----------------------------
(***************************************************************************)
(* tftplib's RWInterlock: a lock-free readers/writer lock held in one      *)
(* atomic word. Nothing ever blocks: a call makes up to Attempts attempts  *)
(* and gives up. An attempt that sees the word occupied has already        *)
(* changed it, and takes the change back in a second atomic operation;     *)
(* between the two the word shows a reader or a writer that holds nothing. *)
(*                                                                         *)
(* One action is one atomic operation on the word, so the interleavings of *)
(* the threads are those of the code.                                      *)
(***************************************************************************)
EXTENDS LockWord, FiniteSets

CONSTANTS
  Threads,     \* the threads that share the lock
  Attempts     \* RWInterlock.cpp:8

ASSUME ThreadsAssumption ==
  IsFiniteSet(Threads) /\ Cardinality(Threads) < WriteFlag
ASSUME AttemptsAssumption == Attempts \in Nat \ {0}

VARIABLES
  counter,     \* _counter
  pc,          \* where each thread is in the lock's code
  left         \* the loop's local variable attempt

vars == <<counter, pc, left>>

(***************************************************************************)
(* "tryRead", "tryWrite": at the head of the loop, an attempt to make.     *)
(* "undoRead", "undoWrite": refused, its change to the word not undone.    *)
(* "reading", "writing": the call returned true.                           *)
(***************************************************************************)
Places == {"idle", "tryRead", "undoRead", "reading",
           "tryWrite", "undoWrite", "writing"}

TypeOK ==
  /\ counter \in Word
  /\ pc \in [Threads -> Places]
  /\ left \in [Threads -> 0 .. Attempts]

Init ==
  /\ counter = 0
  /\ pc = [t \in Threads |-> "idle"]
  /\ left = [t \in Threads |-> 0]

Goto(t, place) == pc' = [pc EXCEPT ![t] = place]

\* The loop goes round while attempts are left; then the call returns false.
RetryOrReturn(t, loop) == Goto(t, IF left'[t] > 0 THEN loop ELSE "idle")

-----------------------------------------------------------------------------
TryLockRead(t) ==
  /\ pc[t] = "idle"
  /\ left' = [left EXCEPT ![t] = Attempts]
  /\ Goto(t, "tryRead")
  /\ UNCHANGED counter

(***************************************************************************)
(* Definitions named Bug_... are plausible mistakes in the definition that *)
(* follows them. No specification uses them: they show that the properties *)
(* below tell the code from its mistakes.                                  *)
(***************************************************************************)
Bug_ReadAttemptNotCounted(t) ==
  /\ pc[t] = "tryRead"
  /\ counter' = Incr(counter)
  /\ Goto(t, IF HasFlag(counter) THEN "undoRead" ELSE "reading")
  /\ UNCHANGED left

Bug_ReadIgnoresFlag(t) ==
  /\ pc[t] = "tryRead"
  /\ left' = [left EXCEPT ![t] = @ - 1]
  /\ counter' = Incr(counter)
  /\ Goto(t, "reading")

LockReadAttempt(t) ==
  /\ pc[t] = "tryRead"
  /\ left' = [left EXCEPT ![t] = @ - 1]
  /\ counter' = Incr(counter)
  /\ Goto(t, IF HasFlag(counter) THEN "undoRead" ELSE "reading")

Bug_RefusedReadLeavesCount(t) ==
  /\ pc[t] = "undoRead"
  /\ UNCHANGED <<counter, left>>
  /\ RetryOrReturn(t, "tryRead")

UndoReadAttempt(t) ==
  /\ pc[t] = "undoRead"
  /\ counter' = Decr(counter)
  /\ UNCHANGED left
  /\ RetryOrReturn(t, "tryRead")

UnlockRead(t) ==
  /\ pc[t] = "reading"
  /\ counter' = Decr(counter)
  /\ Goto(t, "idle")
  /\ UNCHANGED left

TryLockWrite(t) ==
  /\ pc[t] = "idle"
  /\ left' = [left EXCEPT ![t] = Attempts]
  /\ Goto(t, "tryWrite")
  /\ UNCHANGED counter

Bug_WriteIgnoresReaders(t) ==
  /\ pc[t] = "tryWrite"
  /\ left' = [left EXCEPT ![t] = @ - 1]
  /\ counter' = SetFlag(counter)
  /\ IF HasFlag(counter) THEN RetryOrReturn(t, "tryWrite") ELSE Goto(t, "writing")

\* A second writer leaves the flag alone: it belongs to the first one.
LockWriteAttempt(t) ==
  /\ pc[t] = "tryWrite"
  /\ left' = [left EXCEPT ![t] = @ - 1]
  /\ counter' = SetFlag(counter)
  /\ \/ HasFlag(counter) /\ RetryOrReturn(t, "tryWrite")
     \/ ~HasFlag(counter) /\ counter # 0 /\ Goto(t, "undoWrite")
     \/ counter = 0 /\ Goto(t, "writing")

UndoWriteAttempt(t) ==
  /\ pc[t] = "undoWrite"
  /\ counter' = ClearFlag(counter)
  /\ UNCHANGED left
  /\ RetryOrReturn(t, "tryWrite")

Bug_UnlockWriteKeepsFlag(t) ==
  /\ pc[t] = "writing"
  /\ Goto(t, "idle")
  /\ UNCHANGED <<counter, left>>

UnlockWrite(t) ==
  /\ pc[t] = "writing"
  /\ counter' = ClearFlag(counter)
  /\ Goto(t, "idle")
  /\ UNCHANGED left

-----------------------------------------------------------------------------
InsideCall(t) ==
  \/ LockReadAttempt(t) \/ UndoReadAttempt(t)
  \/ LockWriteAttempt(t) \/ UndoWriteAttempt(t)

Next ==
  \E t \in Threads :
    \/ TryLockRead(t) \/ LockReadAttempt(t) \/ UndoReadAttempt(t)
    \/ UnlockRead(t)
    \/ TryLockWrite(t) \/ LockWriteAttempt(t) \/ UndoWriteAttempt(t)
    \/ UnlockWrite(t)

Spec == Init /\ [][Next]_vars

\* A thread that is inside a call is scheduled again. Nobody is obliged to
\* ask for the lock, nor to give it back.
FairSpec == Spec /\ \A t \in Threads : WF_vars(InsideCall(t))

-----------------------------------------------------------------------------
At(places) == {t \in Threads : pc[t] \in places}

\* A writer is alone: no other writer and no reader while it holds the lock,
\* whatever the back-offs of refused threads do to the word in between.
MutualExclusion ==
  \A t, u \in Threads :
    pc[t] = "writing" /\ t # u => pc[u] \notin {"reading", "writing"}

\* The word is exactly the sum of what the threads put into it, so that it
\* is 0 again (and FileSecurityHandler may drop the entry) once every thread
\* has backed off or released: no attempt leaves a trace.
CounterAccounts ==
  counter = Cardinality(At({"reading", "undoRead"}))
            + (IF At({"writing", "undoWrite"}) = {} THEN 0 ELSE WriteFlag)

RefusedByAnother ==
  \A t \in Threads :
    left'[t] < left[t] /\ pc'[t] \notin {"reading", "writing"}
    => \E u \in Threads \ {t} :
         pc[u] \in {"reading", "writing", "undoRead", "undoWrite"}

\* An attempt fails only against a thread that holds the lock or has yet to
\* take back its own refused attempt: a quiet lock refuses nobody.
QuietLockRefusesNobody == [][RefusedByAnother]_vars

\* Every call to TryLockRead or TryLockWrite returns, whatever the others do:
\* the attempts are bounded and no attempt waits.
EveryCallReturns ==
  \A t \in Threads :
    pc[t] \in {"tryRead", "undoRead", "tryWrite", "undoWrite"}
      ~> pc[t] \in {"idle", "reading", "writing"}

\* The lock-free word implements the abstract readers/writer lock: a thread
\* holds it from the atomic operation that saw it free to the one that
\* releases it.
Abstract == INSTANCE RWLock WITH
  Clients <- Threads, readers <- At({"reading"}), writers <- At({"writing"})

ImplementsRWLock == Abstract!Spec
=============================================================================
