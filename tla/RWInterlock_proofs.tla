-------------------------- MODULE RWInterlock_proofs --------------------------
(***************************************************************************)
(* RWInterlock for every finite set of threads smaller than the word's     *)
(* range: the word accounts for the threads, writers are alone, a quiet    *)
(* lock refuses nobody, and the lock implements RWLock.                    *)
(*                                                                         *)
(* Mutual exclusion is not inductive by itself: that a reader finds no     *)
(* flag says there is no writer only because the word is the sum of what   *)
(* the threads put into it, and clearing the flag is harmless only because *)
(* one thread at a time owns it.                                           *)
(***************************************************************************)
EXTENDS RWInterlock, FiniteSetTheorems, TLAPS

CountedPlaces == {"reading", "undoRead"}
FlagPlaces == {"writing", "undoWrite"}

\* Two threads never both own the flag.
OneFlagOwner ==
  \A t, u \in Threads :
    pc[t] \in FlagPlaces /\ pc[u] \in FlagPlaces => t = u

\* A thread about to make an attempt has one left.
AttemptToMake ==
  \A t \in Threads : pc[t] \in {"tryRead", "tryWrite"} => left[t] > 0

IInv ==
  /\ TypeOK /\ CounterAccounts /\ OneFlagOwner /\ AttemptToMake
  /\ MutualExclusion

-----------------------------------------------------------------------------
(***************************************************************************)
(* Counting the threads in some places, and how one thread's move changes  *)
(* the count.                                                              *)
(***************************************************************************)
In(f, places) == {t \in Threads : f[t] \in places}

LEMMA CountIsSmall ==
  ASSUME NEW f, NEW places
  PROVE  /\ IsFiniteSet(In(f, places))
         /\ Cardinality(In(f, places)) \in Nat
         /\ Cardinality(In(f, places)) < WriteFlag
         /\ Cardinality(In(f, places)) = 0 <=> In(f, places) = {}
<1>1. In(f, places) \in SUBSET Threads
  BY DEF In
<1>2. /\ IsFiniteSet(In(f, places))
      /\ Cardinality(In(f, places)) <= Cardinality(Threads)
  BY <1>1, FS_Subset, ThreadsAssumption
<1>3. Cardinality(In(f, places)) \in Nat /\ Cardinality(Threads) \in Nat
  BY <1>2, FS_CardinalityType, ThreadsAssumption
<1>4. Cardinality(In(f, places)) = 0 <=> In(f, places) = {}
  BY <1>2, FS_EmptySet
<1> QED
  BY <1>2, <1>3, <1>4, ThreadsAssumption, WriteFlagAssumption

LEMMA MoveWithin ==
  ASSUME NEW f, NEW g, NEW t \in Threads, NEW places,
         \A u \in Threads \ {t} : g[u] = f[u],
         f[t] \in places <=> g[t] \in places
  PROVE  In(g, places) = In(f, places)
BY DEF In

LEMMA MoveIn ==
  ASSUME NEW f, NEW g, NEW t \in Threads, NEW places,
         \A u \in Threads \ {t} : g[u] = f[u],
         f[t] \notin places, g[t] \in places
  PROVE  Cardinality(In(g, places)) = Cardinality(In(f, places)) + 1
<1>1. In(g, places) = In(f, places) \cup {t}
  BY DEF In
<1>2. t \notin In(f, places)
  BY DEF In
<1> QED
  BY <1>1, <1>2, CountIsSmall, FS_AddElement

LEMMA MoveOut ==
  ASSUME NEW f, NEW g, NEW t \in Threads, NEW places,
         \A u \in Threads \ {t} : g[u] = f[u],
         f[t] \in places, g[t] \notin places
  PROVE  Cardinality(In(g, places)) = Cardinality(In(f, places)) - 1
<1>1. In(g, places) = In(f, places) \ {t}
  BY DEF In
<1>2. t \in In(f, places)
  BY DEF In
<1>3. Cardinality(In(f, places) \ {t}) = Cardinality(In(f, places)) - 1
  BY <1>2, CountIsSmall, FS_RemoveElement
<1> QED
  BY <1>1, <1>3

-----------------------------------------------------------------------------
\* What the word says about the threads, given that it accounts for them.
LEMMA WordMeaning ==
  ASSUME TypeOK, CounterAccounts
  PROVE  /\ HasFlag(counter) <=> In(pc, FlagPlaces) # {}
         /\ counter = 0 => In(pc, CountedPlaces) = {} /\ In(pc, FlagPlaces) = {}
         /\ counter # 0 => In(pc, CountedPlaces) # {} \/ In(pc, FlagPlaces) # {}
         /\ counter = Cardinality(In(pc, CountedPlaces))
                      + (IF In(pc, FlagPlaces) = {} THEN 0 ELSE WriteFlag)
<1>1. /\ At({"reading", "undoRead"}) = In(pc, CountedPlaces)
      /\ At({"writing", "undoWrite"}) = In(pc, FlagPlaces)
  BY DEF At, In, CountedPlaces, FlagPlaces
<1>2. /\ Cardinality(In(pc, CountedPlaces)) \in Nat
      /\ Cardinality(In(pc, CountedPlaces)) < WriteFlag
      /\ Cardinality(In(pc, CountedPlaces)) = 0 <=> In(pc, CountedPlaces) = {}
  BY CountIsSmall
<1>3. counter = Cardinality(In(pc, CountedPlaces))
                + (IF In(pc, FlagPlaces) = {} THEN 0 ELSE WriteFlag)
  BY <1>1 DEF CounterAccounts
<1> QED
  BY <1>2, <1>3, WriteFlagAssumption DEF HasFlag

\* The word still accounts for the threads after a step, stated on functions.
LEMMA AccountsNext ==
  ASSUME counter' = Cardinality(In(pc', CountedPlaces))
                    + (IF In(pc', FlagPlaces) = {} THEN 0 ELSE WriteFlag)
  PROVE  CounterAccounts'
BY DEF CounterAccounts, At, In, CountedPlaces, FlagPlaces

-----------------------------------------------------------------------------
LEMMA InitIInv == Init => IInv
<1> SUFFICES ASSUME Init PROVE IInv
  OBVIOUS
<1>1. TypeOK
  BY WriteFlagAssumption, AttemptsAssumption DEF Init, TypeOK, Word, Places
<1>2. At({"reading", "undoRead"}) = {} /\ At({"writing", "undoWrite"}) = {}
  BY DEF Init, At
<1>3. CounterAccounts
  BY <1>2, FS_EmptySet DEF CounterAccounts, Init
<1>4. OneFlagOwner /\ AttemptToMake /\ MutualExclusion
  BY DEF Init, OneFlagOwner, FlagPlaces, AttemptToMake, MutualExclusion
<1> QED
  BY <1>1, <1>3, <1>4 DEF IInv

LEMMA NextIInv == IInv /\ [Next]_vars => IInv'
<1> SUFFICES ASSUME IInv, [Next]_vars PROVE IInv'
  OBVIOUS
<1> USE DEF IInv
<1> DEFINE K == Cardinality(In(pc, CountedPlaces))
<1>0. /\ HasFlag(counter) <=> In(pc, FlagPlaces) # {}
      /\ counter = 0 => In(pc, CountedPlaces) = {} /\ In(pc, FlagPlaces) = {}
      /\ counter # 0 => In(pc, CountedPlaces) # {} \/ In(pc, FlagPlaces) # {}
      /\ counter = K + (IF In(pc, FlagPlaces) = {} THEN 0 ELSE WriteFlag)
  BY WordMeaning
<1>a. /\ K \in Nat /\ K < WriteFlag
      /\ Cardinality(In(pc', CountedPlaces)) \in Nat
      /\ Cardinality(In(pc', CountedPlaces)) < WriteFlag
  BY CountIsSmall
<1>b. /\ counter \in Word /\ pc \in [Threads -> Places]
      /\ left \in [Threads -> 0 .. Attempts]
      /\ WriteFlag \in Nat \ {0} /\ Attempts \in Nat \ {0}
  BY WriteFlagAssumption, AttemptsAssumption DEF TypeOK
<1>c. \A t \in Threads : pc[t] \in FlagPlaces <=> t \in In(pc, FlagPlaces)
  BY DEF In
<1>1. ASSUME NEW t \in Threads, TryLockRead(t) \/ TryLockWrite(t)
      PROVE  IInv'
  <2>1. PICK p \in {"tryRead", "tryWrite"} :
          pc[t] = "idle" /\ pc' = [pc EXCEPT ![t] = p]
    BY <1>1 DEF TryLockRead, TryLockWrite, Goto
  <2>2. counter' = counter /\ left' = [left EXCEPT ![t] = Attempts]
    BY <1>1 DEF TryLockRead, TryLockWrite
  <2>3. /\ In(pc', CountedPlaces) = In(pc, CountedPlaces)
        /\ In(pc', FlagPlaces) = In(pc, FlagPlaces)
    <3>1. /\ pc[t] \notin CountedPlaces /\ pc'[t] \notin CountedPlaces
          /\ pc[t] \notin FlagPlaces /\ pc'[t] \notin FlagPlaces
          /\ \A u \in Threads \ {t} : pc'[u] = pc[u]
      BY <1>b, <2>1 DEF CountedPlaces, FlagPlaces
    <3>2. In(pc', CountedPlaces) = In(pc, CountedPlaces)
      BY <3>1, MoveWithin
    <3> QED
      BY <3>1, <3>2 DEF In
  <2>4. CounterAccounts'
    BY <1>0, <2>2, <2>3, AccountsNext
  <2>5. TypeOK'
    BY <1>b, <2>1, <2>2 DEF TypeOK, Places
  <2>6. OneFlagOwner' /\ AttemptToMake' /\ MutualExclusion'
    BY <1>b, <2>1, <2>2
    DEF OneFlagOwner, AttemptToMake, MutualExclusion, FlagPlaces
  <2> QED
    BY <2>4, <2>5, <2>6
<1>2. ASSUME NEW t \in Threads, LockReadAttempt(t)
      PROVE  IInv'
  <2> DEFINE p == IF HasFlag(counter) THEN "undoRead" ELSE "reading"
  <2>1. /\ pc[t] = "tryRead" /\ pc' = [pc EXCEPT ![t] = p]
        /\ left' = [left EXCEPT ![t] = @ - 1]
        /\ counter' = Incr(counter)
    BY <1>2 DEF LockReadAttempt, Goto
  <2>2. /\ Cardinality(In(pc', CountedPlaces)) = K + 1
        /\ In(pc', FlagPlaces) = In(pc, FlagPlaces)
    <3>1. /\ pc[t] \notin CountedPlaces /\ pc'[t] \in CountedPlaces
          /\ pc[t] \notin FlagPlaces /\ pc'[t] \notin FlagPlaces
          /\ \A u \in Threads \ {t} : pc'[u] = pc[u]
      BY <1>b, <2>1 DEF CountedPlaces, FlagPlaces
    <3>2. Cardinality(In(pc', CountedPlaces)) = K + 1
      BY <3>1, MoveIn
    <3> QED
      BY <3>1, <3>2 DEF In
  <2>3. counter' = counter + 1 /\ counter' \in Word
    BY <1>0, <1>a, <1>b, <2>1, <2>2 DEF Incr, Word
  <2>4. CounterAccounts'
    <3> HIDE DEF K
    <3> QED BY <1>0, <1>a, <1>b, <2>2, <2>3, AccountsNext
  <2>5. TypeOK' /\ AttemptToMake'
    BY <1>b, <2>1, <2>3 DEF TypeOK, Places, AttemptToMake
  <2>6. OneFlagOwner'
    BY <1>b, <2>1 DEF OneFlagOwner, FlagPlaces
  <2>7. MutualExclusion'
    BY <1>b, <1>0, <1>c, <2>1 DEF MutualExclusion, FlagPlaces
  <2> QED
    BY <2>4, <2>5, <2>6, <2>7
<1>3. ASSUME NEW t \in Threads, UndoReadAttempt(t) \/ UnlockRead(t)
      PROVE  IInv'
  <2>1. PICK p \in {"tryRead", "idle"} :
          /\ pc[t] \in CountedPlaces /\ pc' = [pc EXCEPT ![t] = p]
          /\ p = "tryRead" => left[t] > 0
    BY <1>3
    DEF UndoReadAttempt, UnlockRead, RetryOrReturn, Goto, CountedPlaces
  <2>2. counter' = Decr(counter) /\ left' = left
    BY <1>3 DEF UndoReadAttempt, UnlockRead
  <2>3. /\ Cardinality(In(pc', CountedPlaces)) = K - 1
        /\ In(pc', FlagPlaces) = In(pc, FlagPlaces)
    <3>1. /\ pc[t] \in CountedPlaces /\ pc'[t] \notin CountedPlaces
          /\ pc[t] \notin FlagPlaces /\ pc'[t] \notin FlagPlaces
          /\ \A u \in Threads \ {t} : pc'[u] = pc[u]
      BY <1>b, <2>1 DEF CountedPlaces, FlagPlaces
    <3>2. Cardinality(In(pc', CountedPlaces)) = K - 1
      BY <3>1, MoveOut
    <3>3. In(pc', FlagPlaces) = In(pc, FlagPlaces)
      BY <3>1 DEF In
    <3> QED
      BY <3>2, <3>3
  <2>4. counter' = counter - 1 /\ counter' \in Word
    BY <1>0, <1>a, <1>b, <2>2, <2>3 DEF Decr, Word
  <2>5. CounterAccounts'
    <3> HIDE DEF K
    <3> QED BY <1>0, <1>a, <1>b, <2>3, <2>4, AccountsNext
  <2>6. TypeOK' /\ AttemptToMake'
    BY <1>b, <2>1, <2>2, <2>4 DEF TypeOK, Places, AttemptToMake
  <2>7. OneFlagOwner' /\ MutualExclusion'
    BY <1>b, <2>1 DEF OneFlagOwner, FlagPlaces, MutualExclusion
  <2> QED
    BY <2>5, <2>6, <2>7
<1>4. ASSUME NEW t \in Threads, LockWriteAttempt(t)
      PROVE  IInv'
  <2>1. /\ pc[t] = "tryWrite" /\ left[t] > 0
        /\ left' = [left EXCEPT ![t] = @ - 1]
        /\ counter' = SetFlag(counter)
    BY <1>4 DEF LockWriteAttempt, AttemptToMake
  <2>2. CASE HasFlag(counter)
    <3>1. PICK p \in {"tryWrite", "idle"} :
            /\ pc' = [pc EXCEPT ![t] = p]
            /\ p = "tryWrite" => left'[t] > 0
      BY <1>4, <2>2, <1>b DEF LockWriteAttempt, RetryOrReturn, Goto, HasFlag
    <3>2. counter' = counter
      BY <2>1, <2>2 DEF SetFlag
    <3>3. /\ In(pc', CountedPlaces) = In(pc, CountedPlaces)
          /\ In(pc', FlagPlaces) = In(pc, FlagPlaces)
      <4>1. /\ pc[t] \notin CountedPlaces /\ pc'[t] \notin CountedPlaces
            /\ pc[t] \notin FlagPlaces /\ pc'[t] \notin FlagPlaces
            /\ \A u \in Threads \ {t} : pc'[u] = pc[u]
        BY <1>b, <2>1, <3>1 DEF CountedPlaces, FlagPlaces
      <4>2. In(pc', CountedPlaces) = In(pc, CountedPlaces)
        BY <4>1 DEF In
      <4>3. In(pc', FlagPlaces) = In(pc, FlagPlaces)
        BY <4>1 DEF In
      <4> QED
        BY <4>2, <4>3
    <3>4. CounterAccounts'
      BY <1>0, <3>2, <3>3, AccountsNext
    <3>5. TypeOK' /\ AttemptToMake'
      BY <1>b, <2>1, <3>1, <3>2 DEF TypeOK, Places, AttemptToMake
    <3>6. OneFlagOwner' /\ MutualExclusion'
      BY <1>b, <2>1, <3>1 DEF OneFlagOwner, FlagPlaces, MutualExclusion
    <3> QED
      BY <3>4, <3>5, <3>6
  <2>3. CASE ~HasFlag(counter)
    <3>1. PICK p \in FlagPlaces :
            /\ pc' = [pc EXCEPT ![t] = p]
            /\ p = "writing" => counter = 0
      BY <1>4, <2>3 DEF LockWriteAttempt, Goto, FlagPlaces
    <3>2. counter' = counter + WriteFlag
      BY <2>1, <2>3 DEF SetFlag
    <3>3. /\ In(pc', CountedPlaces) = In(pc, CountedPlaces)
          /\ In(pc', FlagPlaces) = In(pc, FlagPlaces) \cup {t}
      <4>1. /\ pc[t] \notin CountedPlaces /\ pc'[t] \notin CountedPlaces
            /\ pc[t] \notin FlagPlaces /\ pc'[t] \in FlagPlaces
            /\ \A u \in Threads \ {t} : pc'[u] = pc[u]
        BY <1>b, <2>1, <3>1 DEF CountedPlaces, FlagPlaces
      <4>2. In(pc', CountedPlaces) = In(pc, CountedPlaces)
        BY <4>1, MoveWithin
      <4> QED
        BY <4>1, <4>2 DEF In
    <3>4. In(pc, FlagPlaces) = {}
      BY <1>0, <2>3
    <3>5. CounterAccounts' /\ counter' \in Word
      <4>1. counter' = Cardinality(In(pc', CountedPlaces)) + WriteFlag
        BY <1>0, <1>a, <1>b, <3>2, <3>3, <3>4
      <4> QED
        BY <4>1, <1>a, <1>b, <3>3, AccountsNext DEF Word
    <3>6. TypeOK' /\ AttemptToMake'
      BY <1>b, <2>1, <3>1, <3>5 DEF TypeOK, Places, AttemptToMake, FlagPlaces
    <3>7. OneFlagOwner'
      BY <1>b, <1>c, <3>1, <3>4 DEF OneFlagOwner
    <3>8. MutualExclusion'
      <4>1. \A u \in Threads : pc[u] # "writing"
        BY <1>c, <3>4 DEF FlagPlaces
      <4>2. ASSUME counter = 0 PROVE \A u \in Threads : pc[u] # "reading"
        BY <1>0, <4>2 DEF In, CountedPlaces
      <4> QED
        BY <1>b, <3>1, <4>1, <4>2 DEF MutualExclusion, FlagPlaces
    <3> QED
      BY <3>5, <3>6, <3>7, <3>8
  <2> QED
    BY <2>2, <2>3
<1>5. ASSUME NEW t \in Threads, UndoWriteAttempt(t) \/ UnlockWrite(t)
      PROVE  IInv'
  <2>1. PICK p \in {"tryWrite", "idle"} :
          /\ pc[t] \in FlagPlaces /\ pc' = [pc EXCEPT ![t] = p]
          /\ p = "tryWrite" => left[t] > 0
    BY <1>5
    DEF UndoWriteAttempt, UnlockWrite, RetryOrReturn, Goto, FlagPlaces
  <2>2. counter' = ClearFlag(counter) /\ left' = left
    BY <1>5 DEF UndoWriteAttempt, UnlockWrite
  <2>3. /\ In(pc', CountedPlaces) = In(pc, CountedPlaces)
        /\ In(pc', FlagPlaces) = In(pc, FlagPlaces) \ {t}
    <3>1. /\ pc[t] \notin CountedPlaces /\ pc'[t] \notin CountedPlaces
          /\ pc[t] \in FlagPlaces /\ pc'[t] \notin FlagPlaces
          /\ \A u \in Threads \ {t} : pc'[u] = pc[u]
      BY <1>b, <2>1 DEF CountedPlaces, FlagPlaces
    <3>2. In(pc', CountedPlaces) = In(pc, CountedPlaces)
      BY <3>1, MoveWithin
    <3> QED
      BY <3>1, <3>2 DEF In
  <2>4. In(pc, FlagPlaces) = {t}
    BY <1>c, <2>1 DEF OneFlagOwner, In
  <2>5. counter' = K /\ counter' \in Word
    BY <1>0, <1>a, <1>b, <2>2, <2>4 DEF ClearFlag, Word
  <2>6. CounterAccounts'
    BY <1>a, <2>3, <2>4, <2>5, AccountsNext
  <2>7. TypeOK' /\ AttemptToMake'
    BY <1>b, <2>1, <2>2, <2>5 DEF TypeOK, Places, AttemptToMake
  <2>8. OneFlagOwner' /\ MutualExclusion'
    BY <1>b, <2>1 DEF OneFlagOwner, FlagPlaces, MutualExclusion
  <2> QED
    BY <2>6, <2>7, <2>8
<1>6. CASE UNCHANGED vars
  BY <1>6 DEF vars, TypeOK, CounterAccounts, At, OneFlagOwner, AttemptToMake,
              MutualExclusion
<1> QED
  BY <1>1, <1>2, <1>3, <1>4, <1>5, <1>6 DEF Next

\* The invariant the other results rest on.
THEOREM Invariance == Spec => []IInv
BY InitIInv, NextIInv, PTL DEF Spec

\* A thread that holds the lock for writing is alone: RWInterlock.cpp:10-81.
THEOREM MutualExclusionHolds == Spec => []MutualExclusion
<1>1. IInv => MutualExclusion
  BY DEF IInv
<1> QED
  BY Invariance, <1>1, PTL

\* The word always accounts for the threads: back-offs leave no trace in it.
THEOREM CounterAccountsHolds == Spec => []CounterAccounts
<1>1. IInv => CounterAccounts
  BY DEF IInv
<1> QED
  BY Invariance, <1>1, PTL

-----------------------------------------------------------------------------
\* An attempt that fails meets a thread that holds the lock or is backing off.
THEOREM QuietLockHolds == Spec => QuietLockRefusesNobody
<1>1. IInv /\ [Next]_vars => [RefusedByAnother]_vars
  <2> SUFFICES ASSUME IInv, Next, NEW t \in Threads,
                      left'[t] < left[t], pc'[t] \notin {"reading", "writing"}
               PROVE  \E u \in Threads \ {t} :
                        pc[u] \in {"reading", "writing", "undoRead", "undoWrite"}
    BY DEF RefusedByAnother
  <2>0. /\ left \in [Threads -> 0 .. Attempts] /\ Attempts \in Nat
        /\ pc \in [Threads -> Places] /\ counter \in Word
    BY AttemptsAssumption DEF IInv, TypeOK
  <2>1. PICK s \in Threads :
          \/ TryLockRead(s) \/ LockReadAttempt(s) \/ UndoReadAttempt(s)
          \/ UnlockRead(s) \/ TryLockWrite(s) \/ LockWriteAttempt(s)
          \/ UndoWriteAttempt(s) \/ UnlockWrite(s)
    BY DEF Next
  <2>2. LockReadAttempt(t) \/ LockWriteAttempt(t)
    <3>1. ~(TryLockRead(s) \/ TryLockWrite(s))
      <4>1. ASSUME TryLockRead(s) \/ TryLockWrite(s) PROVE FALSE
        <5>1. left' = [left EXCEPT ![s] = Attempts]
          BY <4>1 DEF TryLockRead, TryLockWrite
        <5> QED
          BY <2>0, <5>1
      <4> QED
        BY <4>1
    <3>2. ~(UndoReadAttempt(s) \/ UnlockRead(s) \/ UndoWriteAttempt(s) \/ UnlockWrite(s))
      BY <2>0 DEF UndoReadAttempt, UnlockRead, UndoWriteAttempt, UnlockWrite
    <3>3. left' = [left EXCEPT ![s] = @ - 1]
      BY <2>1, <3>1, <3>2 DEF LockReadAttempt, LockWriteAttempt
    <3> QED
      BY <2>0, <2>1, <3>1, <3>2, <3>3
  <2>3. pc[t] \in {"tryRead", "tryWrite"}
    BY <2>2 DEF LockReadAttempt, LockWriteAttempt
  <2>4. HasFlag(counter) \/ counter # 0
    BY <2>0, <2>2 DEF LockReadAttempt, LockWriteAttempt, Goto, Places
  <2>5. In(pc, CountedPlaces) # {} \/ In(pc, FlagPlaces) # {}
    BY <2>4, WordMeaning DEF IInv
  <2> QED
    BY <2>3, <2>5 DEF In, CountedPlaces, FlagPlaces
<1> QED
  BY <1>1, Invariance, PTL DEF Spec, QuietLockRefusesNobody

\* The lock word implements the abstract readers/writer lock.
THEOREM Implementation == Spec => ImplementsRWLock
<1> DEFINE R == At({"reading"})
           W == At({"writing"})
<1>1. Init => Abstract!Init
  BY DEF Init, Abstract!Init, At
<1>2. IInv /\ [Next]_vars => [Abstract!Next]_(Abstract!vars)
  <2> SUFFICES ASSUME IInv, [Next]_vars
               PROVE  [Abstract!Next]_(Abstract!vars)
    OBVIOUS
  <2>0. pc \in [Threads -> Places]
    BY DEF IInv, TypeOK
  <2>1. ASSUME NEW t \in Threads,
               \/ TryLockRead(t) \/ TryLockWrite(t)
               \/ UndoReadAttempt(t) \/ UndoWriteAttempt(t)
        PROVE  UNCHANGED <<R, W>>
    <3>1. /\ pc[t] \notin {"reading", "writing"}
          /\ \E p : p \notin {"reading", "writing"} /\ pc' = [pc EXCEPT ![t] = p]
      BY <2>1 DEF TryLockRead, TryLockWrite, UndoReadAttempt, UndoWriteAttempt,
                  RetryOrReturn, Goto
    <3> QED
      BY <2>0, <3>1 DEF At
  <2>2. ASSUME NEW t \in Threads, LockReadAttempt(t)
        PROVE  UNCHANGED <<R, W>> \/ Abstract!GrantRead(t)
    <3>1. CASE HasFlag(counter)
      <4>1. pc[t] = "tryRead" /\ pc' = [pc EXCEPT ![t] = "undoRead"]
        BY <2>2, <3>1 DEF LockReadAttempt, Goto
      <4> QED
        BY <2>0, <4>1 DEF At
    <3>2. CASE ~HasFlag(counter)
      <4>1. pc[t] = "tryRead" /\ pc' = [pc EXCEPT ![t] = "reading"]
        BY <2>2, <3>2 DEF LockReadAttempt, Goto
      <4>2. W = {}
        BY <3>2, WordMeaning DEF IInv, In, At, FlagPlaces
      <4>3. R' = R \cup {t} /\ W' = W /\ t \notin R
        BY <2>0, <4>1 DEF At
      <4> QED
        BY <4>2, <4>3 DEF Abstract!GrantRead
    <3> QED
      BY <3>1, <3>2
  <2>3. ASSUME NEW t \in Threads, LockWriteAttempt(t)
        PROVE  UNCHANGED <<R, W>> \/ Abstract!GrantWrite(t)
    <3>1. CASE counter = 0
      <4>1. pc[t] = "tryWrite" /\ pc' = [pc EXCEPT ![t] = "writing"]
        BY <2>3, <3>1, WriteFlagAssumption
        DEF LockWriteAttempt, Goto, HasFlag
      <4>2. R = {} /\ W = {}
        BY <3>1, WordMeaning DEF IInv, In, At, FlagPlaces, CountedPlaces
      <4>3. W' = {t} /\ R' = R
        BY <2>0, <4>1, <4>2 DEF At
      <4> QED
        BY <4>2, <4>3 DEF Abstract!GrantWrite
    <3>2. CASE counter # 0
      <4>1. /\ pc[t] = "tryWrite"
            /\ \E p : p \notin {"reading", "writing"} /\ pc' = [pc EXCEPT ![t] = p]
        BY <2>3, <3>2 DEF LockWriteAttempt, RetryOrReturn, Goto
      <4> QED
        BY <2>0, <4>1 DEF At
    <3> QED
      BY <3>1, <3>2
  <2>4. ASSUME NEW t \in Threads, UnlockRead(t)
        PROVE  Abstract!ReleaseRead(t)
    <3>1. R' = R \ {t} /\ W' = W /\ t \in R
      BY <2>0, <2>4 DEF UnlockRead, Goto, At
    <3> QED
      BY <3>1 DEF Abstract!ReleaseRead
  <2>5. ASSUME NEW t \in Threads, UnlockWrite(t)
        PROVE  Abstract!ReleaseWrite(t)
    <3>1. W' = W \ {t} /\ R' = R /\ t \in W
      BY <2>0, <2>5 DEF UnlockWrite, Goto, At
    <3> QED
      BY <3>1 DEF Abstract!ReleaseWrite
  <2>6. CASE UNCHANGED vars
    BY <2>6 DEF vars, At, Abstract!vars
  <2> QED
    BY <2>1, <2>2, <2>3, <2>4, <2>5, <2>6 DEF Next, Abstract!Next, Abstract!vars
<1> QED
  BY <1>1, <1>2, Invariance, PTL DEF Spec, ImplementsRWLock, Abstract!Spec
=============================================================================
