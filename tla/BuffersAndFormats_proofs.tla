----------------------- MODULE BuffersAndFormats_proofs -----------------------
(***************************************************************************)
(* The four parts of MCBuffersAndFormats for any values of their           *)
(* constants: any number of threads and buffers, any sizes of blocks, and  *)
(* messages and files of any length.                                       *)
(***************************************************************************)
EXTENDS DatagramPool, NetasciiWriter, RequestParser, Allocator,
        FiniteSetTheorems, TLAPS

-----------------------------------------------------------------------------
(***************************************************************************)
(* The pool. While no two calls of Alloc overlap, the one that is under    *)
(* way may see buffers come free but none go: the buffer that was free     *)
(* when it began is still free, and the cursor has not passed it.          *)
(***************************************************************************)
AllocType ==
  [step : {"none", "take", "look", "mark"}, backupCursor : Buffers, current : Buffers]

\* A thread has its buffers and may be about to get one more.
PoolTypeOK ==
  /\ used \in [Buffers -> BOOLEAN]
  /\ cursor \in Buffers
  /\ alloc \in [Threads -> AllocType]
  /\ held \in [Threads -> SUBSET Buffers]
  /\ overlap \in BOOLEAN
  /\ \A t \in Threads :
       /\ IsFiniteSet(held[t]) /\ Cardinality(held[t]) <= PerThread
       /\ t \in Allocating => Cardinality(held[t]) < PerThread

\* No buffer is lost.
UsedAreHeld == \A b \in Buffers : used[b] => \E t \in Threads : b \in held[t]

OneAllocates == \A t, u \in Allocating : t = u

\* A buffer is held by one thread, is marked, and was not marked when Alloc
\* chose it.
HeldAreMarked ==
  /\ \A t \in Threads : \A b \in held[t] :
       used[b] /\ \A u \in Threads \ {t} : b \notin held[u]
  /\ \A t \in Threads : alloc[t].step = "mark" => ~used[alloc[t].current]

\* The buffers Alloc comes to before its cursor is back where it began.
Ahead(from, to) ==
  {b \in Buffers : IF from < to THEN from <= b /\ b < to ELSE from <= b \/ b < to}

StillToLookAt(t) ==
  CASE alloc[t].step = "take" -> Ahead(cursor, alloc[t].backupCursor)
    [] alloc[t].step = "look" ->
         {alloc[t].current} \cup
         (IF cursor = alloc[t].backupCursor THEN {}
          ELSE Ahead(cursor, alloc[t].backupCursor))
    [] OTHER -> {}

FreeBufferAhead ==
  \A t \in Threads :
    alloc[t].step \in {"take", "look"} => \E b \in StillToLookAt(t) : ~used[b]

PoolInv ==
  /\ PoolTypeOK /\ UsedAreHeld
  /\ ~overlap => /\ OneAllocates /\ HeldAreMarked /\ FreeBufferAhead
                 /\ ~strayFree /\ refused = {}

LEMMA PoolFacts ==
  /\ IsFiniteSet(Threads) /\ PerThread \in Nat /\ PoolSize \in Nat /\ PoolSize > 0
  /\ Cardinality(Threads) \in Nat
  /\ Buffers \subseteq Nat /\ 0 \in Buffers
BY PoolAssumption, FS_CardinalityType DEF Buffers

LEMMA CursorWraps ==
  ASSUME NEW c \in Buffers
  PROVE  /\ (c + 1) % PoolSize = IF c + 1 = PoolSize THEN 0 ELSE c + 1
         /\ (c + 1) % PoolSize \in Buffers
<1>1. c \in Nat /\ c + 1 <= PoolSize
  BY PoolFacts DEF Buffers
<1>2. CASE c + 1 = PoolSize
  <2>1. PoolSize % PoolSize = 0
    BY PoolFacts, SMTT(30)
  <2> QED
    BY <1>2, <2>1, PoolFacts
<1>3. CASE c + 1 < PoolSize
  <2>1. (c + 1) % PoolSize = c + 1
    BY <1>1, <1>3, PoolFacts, SMTT(30)
  <2> QED
    BY <1>1, <1>3, <2>1, PoolFacts DEF Buffers
<1> QED
  BY <1>1, <1>2, <1>3, PoolFacts

\* A finite set of at most n elements can be numbered from 1 to n.
LEMMA Numbering ==
  ASSUME NEW S, IsFiniteSet(S), NEW n \in Nat, Cardinality(S) <= n
  PROVE  \E f \in [S -> 1 .. n] : \A a, b \in S : f[a] = f[b] => a = b
<1>1. Cardinality(S) \in Nat /\ ExistsBijection(1 .. Cardinality(S), S)
  BY FS_CardinalityType
<1>2. PICK g \in [1 .. Cardinality(S) -> S] : \A a \in S : \E k \in 1 .. Cardinality(S) : g[k] = a
  BY <1>1 DEF ExistsBijection, Bijection, Surjection, Injection
<1> DEFINE f == [a \in S |-> CHOOSE k \in 1 .. Cardinality(S) : g[k] = a]
<1>3. \A a \in S : f[a] \in 1 .. Cardinality(S) /\ g[f[a]] = a
  BY <1>2
<1>4. f \in [S -> 1 .. n]
  BY <1>1, <1>3
<1> HIDE DEF f
<1> QED
  BY <1>3, <1>4

\* A thread that may have one more buffer finds one: there are PerThread for
\* each thread.
LEMMA PoolHasRoom ==
  ASSUME PoolTypeOK, UsedAreHeld,
         NEW t \in Threads, Cardinality(held[t]) < PerThread
  PROVE  \E b \in Buffers : ~used[b]
<1> SUFFICES ASSUME \A b \in Buffers : used[b] PROVE FALSE
  OBVIOUS
<1>1. \A u \in Threads : \E f \in [held[u] -> 1 .. PerThread] :
        /\ \A a, b \in held[u] : f[a] = f[b] => a = b
        /\ u = t => \A a \in held[u] : f[a] # PerThread
  <2> TAKE u \in Threads
  <2>1. IsFiniteSet(held[u]) /\ Cardinality(held[u]) \in Nat /\ Cardinality(held[u]) <= PerThread
    BY FS_CardinalityType DEF PoolTypeOK
  <2>2. CASE u = t
    <3>1. PerThread - 1 \in Nat /\ Cardinality(held[u]) <= PerThread - 1
      BY <2>1, <2>2, PoolFacts
    <3>2. PICK f \in [held[u] -> 1 .. (PerThread - 1)] :
            \A a, b \in held[u] : f[a] = f[b] => a = b
      BY <2>1, <3>1, Numbering
    <3>3. f \in [held[u] -> 1 .. PerThread] /\ \A a \in held[u] : f[a] # PerThread
      BY <3>1, PoolFacts
    <3> QED
      BY <3>2, <3>3
  <2>3. CASE u # t
    BY <2>1, <2>3, Numbering, PoolFacts
  <2> QED
    BY <2>2, <2>3
<1> DEFINE number == [u \in Threads |-> CHOOSE f \in [held[u] -> 1 .. PerThread] :
                        /\ \A a, b \in held[u] : f[a] = f[b] => a = b
                        /\ u = t => \A a \in held[u] : f[a] # PerThread]
           owner == [b \in Buffers |-> CHOOSE u \in Threads : b \in held[u]]
<1>2. \A u \in Threads : /\ number[u] \in [held[u] -> 1 .. PerThread]
                         /\ \A a, b \in held[u] : number[u][a] = number[u][b] => a = b
                         /\ u = t => \A a \in held[u] : number[u][a] # PerThread
  BY <1>1
<1>3. \A b \in Buffers : owner[b] \in Threads /\ b \in held[owner[b]]
  BY DEF UsedAreHeld
<1> HIDE DEF number, owner
<1> DEFINE Places == Threads \X (1 .. PerThread)
           place == [b \in Buffers |-> <<owner[b], number[owner[b]][b]>>]
           last == <<t, PerThread>>
<1>4. place \in [Buffers -> Places \ {last}]
  <2>1. \A b \in Buffers : number[owner[b]][b] \in 1 .. PerThread
    BY <1>2, <1>3
  <2> QED
    BY <1>2, <1>3, <2>1
<1>5. \A a, b \in Buffers : place[a] = place[b] => a = b
  BY <1>2, <1>3
<1>6. /\ IsFiniteSet(Places) /\ Cardinality(Places) = Cardinality(Threads) * PerThread
      /\ last \in Places
  <2>1. IsFiniteSet(1 .. PerThread) /\ Cardinality(1 .. PerThread) = PerThread
    BY FS_Interval, PoolFacts
  <2>2. PerThread >= 1
    <3>1. IsFiniteSet(held[t])
      BY DEF PoolTypeOK
    <3>2. Cardinality(held[t]) \in Nat
      BY <3>1, FS_CardinalityType
    <3> QED
      BY <3>2, PoolFacts
  <2> QED
    BY <2>1, <2>2, FS_Product, PoolFacts
<1>7. IsFiniteSet(Places \ {last}) /\ Cardinality(Places \ {last}) = Cardinality(Places) - 1
  BY <1>6, FS_RemoveElement
<1>8. IsFiniteSet(Buffers) /\ Cardinality(Buffers) = PoolSize
  BY FS_Interval, PoolFacts DEF Buffers
<1>9. Cardinality(Places \ {last}) < Cardinality(Buffers)
  <2>1. Cardinality(Threads) * PerThread = PerThread * Cardinality(Threads)
    BY PoolFacts, SMT
  <2>2. PerThread * Cardinality(Threads) <= PoolSize
    BY PoolAssumption
  <2>3. PerThread * Cardinality(Threads) \in Nat
    BY PoolFacts, SMT
  <2> QED
    BY <1>6, <1>7, <1>8, <2>1, <2>2, <2>3, PoolFacts
<1>10. \E a, b \in Buffers : a # b /\ place[a] = place[b]
  <2> HIDE DEF place, Places, last
  <2> QED
    BY <1>4, <1>7, <1>8, <1>9, FS_PigeonHole
<1> QED
  BY <1>5, <1>10

-----------------------------------------------------------------------------
\* The buffers ahead of a cursor that is moved on.
LEMMA AheadMoves ==
  ASSUME NEW from \in Buffers, NEW to \in Buffers
  PROVE  LET next == (from + 1) % PoolSize IN
         \A b \in Ahead(from, to) : b = from \/ (next # to /\ b \in Ahead(next, to))
<1>1. /\ from \in Nat /\ to \in Nat /\ from < PoolSize /\ to < PoolSize
      /\ \A b \in Buffers : b \in Nat /\ b < PoolSize
  BY PoolFacts DEF Buffers
<1>2. (from + 1) % PoolSize = IF from + 1 = PoolSize THEN 0 ELSE from + 1
  BY CursorWraps
<1> QED
  BY <1>1, <1>2, PoolFacts DEF Ahead

\* All buffers are ahead of a cursor that is where it is to return to.
LEMMA AllAhead ==
  ASSUME NEW c \in Buffers
  PROVE  Ahead(c, c) = Buffers
BY PoolFacts DEF Ahead, Buffers

\* A step of one thread inside Alloc changes where the thread is.
LEMMA AllocStep ==
  ASSUME PoolTypeOK, NEW t \in Threads, NEW a \in AllocType,
         alloc' = [alloc EXCEPT ![t] = a]
  PROVE  /\ alloc' \in [Threads -> AllocType] /\ alloc'[t] = a
         /\ \A u \in Threads : u # t => alloc'[u] = alloc[u]
         /\ \A u \in Threads : u \in Allocating' <=> IF u = t THEN a.step # "none"
                                                     ELSE u \in Allocating
BY DEF PoolTypeOK, Allocating

LEMMA PoolInitHolds == PoolInit => PoolInv
<1> SUFFICES ASSUME PoolInit PROVE PoolInv
  OBVIOUS
<1>1. NotAllocating \in AllocType
  BY PoolFacts DEF NotAllocating, AllocType
<1>2. IsFiniteSet({}) /\ Cardinality({}) = 0
  BY FS_EmptySet
<1>3. Allocating = {}
  BY DEF PoolInit, Allocating, NotAllocating
<1>4. PoolTypeOK
  <2>1. /\ used \in [Buffers -> BOOLEAN] /\ cursor \in Buffers
        /\ alloc \in [Threads -> AllocType] /\ held \in [Threads -> SUBSET Buffers]
        /\ overlap \in BOOLEAN
    BY <1>1, PoolFacts DEF PoolInit
  <2>2. \A t \in Threads : held[t] = {}
    BY DEF PoolInit
  <2> QED
    BY <1>2, <1>3, <2>1, <2>2, PoolFacts DEF PoolTypeOK
<1> QED
  BY <1>3, <1>4
  DEF PoolInit, PoolInv, UsedAreHeld, OneAllocates, HeldAreMarked, FreeBufferAhead,
      NotAllocating

\* There is a free buffer when Alloc begins.
LEMMA BeginAllocKeeps ==
  ASSUME PoolInv, NEW t \in Threads, BeginAlloc(t)
  PROVE  PoolInv'
<1>1. /\ alloc[t].step = "none" /\ Cardinality(held[t]) < PerThread
      /\ overlap' = (overlap \/ Allocating # {})
      /\ UNCHANGED <<used, cursor, held, refused, strayFree>>
  BY DEF BeginAlloc, Allocating
<1> DEFINE a == [alloc[t] EXCEPT !.step = "take", !.backupCursor = cursor]
<1>2. /\ a \in AllocType /\ alloc' = [alloc EXCEPT ![t] = a]
      /\ a.step = "take" /\ a.backupCursor = cursor
  <2>1. alloc[t] \in AllocType /\ cursor \in Buffers
    BY DEF PoolInv, PoolTypeOK
  <2>2. alloc' = [alloc EXCEPT ![t] = a]
    BY DEF BeginAlloc
  <2> QED
    BY <2>1, <2>2 DEF AllocType
<1> HIDE DEF a
<1>3. /\ alloc' \in [Threads -> AllocType] /\ alloc'[t] = a
      /\ \A u \in Threads : u # t => alloc'[u] = alloc[u]
      /\ \A u \in Threads : u \in Allocating' <=> IF u = t THEN a.step # "none"
                                                  ELSE u \in Allocating
  BY <1>2, AllocStep DEF PoolInv
<1>4. PoolTypeOK' /\ UsedAreHeld'
  BY <1>1, <1>3 DEF PoolInv, PoolTypeOK, UsedAreHeld
<1>5. ASSUME ~overlap' PROVE OneAllocates' /\ HeldAreMarked' /\ FreeBufferAhead'
  <2>1. ~overlap /\ Allocating = {}
    BY <1>1, <1>5
  <2>2. OneAllocates'
    BY <1>2, <1>3, <2>1 DEF OneAllocates, Allocating
  <2>3. HeldAreMarked'
    BY <1>1, <1>2, <1>3, <2>1 DEF PoolInv, HeldAreMarked
  <2>4. PICK b \in Buffers : ~used[b]
    BY <1>1, PoolHasRoom DEF PoolInv
  <2>5. b \in StillToLookAt(t)'
    BY <1>1, <1>2, <1>3, AllAhead DEF StillToLookAt, PoolInv, PoolTypeOK
  <2>6. \A u \in Threads : u # t => alloc'[u].step = "none"
    BY <1>3, <2>1 DEF Allocating
  <2> QED
    BY <1>1, <2>2, <2>3, <2>4, <2>5, <2>6 DEF FreeBufferAhead
<1> QED
  BY <1>1, <1>4, <1>5 DEF PoolInv

LEMMA TakeCursorKeeps ==
  ASSUME PoolInv, NEW t \in Threads, TakeCursor(t)
  PROVE  PoolInv'
<1>1. /\ alloc[t].step = "take" /\ cursor' = (cursor + 1) % PoolSize
      /\ UNCHANGED <<used, held, refused, strayFree, overlap>>
  BY DEF TakeCursor
<1> DEFINE a == [alloc[t] EXCEPT !.step = "look", !.current = cursor]
<1>2. /\ a \in AllocType /\ alloc' = [alloc EXCEPT ![t] = a]
      /\ a.step = "look" /\ a.backupCursor = alloc[t].backupCursor /\ a.current = cursor
      /\ alloc[t].backupCursor \in Buffers /\ cursor \in Buffers
  <2>1. alloc[t] \in AllocType /\ cursor \in Buffers
    BY DEF PoolInv, PoolTypeOK
  <2>2. alloc' = [alloc EXCEPT ![t] = a]
    BY DEF TakeCursor
  <2> QED
    BY <2>1, <2>2 DEF AllocType
<1> HIDE DEF a
<1>3. /\ alloc' \in [Threads -> AllocType] /\ alloc'[t] = a
      /\ \A u \in Threads : u # t => alloc'[u] = alloc[u]
      /\ \A u \in Threads : u \in Allocating' <=> IF u = t THEN a.step # "none"
                                                  ELSE u \in Allocating
  BY <1>2, AllocStep DEF PoolInv
<1>4. t \in Allocating /\ cursor' \in Buffers
  BY <1>1, <1>2, CursorWraps DEF Allocating
<1>5. PoolTypeOK' /\ UsedAreHeld'
  BY <1>1, <1>2, <1>3, <1>4 DEF PoolInv, PoolTypeOK, UsedAreHeld
<1>6. ASSUME ~overlap PROVE OneAllocates' /\ HeldAreMarked' /\ FreeBufferAhead'
  <2>1. OneAllocates'
    BY <1>3, <1>4, <1>6 DEF PoolInv, OneAllocates, Allocating
  <2>2. HeldAreMarked'
    BY <1>1, <1>2, <1>3, <1>6 DEF PoolInv, HeldAreMarked
  <2>3. PICK b \in Ahead(cursor, alloc[t].backupCursor) : ~used[b]
    BY <1>1, <1>6 DEF PoolInv, FreeBufferAhead, StillToLookAt
  <2>4. b \in StillToLookAt(t)'
    BY <1>1, <1>2, <1>3, AheadMoves DEF StillToLookAt, Ahead
  <2>5. \A u \in Threads : u # t => alloc'[u].step = "none"
    BY <1>3, <1>4, <1>6 DEF PoolInv, OneAllocates, Allocating
  <2> QED
    BY <1>1, <2>1, <2>2, <2>3, <2>4, <2>5 DEF FreeBufferAhead
<1> QED
  BY <1>1, <1>5, <1>6 DEF PoolInv

LEMMA FoundFreeKeeps ==
  ASSUME PoolInv, NEW t \in Threads, FoundFree(t)
  PROVE  PoolInv'
<1>1. /\ alloc[t].step = "look" /\ ~used[alloc[t].current]
      /\ UNCHANGED <<used, cursor, held, refused, strayFree, overlap>>
  BY DEF FoundFree
<1> DEFINE a == [step |-> "mark", backupCursor |-> alloc[t].backupCursor,
                 current |-> alloc[t].current]
<1>2. a \in AllocType /\ alloc' = [alloc EXCEPT ![t] = a]
  <2>1. alloc[t] \in AllocType /\ cursor \in Buffers
    BY DEF PoolInv, PoolTypeOK
  <2>2. [alloc[t] EXCEPT !.step = "mark"] = a /\ a \in AllocType
    BY <2>1 DEF AllocType
  <2> QED
    BY <2>1, <2>2 DEF FoundFree, AllocType
<1> HIDE DEF a
<1>3. /\ alloc' \in [Threads -> AllocType] /\ alloc'[t] = a
      /\ \A u \in Threads : u # t => alloc'[u] = alloc[u]
      /\ \A u \in Threads : u \in Allocating' <=> IF u = t THEN a.step # "none"
                                                  ELSE u \in Allocating
  BY <1>2, AllocStep DEF PoolInv
<1>4. t \in Allocating
  BY <1>1 DEF Allocating
<1>5. PoolTypeOK' /\ UsedAreHeld'
  BY <1>1, <1>3, <1>4 DEF PoolInv, PoolTypeOK, UsedAreHeld
<1>6. ASSUME ~overlap PROVE OneAllocates' /\ HeldAreMarked' /\ FreeBufferAhead'
  <2>1. OneAllocates'
    BY <1>3, <1>4, <1>6 DEF PoolInv, OneAllocates, Allocating
  <2>2. HeldAreMarked'
    BY <1>1, <1>3, <1>6 DEF a, PoolInv, HeldAreMarked
  <2>3. \A u \in Threads : u # t => alloc'[u].step = "none"
    BY <1>3, <1>4, <1>6 DEF PoolInv, OneAllocates, Allocating
  <2> QED
    BY <1>3, <2>1, <2>2, <2>3 DEF a, FreeBufferAhead
<1> QED
  BY <1>1, <1>5, <1>6 DEF PoolInv

\* Alloc does not give up: the free buffer is still ahead.
LEMMA FoundUsedKeeps ==
  ASSUME PoolInv, NEW t \in Threads, FoundUsed(t)
  PROVE  PoolInv'
<1>1. /\ alloc[t].step = "look" /\ used[alloc[t].current]
      /\ UNCHANGED <<used, cursor, held, strayFree, overlap>>
  BY DEF FoundUsed
<1>2. PICK a \in AllocType :
        /\ alloc' = [alloc EXCEPT ![t] = a]
        /\ \/ /\ cursor # alloc[t].backupCursor /\ UNCHANGED refused
              /\ a = [step |-> "take", backupCursor |-> alloc[t].backupCursor,
                      current |-> alloc[t].current]
           \/ cursor = alloc[t].backupCursor /\ a = NotAllocating
  <2>1. NotAllocating \in AllocType
    BY PoolFacts DEF NotAllocating, AllocType
  <2>2. [alloc[t] EXCEPT !.step = "take"] =
          [step |-> "take", backupCursor |-> alloc[t].backupCursor,
           current |-> alloc[t].current]
        /\ [alloc[t] EXCEPT !.step = "take"] \in AllocType
    BY DEF PoolInv, PoolTypeOK, AllocType
  <2> QED
    BY <2>1, <2>2 DEF FoundUsed
<1>3. /\ alloc' \in [Threads -> AllocType] /\ alloc'[t] = a
      /\ \A u \in Threads : u # t => alloc'[u] = alloc[u]
      /\ \A u \in Threads : u \in Allocating' <=> IF u = t THEN a.step # "none"
                                                  ELSE u \in Allocating
  BY <1>2, AllocStep DEF PoolInv
<1>4. t \in Allocating
  BY <1>1 DEF Allocating
<1>5. PoolTypeOK' /\ UsedAreHeld'
  BY <1>1, <1>3, <1>4 DEF PoolInv, PoolTypeOK, UsedAreHeld
<1>6. ASSUME ~overlap
      PROVE  OneAllocates' /\ HeldAreMarked' /\ FreeBufferAhead' /\ refused' = {}
  <2>1. OneAllocates'
    BY <1>3, <1>4, <1>6 DEF PoolInv, OneAllocates, Allocating
  <2>2. PICK b \in StillToLookAt(t) : ~used[b]
    BY <1>1, <1>6 DEF PoolInv, FreeBufferAhead
  <2>3. cursor # alloc[t].backupCursor /\ b \in Ahead(cursor, alloc[t].backupCursor)
    BY <1>1, <2>2 DEF StillToLookAt
  <2>4. a.step = "take" /\ a.backupCursor = alloc[t].backupCursor /\ refused' = {}
    BY <1>2, <1>6, <2>3 DEF PoolInv
  <2>5. b \in StillToLookAt(t)'
    BY <1>1, <1>3, <2>3, <2>4 DEF StillToLookAt, Ahead
  <2>6. HeldAreMarked'
    BY <1>1, <1>3, <1>6, <2>4 DEF PoolInv, HeldAreMarked
  <2>7. \A u \in Threads : u # t => alloc'[u].step = "none"
    BY <1>3, <1>4, <1>6 DEF PoolInv, OneAllocates, Allocating
  <2> QED
    BY <1>1, <2>1, <2>2, <2>4, <2>5, <2>6, <2>7 DEF FreeBufferAhead
<1> QED
  BY <1>1, <1>5, <1>6 DEF PoolInv

\* The buffer that is marked was nobody's.
LEMMA MarkUsedKeeps ==
  ASSUME PoolInv, NEW t \in Threads, MarkUsed(t)
  PROVE  PoolInv'
<1> DEFINE c == alloc[t].current
<1>0. NotAllocating \in AllocType
  BY PoolFacts DEF NotAllocating, AllocType
<1>1. /\ alloc[t].step = "mark" /\ c \in Buffers /\ t \in Allocating
      /\ used' = [used EXCEPT ![c] = TRUE]
      /\ held' = [held EXCEPT ![t] = @ \cup {c}]
      /\ UNCHANGED <<cursor, refused, strayFree, overlap>>
  BY DEF MarkUsed, PoolInv, PoolTypeOK, AllocType, Allocating
<1>2. /\ alloc' \in [Threads -> AllocType] /\ alloc'[t] = NotAllocating
      /\ \A u \in Threads : u # t => alloc'[u] = alloc[u]
      /\ \A u \in Threads : u \in Allocating' <=> u # t /\ u \in Allocating
  BY <1>0, AllocStep DEF MarkUsed, PoolInv, NotAllocating
<1>3. /\ used' \in [Buffers -> BOOLEAN] /\ held' \in [Threads -> SUBSET Buffers]
      /\ used'[c] /\ \A b \in Buffers : b # c => used'[b] = used[b]
      /\ held'[t] = held[t] \cup {c} /\ \A u \in Threads : u # t => held'[u] = held[u]
  BY <1>1 DEF PoolInv, PoolTypeOK
<1>4. IsFiniteSet(held'[t]) /\ Cardinality(held'[t]) <= PerThread
  <2>1. /\ IsFiniteSet(held[t]) /\ Cardinality(held[t]) \in Nat
        /\ Cardinality(held[t]) < PerThread
    BY <1>1, FS_CardinalityType DEF PoolInv, PoolTypeOK
  <2>2. /\ IsFiniteSet(held[t] \cup {c})
        /\ Cardinality(held[t] \cup {c}) \in {Cardinality(held[t]), Cardinality(held[t]) + 1}
    BY <2>1, FS_AddElement
  <2> QED
    BY <1>3, <2>1, <2>2, PoolFacts
<1>5. PoolTypeOK'
  BY <1>1, <1>2, <1>3, <1>4 DEF PoolInv, PoolTypeOK
<1>6. UsedAreHeld'
  BY <1>3 DEF PoolInv, UsedAreHeld
<1>7. ASSUME ~overlap PROVE OneAllocates' /\ HeldAreMarked' /\ FreeBufferAhead'
  <2>1. \A u \in Threads : alloc'[u].step = "none"
    BY <1>1, <1>2, <1>7 DEF PoolInv, OneAllocates, Allocating, NotAllocating
  <2>2. \A u \in Threads : c \notin held[u]
    BY <1>1, <1>7 DEF PoolInv, HeldAreMarked
  <2>3. \A u \in Threads : \A b \in held'[u] :
          used'[b] /\ \A v \in Threads \ {u} : b \notin held'[v]
    BY <1>3, <1>7, <2>2 DEF PoolInv, PoolTypeOK, HeldAreMarked
  <2> QED
    BY <2>1, <2>3 DEF OneAllocates, Allocating, HeldAreMarked, FreeBufferAhead
<1> QED
  BY <1>1, <1>5, <1>6, <1>7 DEF PoolInv

\* A buffer that comes free is no one's, and helps whoever is looking.
LEMMA FreeKeeps ==
  ASSUME PoolInv, NEW t \in Threads, Free(t)
  PROVE  PoolInv'
<1>1. PICK c \in held[t] :
        /\ held' = [held EXCEPT ![t] = @ \ {c}]
        /\ strayFree' = (strayFree \/ ~used[c])
        /\ used' = [used EXCEPT ![c] = FALSE]
        /\ t \notin Allocating
        /\ UNCHANGED <<cursor, alloc, refused, overlap>>
  BY DEF Free
<1>2. /\ c \in Buffers
      /\ used' \in [Buffers -> BOOLEAN] /\ held' \in [Threads -> SUBSET Buffers]
      /\ ~used'[c] /\ \A b \in Buffers : b # c => used'[b] = used[b]
      /\ held'[t] = held[t] \ {c} /\ \A u \in Threads : u # t => held'[u] = held[u]
  BY <1>1 DEF PoolInv, PoolTypeOK
<1>3. /\ IsFiniteSet(held'[t]) /\ Cardinality(held'[t]) <= PerThread
  <2>1. /\ IsFiniteSet(held[t]) /\ Cardinality(held[t]) \in Nat
        /\ Cardinality(held[t]) <= PerThread
    BY FS_CardinalityType DEF PoolInv, PoolTypeOK
  <2> QED
    BY <1>2, <2>1, FS_RemoveElement, PoolFacts
<1>4. PoolTypeOK'
  BY <1>1, <1>2, <1>3 DEF PoolInv, PoolTypeOK, Allocating
<1>5. UsedAreHeld'
  BY <1>2 DEF PoolInv, UsedAreHeld
<1>6. ASSUME ~overlap
      PROVE  OneAllocates' /\ HeldAreMarked' /\ FreeBufferAhead' /\ ~strayFree'
  <2>1. OneAllocates' /\ ~strayFree'
    BY <1>1, <1>6 DEF PoolInv, OneAllocates, HeldAreMarked, Allocating
  <2>2. \A u \in Threads : c \notin held'[u]
    BY <1>1, <1>2, <1>6 DEF PoolInv, HeldAreMarked
  <2>3. HeldAreMarked'
    <3>1. \A u \in Threads : alloc[u].current \in Buffers
      BY DEF PoolInv, PoolTypeOK, AllocType
    <3> QED
      BY <1>1, <1>2, <1>6, <2>2, <3>1 DEF PoolInv, PoolTypeOK, HeldAreMarked
  <2>4. FreeBufferAhead'
    <3>1. \A u \in Threads : StillToLookAt(u)' = StillToLookAt(u)
      BY <1>1 DEF StillToLookAt, Ahead
    <3>2. \A u \in Threads : StillToLookAt(u) \subseteq Buffers
      BY DEF StillToLookAt, Ahead, PoolInv, PoolTypeOK, AllocType
    <3> QED
      BY <1>1, <1>2, <1>6, <3>1, <3>2 DEF PoolInv, FreeBufferAhead
  <2> QED
    BY <2>1, <2>3, <2>4
<1> QED
  BY <1>1, <1>4, <1>5, <1>6 DEF PoolInv

\* The inductive invariant of the pool holds in every reachable state.
THEOREM PoolInvariance == PoolSpec => []PoolInv
<1>1. PoolInv /\ [PoolNext]_poolVars => PoolInv'
  <2> SUFFICES ASSUME PoolInv, [PoolNext]_poolVars PROVE PoolInv'
    OBVIOUS
  <2>1. CASE PoolNext
    BY <2>1, BeginAllocKeeps, TakeCursorKeeps, FoundFreeKeeps, FoundUsedKeeps, MarkUsedKeeps,
       FreeKeeps DEF PoolNext
  <2>2. CASE UNCHANGED poolVars
    BY <2>2 DEF poolVars, PoolInv, PoolTypeOK, UsedAreHeld, OneAllocates, HeldAreMarked,
       FreeBufferAhead, StillToLookAt, Ahead, Allocating
  <2> QED
    BY <2>1, <2>2
<1> QED
  BY PoolInitHolds, <1>1, PTL DEF PoolSpec

\* No buffer is lost, whatever overlaps; and while no two calls of Alloc do, a
\* buffer belongs to one datagram and Free finds it marked (PoolOfBuffers.h:108).
THEOREM OwnerHolds == PoolSpec => []BufferHasOneOwner
<1>1. PoolInv => BufferHasOneOwner
  BY DEF PoolInv, UsedAreHeld, HeldAreMarked, BufferHasOneOwner
<1> QED
  BY <1>1, PoolInvariance, PTL

\* With PerThread buffers for each thread, for any number of threads, Alloc
\* never gives nullptr while no two calls of it overlap.
THEOREM SufficesHolds == PoolSpec => []PoolSuffices
<1>1. PoolInv => PoolSuffices
  BY DEF PoolInv, PoolSuffices
<1> QED
  BY <1>1, PoolInvariance, PTL

-----------------------------------------------------------------------------
(***************************************************************************)
(* The allocator. A free block has no size of its own: its class tells it, *)
(* if all requests of a class ask for the same size. Free blocks and those *)
(* in use then lie apart, below the cursor.                                *)
(***************************************************************************)
SizesWithHeader == {s + HeaderSize : s \in Sizes}
Classes == {Class(s + HeaderSize) : s \in Sizes}

AllocTypeOK ==
  /\ carved \in Nat /\ carved <= TotalSize
  /\ freeLists \in [Classes -> Seq(Nat)]
  /\ live \subseteq [at : Nat, size : asked]
  /\ asked \subseteq SizesWithHeader

\* A free block was once given out, for a request of its class.
FreeWereAsked ==
  \A c \in Classes : freeLists[c] # <<>> => \E z \in asked : Class(z) = c

Apart(p, y, q, z) == p + y <= q \/ q + z <= p

LiveLieApart ==
  /\ \A b \in live : b.at + b.size <= carved
  /\ \A a, b \in live : a # b => Apart(a.at, a.size, b.at, b.size)

FreeLieApart ==
  /\ \A z \in asked : \A i \in 1 .. Len(freeLists[Class(z)]) :
       freeLists[Class(z)][i] + z <= carved
  /\ \A y, z \in asked : \A i \in 1 .. Len(freeLists[Class(y)]) :
       \A j \in 1 .. Len(freeLists[Class(z)]) :
         <<y, i>> # <<z, j>> =>
           Apart(freeLists[Class(y)][i], y, freeLists[Class(z)][j], z)

LiveAndFreeLieApart ==
  \A b \in live, z \in asked : \A i \in 1 .. Len(freeLists[Class(z)]) :
    Apart(b.at, b.size, freeLists[Class(z)][i], z)

AllocInv ==
  /\ AllocTypeOK /\ FreeWereAsked
  /\ OneSizePerClass => LiveLieApart /\ FreeLieApart /\ LiveAndFreeLieApart

-----------------------------------------------------------------------------
LEMMA AskedFacts ==
  ASSUME AllocTypeOK
  PROVE  /\ \A z \in asked : z \in Nat /\ Class(z) \in Classes
         /\ \A z \in SizesWithHeader : z \in Nat /\ Class(z) \in Classes
         /\ \A c \in Classes : freeLists[c] \in Seq(Nat)
         /\ \A b \in live : b.at \in Nat /\ b.size \in asked
         /\ \A b \in live : b = Block(b.at, b.size)
<1>1. \A z \in SizesWithHeader : z \in Nat /\ Class(z) \in Classes
  BY SizesAssumption DEF SizesWithHeader, Classes, HeaderSize
<1>2. \A z \in asked : z \in SizesWithHeader
  BY DEF AllocTypeOK
<1>3. \A c \in Classes : freeLists[c] \in Seq(Nat)
  BY DEF AllocTypeOK
<1>4. \A b \in live : b.at \in Nat /\ b.size \in asked /\ b = Block(b.at, b.size)
  BY DEF AllocTypeOK, Block
<1> QED
  BY <1>1, <1>2, <1>3, <1>4

\* What is left of a list when its first element is taken.
LEMMA TailOfList ==
  ASSUME NEW s \in Seq(Nat), s # <<>>
  PROVE  /\ Head(s) = s[1] /\ s[1] \in Nat /\ 1 \in 1 .. Len(s)
         /\ Tail(s) \in Seq(Nat)
         /\ \A i \in 1 .. Len(Tail(s)) : i + 1 \in 1 .. Len(s) /\ Tail(s)[i] = s[i + 1]
OBVIOUS

\* A list with a new first element.
LEMMA ListWithFirst ==
  ASSUME NEW s \in Seq(Nat), NEW n \in Nat
  PROVE  /\ <<n>> \o s \in Seq(Nat) /\ <<n>> \o s # <<>>
         /\ \A i \in 1 .. Len(<<n>> \o s) :
              \/ i = 1 /\ (<<n>> \o s)[i] = n
              \/ i # 1 /\ i - 1 \in 1 .. Len(s) /\ (<<n>> \o s)[i] = s[i - 1]
<1>1. /\ <<n>> \o s \in Seq(Nat) /\ Len(<<n>> \o s) = Len(s) + 1 /\ Len(s) \in Nat
      /\ \A i \in 1 .. (Len(s) + 1) :
           (<<n>> \o s)[i] = IF i <= 1 THEN <<n>>[i] ELSE s[i - 1]
  OBVIOUS
<1>2. <<n>> \o s # <<>>
  BY <1>1
<1> QED
  BY <1>1, <1>2

LEMMA AllocInitHolds == AllocInit => AllocInv
<1> SUFFICES ASSUME AllocInit PROVE AllocInv
  OBVIOUS
<1>1. AllocTypeOK
  BY SizesAssumption DEF AllocInit, AllocTypeOK, Classes
<1> QED
  BY <1>1 DEF AllocInit, AllocInv, FreeWereAsked, Classes, LiveLieApart, FreeLieApart,
              LiveAndFreeLieApart

\* A block of the right class has the right size: all requests of the class
\* asked for it.
LEMMA FromCacheKeeps ==
  ASSUME AllocInv, NEW sz \in SizesWithHeader, AllocFromCache(sz), asked' = asked \cup {sz}
  PROVE  AllocInv'
<1> DEFINE c == Class(sz)
           h == Head(freeLists[c])
<1>1. /\ freeLists[c] # <<>> /\ live' = live \cup {Block(h, sz)}
      /\ freeLists' = [freeLists EXCEPT ![c] = Tail(@)] /\ carved' = carved
  BY DEF AllocFromCache
<1>2. c \in Classes /\ sz \in Nat /\ freeLists[c] \in Seq(Nat)
  BY AskedFacts DEF AllocInv
<1>3. /\ h = freeLists[c][1] /\ h \in Nat /\ 1 \in 1 .. Len(freeLists[c])
      /\ Tail(freeLists[c]) \in Seq(Nat)
      /\ \A i \in 1 .. Len(Tail(freeLists[c])) :
           i + 1 \in 1 .. Len(freeLists[c]) /\ Tail(freeLists[c])[i] = freeLists[c][i + 1]
  BY <1>1, <1>2, TailOfList
<1> DEFINE taken == Block(h, sz)
<1>4. /\ live' = live \cup {taken} /\ taken.at = h /\ taken.size = sz
      /\ \A b \in live' : b \in live \/ b = taken
  BY <1>1 DEF Block
<1> HIDE DEF taken
<1>5. /\ freeLists' \in [Classes -> Seq(Nat)] /\ freeLists'[c] = Tail(freeLists[c])
      /\ \A d \in Classes : d # c => freeLists'[d] = freeLists[d]
  BY <1>1, <1>2, <1>3 DEF AllocInv, AllocTypeOK
<1>6. AllocTypeOK'
  BY <1>1, <1>3, <1>5 DEF AllocInv, AllocTypeOK, Block
<1>7. FreeWereAsked'
  BY <1>1, <1>5 DEF AllocInv, FreeWereAsked
<1>8. ASSUME OneSizePerClass' PROVE LiveLieApart' /\ FreeLieApart' /\ LiveAndFreeLieApart'
  <2>1. sz \in asked
    <3>1. PICK z \in asked : Class(z) = c
      BY <1>1, <1>2 DEF AllocInv, FreeWereAsked
    <3> QED
      BY <1>8, <3>1 DEF OneSizePerClass
  <2>2. asked' = asked /\ OneSizePerClass
    BY <1>8, <2>1 DEF OneSizePerClass
  <2>3. LiveLieApart /\ FreeLieApart /\ LiveAndFreeLieApart
    BY <2>2 DEF AllocInv
  <2>4. \A z \in asked : Class(z) = c => z = sz
    BY <2>1, <2>2 DEF OneSizePerClass
  <2>5. \A z \in asked : \A i \in 1 .. Len(freeLists'[Class(z)]) :
          \E j \in 1 .. Len(freeLists[Class(z)]) :
            /\ freeLists'[Class(z)][i] = freeLists[Class(z)][j]
            /\ j = IF z = sz THEN i + 1 ELSE i
    BY <1>3, <1>5, <2>4, AskedFacts DEF AllocInv
  <2>6. LiveLieApart'
    <3>1. h + sz <= carved
      BY <1>3, <2>1, <2>3 DEF FreeLieApart
    <3>2. \A b \in live : Apart(b.at, b.size, h, sz)
      BY <1>3, <2>1, <2>3 DEF LiveAndFreeLieApart
    <3>4. \A b \in live' : b.at + b.size <= carved'
      BY <1>1, <1>4, <2>3, <3>1 DEF LiveLieApart
    <3>5. ASSUME NEW a \in live', NEW b \in live', a # b
          PROVE  Apart(a.at, a.size, b.at, b.size)
      <4>1. CASE a \in live /\ b \in live
        BY <2>3, <3>5, <4>1 DEF LiveLieApart
      <4>2. CASE a \notin live
        BY <1>4, <3>2, <3>5, <4>2 DEF Apart
      <4>3. CASE b \notin live
        BY <1>4, <3>2, <3>5, <4>3 DEF Apart
      <4> QED
        BY <4>1, <4>2, <4>3
    <3> QED
      BY <3>4, <3>5 DEF LiveLieApart
  <2>7. FreeLieApart'
    <3>1. ASSUME NEW z \in asked, NEW i \in 1 .. Len(freeLists'[Class(z)])
          PROVE  freeLists'[Class(z)][i] + z <= carved
      BY <2>3, <2>5 DEF FreeLieApart
    <3>2. ASSUME NEW y \in asked, NEW i \in 1 .. Len(freeLists'[Class(y)]),
                 NEW z \in asked, NEW j \in 1 .. Len(freeLists'[Class(z)]),
                 <<y, i>> # <<z, j>>
          PROVE  Apart(freeLists'[Class(y)][i], y, freeLists'[Class(z)][j], z)
      <4>1. PICK p \in 1 .. Len(freeLists[Class(y)]) :
              /\ freeLists'[Class(y)][i] = freeLists[Class(y)][p]
              /\ p = IF y = sz THEN i + 1 ELSE i
        BY <2>5
      <4>2. PICK q \in 1 .. Len(freeLists[Class(z)]) :
              /\ freeLists'[Class(z)][j] = freeLists[Class(z)][q]
              /\ q = IF z = sz THEN j + 1 ELSE j
        BY <2>5
      <4>3. <<y, p>> # <<z, q>>
        BY <3>2, <4>1, <4>2
      <4> QED
        BY <2>3, <4>1, <4>2, <4>3 DEF FreeLieApart
    <3> QED
      BY <1>1, <2>2, <3>1, <3>2 DEF FreeLieApart
  <2>8. LiveAndFreeLieApart'
    <3>1. ASSUME NEW z \in asked, NEW i \in 1 .. Len(freeLists'[Class(z)])
          PROVE  Apart(h, sz, freeLists'[Class(z)][i], z)
      <4>1. PICK j \in 1 .. Len(freeLists[Class(z)]) :
              /\ freeLists'[Class(z)][i] = freeLists[Class(z)][j]
              /\ j = IF z = sz THEN i + 1 ELSE i
        BY <2>5
      <4>2. <<sz, 1>> # <<z, j>>
        BY <4>1
      <4> QED
        BY <1>3, <2>1, <2>3, <4>1, <4>2 DEF FreeLieApart
    <3>2. ASSUME NEW b \in live, NEW z \in asked, NEW i \in 1 .. Len(freeLists'[Class(z)])
          PROVE  Apart(b.at, b.size, freeLists'[Class(z)][i], z)
      BY <2>3, <2>5 DEF LiveAndFreeLieApart
    <3> QED
      BY <1>4, <2>2, <3>1, <3>2 DEF LiveAndFreeLieApart
  <2> QED
    BY <2>6, <2>7, <2>8
<1> QED
  BY <1>6, <1>7, <1>8 DEF AllocInv

\* A new block lies above all others. If its size is new, its class is empty.
LEMMA FromBufferKeeps ==
  ASSUME AllocInv, NEW sz \in SizesWithHeader, AllocFromBuffer(sz), asked' = asked \cup {sz}
  PROVE  AllocInv'
<1> DEFINE new == Block(carved, sz)
<1>1. /\ freeLists[Class(sz)] = <<>> /\ carved + sz <= TotalSize
      /\ live' = live \cup {new} /\ carved' = carved + sz /\ freeLists' = freeLists
  BY DEF AllocFromBuffer
<1>2. sz \in Nat /\ carved \in Nat /\ new.at = carved /\ new.size = sz
  BY AskedFacts DEF AllocInv, AllocTypeOK, Block
<1>3. AllocTypeOK'
  BY <1>1, <1>2 DEF AllocInv, AllocTypeOK, Block
<1>4. FreeWereAsked'
  BY <1>1 DEF AllocInv, FreeWereAsked
<1>5. ASSUME OneSizePerClass' PROVE LiveLieApart' /\ FreeLieApart' /\ LiveAndFreeLieApart'
  <2>1. OneSizePerClass
    BY <1>5 DEF OneSizePerClass
  <2>2. LiveLieApart /\ FreeLieApart /\ LiveAndFreeLieApart
    BY <2>1 DEF AllocInv
  <2>3. \A z \in asked' : \A i \in 1 .. Len(freeLists[Class(z)]) : z \in asked
    BY <1>1
  <2>4. \A z \in asked : \A i \in 1 .. Len(freeLists[Class(z)]) :
          freeLists[Class(z)][i] \in Nat /\ freeLists[Class(z)][i] + z <= carved
    BY <2>2, AskedFacts DEF AllocInv, FreeLieApart
  <2>5. LiveLieApart'
    <3>1. \A b \in live : b.at \in Nat /\ b.size \in Nat /\ b.at + b.size <= carved
      BY <2>2, AskedFacts DEF AllocInv, LiveLieApart
    <3>2. \A b \in live' : b \in live \/ b = new
      BY <1>1
    <3>3. \A b \in live' : b.at + b.size <= carved'
      BY <1>1, <1>2, <3>1, <3>2
    <3>4. ASSUME NEW a \in live', NEW b \in live', a # b
          PROVE  Apart(a.at, a.size, b.at, b.size)
      <4>1. CASE a \in live /\ b \in live
        BY <2>2, <3>4, <4>1 DEF LiveLieApart
      <4>2. CASE a = new
        BY <1>2, <3>1, <3>2, <3>4, <4>2 DEF Apart
      <4>3. CASE b = new
        BY <1>2, <3>1, <3>2, <3>4, <4>3 DEF Apart
      <4> QED
        BY <3>2, <4>1, <4>2, <4>3
    <3> QED
      BY <3>3, <3>4 DEF LiveLieApart
  <2>6. FreeLieApart'
    <3>1. ASSUME NEW z \in asked', NEW i \in 1 .. Len(freeLists[Class(z)])
          PROVE  freeLists[Class(z)][i] + z <= carved'
      <4>1. z \in asked /\ z \in Nat
        BY <2>3, AskedFacts DEF AllocInv
      <4> QED
        BY <1>1, <1>2, <2>4, <4>1
    <3>2. ASSUME NEW y \in asked', NEW i \in 1 .. Len(freeLists[Class(y)]),
                 NEW z \in asked', NEW j \in 1 .. Len(freeLists[Class(z)]),
                 <<y, i>> # <<z, j>>
          PROVE  Apart(freeLists[Class(y)][i], y, freeLists[Class(z)][j], z)
      BY <2>2, <2>3, <3>2 DEF FreeLieApart
    <3> QED
      BY <1>1, <3>1, <3>2 DEF FreeLieApart
  <2>7. LiveAndFreeLieApart'
    <3>1. \A b \in live' : b \in live \/ b = new
      BY <1>1
    <3>2. ASSUME NEW z \in asked', NEW i \in 1 .. Len(freeLists[Class(z)])
          PROVE  Apart(carved, sz, freeLists[Class(z)][i], z)
      <4>1. z \in asked /\ z \in Nat
        BY <2>3, AskedFacts DEF AllocInv
      <4> QED
        BY <1>2, <2>4, <4>1 DEF Apart
    <3>3. ASSUME NEW b \in live, NEW z \in asked', NEW i \in 1 .. Len(freeLists[Class(z)])
          PROVE  Apart(b.at, b.size, freeLists[Class(z)][i], z)
      BY <2>2, <2>3 DEF LiveAndFreeLieApart
    <3> QED
      BY <1>1, <1>2, <3>1, <3>2, <3>3 DEF LiveAndFreeLieApart
  <2> QED
    BY <2>5, <2>6, <2>7
<1> QED
  BY <1>3, <1>4, <1>5 DEF AllocInv

LEMMA FreeBlockKeeps ==
  ASSUME AllocInv, FreeBlock
  PROVE  AllocInv'
<1>1. PICK b \in live :
        /\ live' = live \ {b}
        /\ freeLists' = [freeLists EXCEPT ![Class(b.size)] = <<b.at>> \o @]
        /\ carved' = carved /\ asked' = asked
  BY DEF FreeBlock
<1> DEFINE c == Class(b.size)
           new == <<b.at>> \o freeLists[c]
<1>2. /\ b.at \in Nat /\ b.size \in asked /\ c \in Classes /\ freeLists[c] \in Seq(Nat)
  BY AskedFacts DEF AllocInv
<1>3. /\ new \in Seq(Nat)
      /\ \A i \in 1 .. Len(new) :
           \/ i = 1 /\ new[i] = b.at
           \/ i # 1 /\ i - 1 \in 1 .. Len(freeLists[c]) /\ new[i] = freeLists[c][i - 1]
  BY <1>2, ListWithFirst
<1> HIDE DEF new
<1>4. /\ freeLists' \in [Classes -> Seq(Nat)] /\ freeLists'[c] = new
      /\ \A d \in Classes : d # c => freeLists'[d] = freeLists[d]
  BY <1>1, <1>2, <1>3 DEF AllocInv, AllocTypeOK, new
<1>5. AllocTypeOK'
  BY <1>1, <1>4 DEF AllocInv, AllocTypeOK
<1>6. FreeWereAsked'
  BY <1>1, <1>2, <1>4 DEF AllocInv, FreeWereAsked
<1>7. ASSUME OneSizePerClass' PROVE LiveLieApart' /\ FreeLieApart' /\ LiveAndFreeLieApart'
  <2>1. OneSizePerClass
    BY <1>1, <1>7 DEF OneSizePerClass
  <2>2. LiveLieApart /\ FreeLieApart /\ LiveAndFreeLieApart
    BY <2>1 DEF AllocInv
  <2>3. \A z \in asked : Class(z) = c => z = b.size
    BY <1>2, <2>1 DEF OneSizePerClass
  <2>4. \A z \in asked : \A i \in 1 .. Len(freeLists'[Class(z)]) :
          \/ z = b.size /\ i = 1 /\ freeLists'[Class(z)][i] = b.at
          \/ \E j \in 1 .. Len(freeLists[Class(z)]) :
               /\ freeLists'[Class(z)][i] = freeLists[Class(z)][j]
               /\ j = IF z = b.size THEN i - 1 ELSE i
    BY <1>3, <1>4, <2>3, AskedFacts DEF AllocInv
  <2>5. LiveLieApart'
    BY <1>1, <2>2 DEF LiveLieApart
  <2>6. FreeLieApart'
    <3>1. ASSUME NEW z \in asked, NEW i \in 1 .. Len(freeLists'[Class(z)])
          PROVE  freeLists'[Class(z)][i] + z <= carved
      BY <2>2, <2>4 DEF LiveLieApart, FreeLieApart
    <3>2. ASSUME NEW y \in asked, NEW i \in 1 .. Len(freeLists'[Class(y)]),
                 NEW z \in asked, NEW j \in 1 .. Len(freeLists'[Class(z)]),
                 <<y, i>> # <<z, j>>
          PROVE  Apart(freeLists'[Class(y)][i], y, freeLists'[Class(z)][j], z)
      <4>1. ASSUME NEW p, NEW q, NEW m, NEW n, Apart(p, m, q, n) PROVE Apart(q, n, p, m)
        BY <4>1 DEF Apart
      <4>2. CASE y = b.size /\ i = 1
        BY <2>2, <2>4, <3>2, <4>1, <4>2 DEF LiveAndFreeLieApart
      <4>3. CASE z = b.size /\ j = 1
        BY <2>2, <2>4, <3>2, <4>1, <4>3 DEF LiveAndFreeLieApart
      <4>4. CASE ~(y = b.size /\ i = 1) /\ ~(z = b.size /\ j = 1)
        BY <2>2, <2>4, <3>2, <4>4 DEF FreeLieApart
      <4> QED
        BY <4>2, <4>3, <4>4
    <3> QED
      BY <1>1, <3>1, <3>2 DEF FreeLieApart
  <2>7. LiveAndFreeLieApart'
    BY <1>1, <2>2, <2>4 DEF LiveLieApart, LiveAndFreeLieApart
  <2> QED
    BY <2>5, <2>6, <2>7
<1> QED
  BY <1>5, <1>6, <1>7 DEF AllocInv

\* The inductive invariant of the allocator holds in every reachable state.
THEOREM AllocInvariance == AllocSpec => []AllocInv
<1>1. AllocInv /\ [AllocNext]_allocVars => AllocInv'
  <2> SUFFICES ASSUME AllocInv, [AllocNext]_allocVars PROVE AllocInv'
    OBVIOUS
  <2>1. CASE Allocate
    <3>1. PICK s \in Sizes : /\ AllocFromCache(s + HeaderSize) \/ AllocFromBuffer(s + HeaderSize)
                             /\ asked' = asked \cup {s + HeaderSize}
      BY <2>1 DEF Allocate
    <3>2. s + HeaderSize \in SizesWithHeader
      BY DEF SizesWithHeader
    <3> QED
      BY <3>1, <3>2, FromCacheKeeps, FromBufferKeeps
  <2>2. CASE FreeBlock
    BY <2>2, FreeBlockKeeps
  <2>3. CASE UNCHANGED allocVars
    BY <2>3 DEF allocVars, AllocInv, AllocTypeOK, FreeWereAsked, OneSizePerClass, LiveLieApart,
       FreeLieApart, LiveAndFreeLieApart
  <2> QED
    BY <2>1, <2>2, <2>3 DEF AllocNext
<1> QED
  BY AllocInitHolds, <1>1, PTL DEF AllocSpec

\* Blocks in use lie apart and within the buffer, whatever sizes are asked for
\* in whatever order, as long as no two are of one class (Allocator.cpp:91).
THEOREM BlocksHold == AllocSpec => []BlocksLieApart
<1>1. AllocInv => BlocksLieApart
  <2> SUFFICES ASSUME AllocInv, OneSizePerClass
               PROVE  /\ \A b \in live : b.at + b.size <= TotalSize
                      /\ \A a, b \in live :
                           a # b => a.at + a.size <= b.at \/ b.at + b.size <= a.at
    BY DEF BlocksLieApart
  <2>1. \A b \in live : b.at \in Nat /\ b.size \in Nat /\ b.at + b.size <= carved
    BY AskedFacts DEF AllocInv, LiveLieApart
  <2>2. carved \in Nat /\ carved <= TotalSize /\ TotalSize \in Nat
    BY SizesAssumption DEF AllocInv, AllocTypeOK
  <2> QED
    BY <2>1, <2>2 DEF AllocInv, LiveLieApart, Apart
<1> QED
  BY <1>1, AllocInvariance, PTL

-----------------------------------------------------------------------------
(***************************************************************************)
(* The requests. What strLenS returns is the least of a set of numbers; a  *)
(* set that has one has a least one, which is proved from the induction    *)
(* over finite sets that the library has.                                  *)
(***************************************************************************)
LEMMA Least ==
  ASSUME NEW K, K \subseteq Nat, K # {}
  PROVE  \E k \in K : \A j \in K : k <= j
<1> DEFINE T == {0 .. k : k \in K}
           R == StrictSubsetOrdering(Nat)
           F == FiniteSubsetsOf(Nat)
<1>1. IsWellFoundedOn(R, F)
  BY FS_StrictSubsetOrderingWellFounded
<1>2. T \subseteq F
  <2>1. \A k \in K : IsFiniteSet(0 .. k) /\ 0 .. k \subseteq Nat
    BY FS_Interval
  <2> QED
    BY <2>1 DEF FiniteSubsetsOf
<1>3. T # {}
  OBVIOUS
<1> HIDE DEF R, F
<1>4. \E x \in T : \A y \in T : ~(<<y, x>> \in R)
  BY <1>1, <1>2, <1>3, WFMin
<1>5. PICK m \in K : \A k \in K : ~(<<0 .. k, 0 .. m>> \in R)
  BY <1>4
<1>6. ASSUME NEW k \in K, k < m PROVE FALSE
  <2>1. 0 .. k \subseteq 0 .. m /\ 0 .. k # 0 .. m
    BY <1>6
  <2>2. <<0 .. k, 0 .. m>> \in R
    BY <2>1, <1>5 DEF R, StrictSubsetOrdering
  <2> QED
    BY <1>5, <2>2
<1> QED
  BY <1>5, <1>6

\* strLenS: where the first zero byte is, if one is within reach.
LEMMA FirstZero ==
  ASSUME NEW str \in Nat, NEW maxSz \in Int, message \in Seq(Bytes)
  PROVE  \/ /\ strLenS(str, maxSz) = Missing
            /\ \A i \in 0 .. maxSz : str + i \in DOMAIN Memory => Memory[str + i] # NUL
         \/ /\ strLenS(str, maxSz) \in 0 .. maxSz
            /\ str + strLenS(str, maxSz) \in DOMAIN Memory
            /\ Memory[str + strLenS(str, maxSz)] = NUL
            /\ \A i \in 0 .. (strLenS(str, maxSz) - 1) :
                 str + i \in DOMAIN Memory => Memory[str + i] # NUL
<1> DEFINE zeros == {i \in 0 .. maxSz : str + i \in DOMAIN Memory /\ Memory[str + i] = NUL}
           least == CHOOSE i \in zeros : \A j \in zeros : i <= j
<1>1. strLenS(str, maxSz) = IF zeros = {} THEN Missing ELSE least
  BY DEF strLenS
<1>2. CASE zeros = {}
  <2>1. strLenS(str, maxSz) = Missing
    BY <1>1, <1>2
  <2>2. \A i \in 0 .. maxSz : str + i \in DOMAIN Memory => Memory[str + i] # NUL
    BY <1>2
  <2> QED
    BY <2>1, <2>2
<1>3. CASE zeros # {}
  <2>1. zeros \subseteq Nat
    OBVIOUS
  <2>2. \E k \in zeros : \A j \in zeros : k <= j
    BY <1>3, <2>1, Least
  <2>3. least \in zeros /\ \A j \in zeros : least <= j
    BY <2>2
  <2>4. strLenS(str, maxSz) = least
    BY <1>1, <1>3
  <2> HIDE DEF least
  <2>5. least \in 0 .. maxSz /\ str + least \in DOMAIN Memory /\ Memory[str + least] = NUL
    BY <2>3
  <2>6. ASSUME NEW i \in 0 .. (least - 1), str + i \in DOMAIN Memory, Memory[str + i] = NUL
        PROVE  FALSE
    <3>1. i \in zeros
      BY <2>5, <2>6
    <3> QED
      BY <2>3, <2>5, <3>1
  <2> QED
    BY <2>4, <2>5, <2>6
<1> QED
  BY <1>2, <1>3

LEMMA MemoryFacts ==
  ASSUME message \in Messages, behind \in Bytes
  PROVE  /\ message \in Seq(Bytes) /\ Len(message) \in Nat /\ Len(message) >= 2
         /\ Memory \in Seq(Bytes) /\ DOMAIN Memory = 1 .. (Len(message) + 1)
         /\ \A k \in 1 .. Len(message) : Memory[k] = message[k]
         /\ Memory[Len(message) + 1] = behind
<1>1. PICK n \in 2 .. MaxMessage : message \in [1 .. n -> Bytes]
  BY DEF Messages
<1>2. message \in Seq(Bytes) /\ Len(message) = n /\ n \in Nat
  BY <1>1, MessageAssumption
<1> QED
  BY <1>1, <1>2 DEF Memory

\* What Validate asks, with the CHOOSE of strLenS gone: a zero byte, behind it
\* a mode that the server supports, and behind that another zero byte.
Accepts == HasFilename /\ HasMode /\ StrToEnum \notin {"mail", "UNDEFINED"}

ModeFollows(f) ==
  /\ f + 2 <= Len(message)
  /\ Memory[f + 1] = NUL /\ \A k \in 1 .. f : Memory[k] # NUL
  /\ Memory[f + 2] \in {"octet", "netascii"} /\ Memory[f + 3] = NUL

LEMMA WhatIsAccepted ==
  ASSUME message \in Messages, behind \in Bytes
  PROVE  /\ Accepts => \E f \in Nat : ModeFollows(f)
         /\ \A f \in Nat : ModeFollows(f) => Accepts
<1> DEFINE n == Len(message)
           len == strLenS(1, n)
           modeLen == strLenS(ModeStr, n - (len + 1))
<1>1. /\ message \in Seq(Bytes) /\ n \in Nat /\ n >= 2
      /\ Memory \in Seq(Bytes) /\ DOMAIN Memory = 1 .. (n + 1)
  BY MemoryFacts
<1>2. \/ /\ len = Missing
         /\ \A i \in 0 .. n : Memory[1 + i] # NUL
      \/ /\ len \in 0 .. n /\ Memory[1 + len] = NUL
         /\ \A i \in 0 .. (len - 1) : Memory[1 + i] # NUL
  <2>1. \/ /\ len = Missing
           /\ \A i \in 0 .. n : 1 + i \in DOMAIN Memory => Memory[1 + i] # NUL
        \/ /\ len \in 0 .. n
           /\ 1 + len \in DOMAIN Memory
           /\ Memory[1 + len] = NUL
           /\ \A i \in 0 .. (len - 1) : 1 + i \in DOMAIN Memory => Memory[1 + i] # NUL
    BY <1>1, FirstZero
  <2> HIDE DEF len
  <2> QED
    BY <1>1, <2>1
<1>3. ASSUME len \in 0 .. n
      PROVE  /\ ModeStr = len + 2 /\ ModeStr \in Nat
             /\ modeLen = Missing
                  => \A i \in 0 .. (n - (len + 1)) : Memory[ModeStr + i] # NUL
  <2>1. ModeStr = len + 2 /\ ModeStr \in Nat
    BY <1>3 DEF ModeStr
  <2>2. n - (len + 1) \in Int
    BY <1>1, <1>3
  <2>3. \/ /\ modeLen = Missing
           /\ \A i \in 0 .. (n - (len + 1)) :
                ModeStr + i \in DOMAIN Memory => Memory[ModeStr + i] # NUL
        \/ modeLen \in 0 .. (n - (len + 1))
    BY <1>1, <2>1, <2>2, FirstZero
  <2> HIDE DEF n, len, modeLen
  <2>4. ASSUME modeLen = Missing, NEW i \in 0 .. (n - (len + 1))
        PROVE  Memory[ModeStr + i] # NUL
    <3>1. modeLen \notin 0 .. (n - (len + 1))
      BY <2>4 DEF Missing
    <3>2. ModeStr + i \in DOMAIN Memory
      BY <1>1, <1>3, <2>1
    <3> QED
      BY <2>3, <2>4, <3>1, <3>2
  <2> QED
    BY <2>1, <2>4
<1>4. Accepts <=> /\ len # Missing /\ len + 2 <= n /\ modeLen # Missing
                  /\ Memory[ModeStr] \in {"octet", "netascii"} /\ Memory[ModeStr + 1] = NUL
  <2>1. HasFilename <=> len # Missing
    BY DEF HasFilename
  <2>2. HasMode <=> len # Missing /\ len + 2 <= n /\ modeLen # Missing
    BY DEF HasMode
  <2>3. StrToEnum \notin {"mail", "UNDEFINED"}
          <=> Memory[ModeStr] \in {"octet", "netascii"} /\ Memory[ModeStr + 1] = NUL
    BY DEF StrToEnum
  <2> HIDE DEF len, modeLen
  <2> QED
    BY <2>1, <2>2, <2>3 DEF Accepts
<1> HIDE DEF len, modeLen
<1>5. ASSUME Accepts PROVE \E f \in Nat : ModeFollows(f)
  <2>1. len \in 0 .. n /\ len \in Nat
    BY <1>2, <1>4, <1>5 DEF Missing
  <2>2. ASSUME NEW k \in 1 .. len PROVE Memory[k] # NUL
    <3>1. k - 1 \in 0 .. (len - 1) /\ 1 + (k - 1) = k
      BY <2>1
    <3> QED
      BY <1>2, <2>1, <3>1 DEF Missing
  <2>3. ModeFollows(len)
    BY <1>2, <1>3, <1>4, <1>5, <2>1, <2>2 DEF ModeFollows, Missing
  <2> QED
    BY <2>1, <2>3
<1>6. ASSUME NEW f \in Nat, ModeFollows(f) PROVE Accepts
  <2>1. len \in 0 .. n
    <3>1. f \in 0 .. n /\ Memory[1 + f] = NUL
      BY <1>1, <1>6 DEF ModeFollows
    <3> QED
      BY <1>2, <3>1
  <2>2. len = f
    <3>1. CASE len < f
      <4>1. 1 + len \in 1 .. f
        BY <2>1, <3>1
      <4> QED
        BY <1>2, <1>6, <2>1, <4>1 DEF ModeFollows, Missing
    <3>2. CASE f < len
      <4>1. f \in 0 .. (len - 1) /\ Memory[1 + f] = NUL
        BY <1>6, <2>1, <3>2 DEF ModeFollows
      <4> QED
        BY <1>2, <2>1, <4>1 DEF Missing
    <3> QED
      BY <2>1, <3>1, <3>2
  <2>3. 1 \in 0 .. (n - (len + 1)) /\ Memory[ModeStr + 1] = NUL
    BY <1>1, <1>3, <1>6, <2>1, <2>2 DEF ModeFollows
  <2>4. modeLen # Missing
    BY <1>3, <2>1, <2>3
  <2> QED
    BY <1>3, <1>4, <1>6, <2>1, <2>2, <2>3, <2>4 DEF ModeFollows, Missing
<1> QED
  BY <1>5, <1>6

\* A message is judged rightly.
LEMMA JudgedRightly ==
  ASSUME message \in Messages, behind \in Bytes
  PROVE  /\ Accepts => \/ WellFormed(message)
                       \/ behind = NUL /\ WellFormed(Append(message, NUL))
         /\ ~Accepts => ~WellFormed(message)
<1> DEFINE n == Len(message)
<1>1. /\ message \in Seq(Bytes) /\ n \in Nat /\ n >= 2
      /\ Memory \in Seq(Bytes) /\ DOMAIN Memory = 1 .. (n + 1) /\ Len(Memory) = n + 1
      /\ \A k \in 1 .. n : Memory[k] = message[k]
      /\ Memory[n + 1] = behind
  BY MemoryFacts
<1>2. ASSUME NEW f \in Nat, ModeFollows(f)
      PROVE  \/ WellFormed(message)
             \/ behind = NUL /\ WellFormed(Append(message, NUL))
  <2>1. CASE f + 3 <= n
    <3>1. /\ f + 1 \in 1 .. n /\ f + 3 \in 1 .. n /\ f + 2 \in 1 .. n
          /\ f + 3 = (f + 1) + 2 /\ (f + 1) + 1 = f + 2 /\ (f + 1) - 1 = f
          /\ \A k \in 1 .. f : k \in 1 .. n
      BY <1>1, <2>1
    <3>2. /\ message[f + 1] = NUL /\ message[f + 3] = NUL
          /\ message[f + 2] \in {"octet", "netascii"}
      BY <1>1, <1>2, <3>1 DEF ModeFollows
    <3>3. \A k \in 1 .. ((f + 1) - 1) : message[k] # NUL
      BY <1>1, <1>2, <3>1 DEF ModeFollows
    <3>4. WellFormed(message)
      BY <3>1, <3>2, <3>3 DEF WellFormed
    <3> QED
      BY <3>4
  <2>2. CASE f + 3 = n + 1
    <3>1. behind = NUL /\ Append(message, NUL) = Memory
      BY <1>1, <1>2, <2>2 DEF ModeFollows, Memory
    <3>2. /\ f + 1 \in 1 .. Len(Memory) /\ f + 3 \in 1 .. Len(Memory)
          /\ \A k \in 1 .. ((f + 1) - 1) : Memory[k] # NUL
          /\ f + 3 = (f + 1) + 2 /\ (f + 1) + 1 = f + 2
      BY <1>1, <1>2, <2>2 DEF ModeFollows
    <3>3. WellFormed(Memory)
      BY <1>2, <3>2 DEF ModeFollows, WellFormed
    <3> QED
      BY <3>1, <3>3
  <2> QED
    BY <1>1, <1>2, <2>1, <2>2 DEF ModeFollows
<1>3. ASSUME WellFormed(message) PROVE \E f \in Nat : ModeFollows(f)
  <2>1. PICK i \in 1 .. n : /\ i + 2 \in 1 .. n
                            /\ message[i] = NUL /\ \A k \in 1 .. (i - 1) : message[k] # NUL
                            /\ message[i + 2] = NUL
                            /\ message[i + 1] \in {"octet", "netascii"}
    BY <1>3 DEF WellFormed
  <2>2. /\ i - 1 \in Nat /\ (i - 1) + 1 = i /\ (i - 1) + 2 = i + 1 /\ (i - 1) + 3 = i + 2
        /\ i + 1 <= n /\ i + 1 \in 1 .. n
    BY <1>1, <2>1
  <2>3. Memory[i] = NUL /\ Memory[i + 1] = message[i + 1] /\ Memory[i + 2] = NUL
    BY <1>1, <2>1, <2>2
  <2>4. \A k \in 1 .. (i - 1) : Memory[k] # NUL
    <3> TAKE k \in 1 .. (i - 1)
    <3>1. k \in 1 .. n /\ message[k] # NUL
      BY <1>1, <2>1
    <3> QED
      BY <1>1, <3>1
  <2>5. ModeFollows(i - 1)
    BY <2>1, <2>2, <2>3, <2>4 DEF ModeFollows
  <2> QED
    BY <2>2, <2>5
<1> QED
  BY <1>2, <1>3, WhatIsAccepted

RequestInv ==
  /\ message \in Messages /\ behind \in Bytes
  /\ AcceptsRequests

\* For messages of any length and whatever bytes they and the buffer hold, a
\* well-formed request is accepted, and what is accepted is well-formed or
\* lacks one zero byte that the byte behind it supplies.
THEOREM RequestsHold == RequestSpec => []AcceptsRequests
<1>1. RequestInit => RequestInv
  BY DEF RequestInit, RequestWith, RequestInv, AcceptsRequests
<1>2. RequestInv /\ [Validate]_requestVars => RequestInv'
  <2> SUFFICES ASSUME RequestInv, [Validate]_requestVars PROVE RequestInv'
    OBVIOUS
  <2>1. CASE Validate
    <3>1. /\ message' = message /\ behind' = behind
          /\ verdict' = IF Accepts THEN "valid" ELSE "invalid"
      BY <2>1 DEF Validate, Accepts
    <3>2. /\ Accepts => \/ WellFormed(message)
                        \/ behind = NUL /\ WellFormed(Append(message, NUL))
          /\ ~Accepts => ~WellFormed(message)
      BY JudgedRightly DEF RequestInv
    <3> QED
      BY <3>1, <3>2 DEF RequestInv, AcceptsRequests
  <2>2. CASE UNCHANGED requestVars
    BY <2>2 DEF requestVars, RequestInv, AcceptsRequests
  <2> QED
    BY <2>1, <2>2
<1>3. RequestInv => AcceptsRequests
  BY DEF RequestInv
<1> QED
  BY <1>1, <1>2, <1>3, PTL DEF RequestSpec

-----------------------------------------------------------------------------
(***************************************************************************)
(* The line ends. While no byte was taken for the next one before it came, *)
(* the bytes written are those of a prefix of the file, and the loop stays *)
(* behind what was buffered by the lag of the first block, less the CR LF  *)
(* that lay across the end of a call.                                      *)
(***************************************************************************)
TextTypeOK ==
  /\ sent \in FilesToSend
  /\ buffer \in [0 .. (BufferSize - 1) -> Characters]
  /\ buffered \in 0 .. Len(sent)
  /\ written \in Nat /\ limit \in Nat /\ processed \in Nat /\ straddled \in Nat
  /\ lookedPast \in BOOLEAN /\ finalized \in BOOLEAN

\* The buffer holds what came last, as much as it has room for.
BufferHoldsLast ==
  \A i \in 0 .. (buffered - 1) : buffered - BufferSize <= i => At(i) = sent[i + 1]

\* Where the call under way is to end.
CallEnd == written - processed + limit

InCall ==
  /\ limit <= BlockSize /\ processed <= limit + 1 /\ processed <= written
  /\ CallEnd <= buffered /\ buffered <= CallEnd + BlockSize
  /\ written = processed => limit < buffered \/ buffered = Len(sent)
  /\ finalized => CallEnd = buffered

BetweenCalls ==
  /\ buffered <= written + BlockSize
  /\ written = 0 => buffered \in {0, Len(sent)}
  /\ finalized => written = buffered

\* What the half of the first block leaves.
Lag == IF Len(sent) < BlockSize THEN Len(sent) - (Len(sent) \div 2)
       ELSE BlockSize - (BlockSize \div 2)

LagIsKept ==
  /\ buffered = 0 => limit = 0 /\ written = 0 /\ straddled = 0
  /\ buffered # 0 =>
       buffered + straddled = Lag + (IF written <= CallEnd THEN CallEnd ELSE written)

\* A file of a single block has one call before the last one, for half of it.
OneBlock ==
  /\ buffered \in {0, Len(sent)}
  /\ ~finalized /\ limit # 0 => CallEnd < buffered

\* A CR LF is not cut in two.
PrefixIsWritten ==
  /\ out = ConvertedUpto(sent)[written]
  /\ written \in 1 .. (Len(sent) - 1) /\ sent[written] = "CR" => sent[written + 1] # "LF"

Intact ==
  /\ written <= buffered
  /\ BufferHoldsLast
  /\ IF limit = 0 THEN BetweenCalls ELSE InCall
  /\ finalized => buffered = Len(sent)
  /\ ~finalized => LagIsKept
  /\ Len(sent) < BlockSize => OneBlock
  /\ PrefixIsWritten

TextInv ==
  /\ TextTypeOK
  /\ ~lookedPast => Intact
  /\ lookedPast => sent[Len(sent)] = "CR" \/ straddled >= BlockSize \div 2

-----------------------------------------------------------------------------
\* Induction over the numbers, for a set: no operator is needed as a parameter.
LEMMA SetInduction ==
  ASSUME NEW S, 0 \in S, \A n \in Nat : n \in S => n + 1 \in S
  PROVE  Nat \subseteq S
<1> SUFFICES ASSUME Nat \ S # {} PROVE FALSE
  OBVIOUS
<1>1. PICK m \in Nat \ S : \A k \in Nat \ S : m <= k
  BY Least
<1>2. m # 0 /\ m - 1 \in Nat
  BY <1>1
<1>3. m - 1 \in S
  BY <1>1, <1>2
<1> QED
  BY <1>1, <1>2, <1>3

\* What the n-th byte adds to the conversion of those before it.
Converting(file, n, before) ==
  IF file[n] # "LF" THEN Append(before, file[n])
  ELSE IF n > 1 /\ file[n - 1] = "CR" THEN Append(before, "LF")
  ELSE before \o <<"CR", "LF">>

\* The recursion of ConvertedUpto has a solution: by induction over the length
\* there is one for every prefix.
LEMMA ConversionExists ==
  ASSUME NEW file, NEW len \in Nat
  PROVE  \E g : g = [n \in 0 .. len |->
                       IF n = 0 THEN <<>> ELSE Converting(file, n, g[n - 1])]
<1> DEFINE F(g, m) == /\ DOMAIN g = 0 .. m
                      /\ g = [n \in DOMAIN g |-> g[n]]
                      /\ g[0] = <<>>
                      /\ \A n \in 1 .. m : g[n] = Converting(file, n, g[n - 1])
           S == {m \in Nat : \E g : F(g, m)}
<1>1. 0 \in S
  <2>1. F([n \in 0 .. 0 |-> <<>>], 0)
    OBVIOUS
  <2> QED
    BY <2>1
<1>2. ASSUME NEW m \in Nat, m \in S PROVE m + 1 \in S
  <2>1. PICK g : F(g, m)
    BY <1>2
  <2> DEFINE h == [n \in 0 .. (m + 1) |->
                     IF n = m + 1 THEN Converting(file, n, g[m]) ELSE g[n]]
  <2>2. \A n \in 1 .. (m + 1) : h[n] = Converting(file, n, h[n - 1])
    <3> TAKE n \in 1 .. (m + 1)
    <3>1. n - 1 \in 0 .. m /\ h[n - 1] = g[n - 1]
      OBVIOUS
    <3>2. CASE n = m + 1
      BY <3>1, <3>2
    <3>3. CASE n \in 1 .. m
      BY <2>1, <3>1, <3>3
    <3> QED
      BY <3>2, <3>3
  <2>3. DOMAIN h = 0 .. (m + 1) /\ h = [n \in DOMAIN h |-> h[n]]
    OBVIOUS
  <2>4. h[0] = <<>>
    <3>1. 0 \in 0 .. (m + 1) /\ 0 # m + 1
      OBVIOUS
    <3>2. h[0] = g[0]
      BY <3>1
    <3> QED
      BY <2>1, <3>2
  <2> HIDE DEF h
  <2>5. F(h, m + 1)
    BY <2>2, <2>3, <2>4
  <2> QED
    BY <2>5
<1> HIDE DEF S
<1>3. len \in S
  BY <1>1, <1>2, SetInduction
<1>4. PICK g : F(g, len)
  BY <1>3 DEF S
<1>5. g = [n \in 0 .. len |-> IF n = 0 THEN <<>> ELSE Converting(file, n, g[n - 1])]
  BY <1>4
<1> QED
  BY <1>5

LEMMA ConversionStep ==
  ASSUME NEW file \in Seq(Characters)
  PROVE  /\ ConvertedUpto(file)[0] = <<>>
         /\ \A n \in 1 .. Len(file) :
              ConvertedUpto(file)[n] = Converting(file, n, ConvertedUpto(file)[n - 1])
         /\ \A n \in 0 .. Len(file) : ConvertedUpto(file)[n] \in Seq(Characters)
<1> DEFINE g == ConvertedUpto(file)
           len == Len(file)
<1>1. len \in Nat
  OBVIOUS
<1>2. g = CHOOSE u : u = [n \in 0 .. len |->
                            IF n = 0 THEN <<>> ELSE Converting(file, n, u[n - 1])]
  BY DEF ConvertedUpto, Converting
<1>3. \E u : u = [n \in 0 .. len |->
                    IF n = 0 THEN <<>> ELSE Converting(file, n, u[n - 1])]
  BY <1>1, ConversionExists
<1> HIDE DEF g, len
<1>4. g = [n \in 0 .. len |-> IF n = 0 THEN <<>> ELSE Converting(file, n, g[n - 1])]
  BY <1>2, <1>3
<1>5. g[0] = <<>>
  BY <1>1, <1>4
<1>6. \A n \in 1 .. len : g[n] = Converting(file, n, g[n - 1])
  BY <1>1, <1>4
<1>7. \A n \in Nat : n <= len => g[n] \in Seq(Characters)
  <2> DEFINE S == {n \in Nat : n <= len => g[n] \in Seq(Characters)}
  <2>1. 0 \in S
    <3>1. g[0] \in Seq(Characters)
      BY <1>5
    <3> QED
      BY <3>1
  <2>2. ASSUME NEW n \in Nat, n \in S PROVE n + 1 \in S
    <3> SUFFICES ASSUME n + 1 <= len PROVE g[n + 1] \in Seq(Characters)
      OBVIOUS
    <3>1. g[n] \in Seq(Characters) /\ n + 1 \in 1 .. len /\ (n + 1) - 1 = n
      BY <1>1, <2>2
    <3>2. g[n + 1] = Converting(file, n + 1, g[n])
      BY <1>6, <3>1
    <3>3. file[n + 1] \in Characters /\ "CR" \in Characters /\ "LF" \in Characters
      BY <3>1 DEF Characters, len
    <3>4. Append(g[n], file[n + 1]) \in Seq(Characters)
      BY <3>1, <3>3
    <3>5. Append(g[n], "LF") \in Seq(Characters)
      BY <3>1, <3>3
    <3>6. g[n] \o <<"CR", "LF">> \in Seq(Characters)
      BY <3>1, <3>3
    <3> QED
      BY <3>2, <3>4, <3>5, <3>6 DEF Converting
  <2> HIDE DEF S
  <2>3. Nat \subseteq S
    BY <2>1, <2>2, SetInduction
  <2> QED
    BY <2>3 DEF S
<1> QED
  BY <1>1, <1>5, <1>6, <1>7 DEF g, len

-----------------------------------------------------------------------------
LEMMA Half ==
  ASSUME NEW n \in Nat
  PROVE  n \div 2 \in Nat /\ 2 * (n \div 2) <= n /\ n <= 2 * (n \div 2) + 1
OBVIOUS

LEMMA FileFacts ==
  ASSUME TextTypeOK
  PROVE  /\ sent \in Seq(Characters) /\ Len(sent) \in Nat /\ Len(sent) >= 1
         /\ \A i \in 1 .. Len(sent) : sent[i] \in Characters
         /\ BlockSize >= 2
<1>1. /\ sent \in UNION {[1 .. n -> Characters] : n \in 1 .. MaxFile}
      /\ Len(sent) % BlockSize # 0
  BY DEF TextTypeOK, FilesToSend
<1>2. PICK n \in 1 .. MaxFile : sent \in [1 .. n -> Characters]
  BY <1>1
<1>3. sent \in Seq(Characters) /\ Len(sent) = n /\ n \in Nat
  BY <1>2, TextAssumption
<1>4. BlockSize # 1
  BY <1>1, <1>3
<1> QED
  BY <1>2, <1>3, <1>4, TextAssumption

\* The numbers of the loop, as far as types and bounds go.
NumbersOK ==
  /\ buffered \in Nat /\ written \in Nat /\ limit \in Nat /\ processed \in Nat
  /\ straddled \in Nat /\ Lag \in Nat
  /\ BlockSize \in Nat /\ BlockSize >= 2
  /\ BufferSize \in Nat /\ BufferSize >= 2 * BlockSize
  /\ Len(sent) \in Nat /\ Len(sent) >= 1 /\ buffered <= Len(sent)

LEMMA TextNumbers ==
  ASSUME TextTypeOK
  PROVE  NumbersOK
<1>1. /\ Len(sent) \in Nat /\ Len(sent) >= 1 /\ BlockSize \in Nat /\ BlockSize >= 2
  BY FileFacts, TextAssumption
<1>2. Lag \in Nat
  BY <1>1, Half DEF Lag
<1>3. /\ BufferSize \in Nat /\ BufferSize >= 2 * BlockSize
      /\ buffered \in Nat /\ buffered <= Len(sent) /\ written \in Nat /\ limit \in Nat
      /\ processed \in Nat /\ straddled \in Nat
  BY <1>1, TextAssumption DEF TextTypeOK
<1> QED
  BY <1>1, <1>2, <1>3 DEF NumbersOK

LEMMA NextPrefix ==
  ASSUME TextTypeOK, NEW n \in Nat, n < Len(sent)
  PROVE  /\ ConvertedUpto(sent)[n + 1] = Converting(sent, n + 1, ConvertedUpto(sent)[n])
         /\ ConvertedUpto(sent)[n] \in Seq(Characters)
<1>0. NumbersOK
  BY TextNumbers
<1> DEFINE g == ConvertedUpto(sent)
<1>1. /\ \A k \in 1 .. Len(sent) : g[k] = Converting(sent, k, g[k - 1])
      /\ \A k \in 0 .. Len(sent) : g[k] \in Seq(Characters)
  BY FileFacts, ConversionStep
<1>2. n + 1 \in 1 .. Len(sent) /\ n \in 0 .. Len(sent) /\ (n + 1) - 1 = n
  BY <1>0 DEF NumbersOK
<1> HIDE DEF g
<1>3. g[n + 1] = Converting(sent, n + 1, g[(n + 1) - 1]) /\ g[n] \in Seq(Characters)
  BY <1>1, <1>2
<1> QED
  BY <1>2, <1>3 DEF g

LEMMA BufferDivision ==
  ASSUME NEW a \in Nat
  PROVE  /\ a \div BufferSize \in Nat /\ (a % BufferSize) \in 0 .. (BufferSize - 1)
         /\ a = BufferSize * (a \div BufferSize) + (a % BufferSize)
BY TextAssumption, SMTT(30)

\* Less than a buffer apart, two bytes have different places.
LEMMA PlacesApart ==
  ASSUME NEW a \in Nat, NEW b \in Nat, a < b, b - a < BufferSize
  PROVE  a % BufferSize # b % BufferSize
<1> DEFINE p == a \div BufferSize
           q == b \div BufferSize
<1>1. p \in Nat /\ q \in Nat /\ BufferSize \in Nat
  BY BufferDivision, TextAssumption
<1> SUFFICES ASSUME a % BufferSize = b % BufferSize PROVE FALSE
  OBVIOUS
<1>2. /\ (a % BufferSize) \in Int /\ a = BufferSize * p + (a % BufferSize)
      /\ b = BufferSize * q + (a % BufferSize)
  BY BufferDivision
<1> HIDE DEF p, q
<1>3. BufferSize * (q - p) = b - a
  <2>1. BufferSize * (q - p) = BufferSize * q - BufferSize * p
    BY <1>1, SMTT(30)
  <2>2. BufferSize * p \in Int /\ BufferSize * q \in Int
    BY <1>1
  <2> QED
    BY <1>2, <2>1, <2>2
<1>4. ASSUME q - p >= 1 PROVE BufferSize * (q - p) >= BufferSize
  BY <1>1, <1>4, SMTT(30)
<1>5. ASSUME q - p <= 0 PROVE BufferSize * (q - p) <= 0
  BY <1>1, <1>5, SMTT(30)
<1> QED
  BY <1>1, <1>3, <1>4, <1>5

\* What a turn of the loop looks at.
LEMMA TurnFacts ==
  ASSUME TextTypeOK, Intact, Turn
  PROVE  /\ InCall /\ limit # 0 /\ processed < limit
         /\ written < CallEnd /\ CallEnd \in Nat /\ written < buffered
         /\ At(written) = sent[written + 1] /\ sent[written + 1] \in Characters
         /\ written + 1 < buffered => At(written + 1) = sent[written + 2]
<1>0. NumbersOK
  BY TextNumbers
<1>1. limit # 0 /\ processed < limit
  BY DEF Turn, InBufferOut
<1>2. InCall
  BY <1>1 DEF Intact
<1>3. /\ written < CallEnd /\ CallEnd \in Nat /\ written < buffered
      /\ buffered - BufferSize <= written
  BY <1>1, <1>2, <1>0 DEF InCall, CallEnd, NumbersOK
<1>4. At(written) = sent[written + 1]
  BY <1>3, <1>0 DEF Intact, BufferHoldsLast, NumbersOK
<1>5. written + 1 < buffered => At(written + 1) = sent[written + 2]
  <2> SUFFICES ASSUME written + 1 < buffered PROVE At(written + 1) = sent[written + 2]
    OBVIOUS
  <2>1. /\ written + 1 \in 0 .. (buffered - 1) /\ buffered - BufferSize <= written + 1
        /\ (written + 1) + 1 = written + 2
    BY <1>3, <1>0 DEF NumbersOK
  <2> QED
    BY <2>1 DEF Intact, BufferHoldsLast
<1>6. sent[written + 1] \in Characters
  <2>1. written + 1 \in 1 .. Len(sent)
    BY <1>3, <1>0 DEF NumbersOK
  <2> QED
    BY <2>1, FileFacts
<1> QED
  BY <1>1, <1>2, <1>3, <1>4, <1>5, <1>6

\* A byte that has not come is looked at behind the last one of the file, or
\* when the lag is used up.
LEMMA LooksPast ==
  ASSUME TextTypeOK, Intact, Turn, At(written) = "CR", written + 1 >= buffered
  PROVE  sent[Len(sent)] = "CR" \/ straddled >= BlockSize \div 2
<1>0. NumbersOK
  BY TextNumbers
<1>1. written + 1 = buffered /\ CallEnd = buffered
  BY TurnFacts, <1>0 DEF InCall, NumbersOK
<1>2. CASE finalized
  BY <1>1, <1>2, TurnFacts, <1>0 DEF Intact, NumbersOK
<1>3. CASE ~finalized
  <2>1. buffered + straddled = Lag + buffered
    BY <1>1, <1>3, TurnFacts, <1>0 DEF Intact, LagIsKept, NumbersOK
  <2>2. straddled = Lag
    BY <2>1, <1>0 DEF NumbersOK
  <2>3. CASE Len(sent) < BlockSize
    BY <1>1, <1>3, <2>3, TurnFacts, <1>0 DEF Intact, OneBlock, NumbersOK
  <2>4. CASE ~(Len(sent) < BlockSize)
    BY <2>2, <2>4, <1>0, Half DEF Lag, NumbersOK
  <2> QED
    BY <2>3, <2>4
<1> QED
  BY <1>2, <1>3

-----------------------------------------------------------------------------
\* A turn that takes k bytes keeps to the lag; what it writes is left to the
\* lemmas that follow.
LEMMA TurnKeeps ==
  ASSUME TextTypeOK, Intact, Turn, NEW k \in {1, 2}, written + k <= buffered,
         written' = written + k, processed' = processed + k,
         straddled' = straddled + (IF processed + k > limit THEN 1 ELSE 0),
         UNCHANGED <<sent, buffer, buffered, limit, finalized>>,
         PrefixIsWritten'
  PROVE  Intact'
<1>0. NumbersOK
  BY TextNumbers
<1>1. /\ sent' = sent /\ buffer' = buffer /\ buffered' = buffered /\ limit' = limit
      /\ finalized' = finalized
  OBVIOUS
<1>2. /\ written \in Nat /\ processed \in Nat /\ limit \in Nat /\ straddled \in Nat
      /\ buffered \in Nat /\ Lag \in Nat /\ BlockSize \in Nat /\ written < CallEnd
      /\ limit # 0 /\ processed < limit
  BY <1>0, TurnFacts DEF NumbersOK
<1>3. CallEnd' = CallEnd
  BY <1>1, <1>2 DEF CallEnd
<1>4. BufferHoldsLast'
  BY <1>1 DEF Intact, BufferHoldsLast, At
<1>5. InCall'
  <2>1. InCall
    BY TurnFacts
  <2>2. processed' <= limit' + 1 /\ processed' <= written'
    BY <1>1, <1>2, <2>1 DEF InCall
  <2>3. written' = processed' => written = processed
    BY <1>2
  <2> QED
    BY <1>1, <1>3, <2>1, <2>2, <2>3 DEF InCall
<1>6. ASSUME ~finalized PROVE LagIsKept'
  <2>1. buffered # 0 /\ buffered + straddled = Lag + CallEnd
    BY <1>2, <1>6, TurnFacts DEF Intact, LagIsKept
  <2>2. Lag' = Lag
    BY <1>1 DEF Lag
  <2>3. processed + k > limit <=> ~(written' <= CallEnd)
    BY <1>2 DEF CallEnd
  <2>4. processed + k > limit => written' = CallEnd + 1
    BY <1>2 DEF CallEnd
  <2>5. buffered' # 0 /\ (IF written' <= CallEnd' THEN CallEnd' ELSE written')
                             = CallEnd + (IF processed + k > limit THEN 1 ELSE 0)
    BY <1>1, <1>2, <1>3, <2>1, <2>3, <2>4 DEF CallEnd
  <2>6. buffered' + straddled' = Lag' + (CallEnd + (IF processed + k > limit THEN 1 ELSE 0))
    <3>1. CallEnd \in Int
      BY <1>2 DEF CallEnd
    <3>2. CASE processed + k > limit
      BY <1>1, <1>2, <2>1, <2>2, <3>1, <3>2
    <3>3. CASE ~(processed + k > limit)
      BY <1>1, <1>2, <2>1, <2>2, <3>1, <3>3
    <3> QED
      BY <3>2, <3>3
  <2> QED
    BY <2>5, <2>6 DEF LagIsKept
<1>7. ASSUME Len(sent) < BlockSize PROVE OneBlock'
  BY <1>1, <1>3, <1>7 DEF Intact, OneBlock
<1> QED
  BY <1>1, <1>2, <1>4, <1>5, <1>6, <1>7 DEF Intact

LEMMA TurnTyped ==
  ASSUME TextTypeOK, NEW k \in Nat, written' = written + k, processed' = processed + k,
         straddled' \in {straddled, straddled + 1}, lookedPast' \in BOOLEAN,
         UNCHANGED <<sent, buffer, buffered, limit, finalized>>
  PROVE  TextTypeOK'
BY TextNumbers DEF TextTypeOK, NumbersOK

\* The bytes of a CR LF are written as they are.
LEMMA TurnCrLfKeeps ==
  ASSUME TextInv, TurnCrLf
  PROVE  TextInv'
<1>0. NumbersOK
  BY TextNumbers DEF TextInv
<1>1. /\ Turn /\ SeesCrLf /\ written' = written + 2 /\ processed' = processed + 2
      /\ straddled' = straddled + (IF processed + 2 > limit THEN 1 ELSE 0)
      /\ lookedPast' = (lookedPast \/ written + 1 >= buffered)
      /\ UNCHANGED <<sent, buffer, buffered, limit, finalized>>
      /\ out' = out \o <<"CR", "LF">>
  BY DEF TurnCrLf
<1>2. At(written) = "CR" /\ At(written + 1) = "LF"
  BY <1>1 DEF SeesCrLf, LooksAhead
<1>3. TextTypeOK
  BY DEF TextInv
<1>4. TextTypeOK'
  <2>1. straddled' \in {straddled, straddled + 1} /\ lookedPast' \in BOOLEAN
    BY <1>1, <1>3, <1>0 DEF TextTypeOK, NumbersOK
  <2> QED
    BY <1>1, <1>3, <2>1, TurnTyped
<1>5. ASSUME ~lookedPast' PROVE Intact'
  <2>1. Intact /\ written + 2 <= buffered /\ written + 1 < buffered
    <3>1. ~lookedPast /\ ~(written + 1 >= buffered)
      BY <1>1, <1>5
    <3> QED
      BY <1>3, <3>1, <1>0 DEF TextInv, NumbersOK
  <2>2. sent[written + 1] = "CR" /\ sent[written + 2] = "LF"
    BY <1>1, <1>2, <1>3, <2>1, TurnFacts
  <2>3. written + 1 \in 1 .. Len(sent) /\ written + 2 \in 1 .. Len(sent)
        /\ (written + 2) - 1 = written + 1 /\ (written + 1) - 1 = written
        /\ (written + 1) + 1 = written + 2 /\ written < Len(sent) /\ written + 1 < Len(sent)
        /\ written \in Nat /\ written + 1 \in Nat
    BY <1>3, <2>1, <1>0 DEF NumbersOK
  <2> DEFINE g == ConvertedUpto(sent)
  <2>4. /\ g[written + 1] = Converting(sent, written + 1, g[written])
        /\ g[written + 2] = Converting(sent, written + 2, g[written + 1])
        /\ g[written] \in Seq(Characters)
    <3>1. g[(written + 1) + 1] = Converting(sent, (written + 1) + 1, g[written + 1])
      BY <1>3, <2>3, NextPrefix
    <3>2. /\ g[written + 1] = Converting(sent, written + 1, g[written])
          /\ g[written] \in Seq(Characters)
      BY <1>3, <2>3, NextPrefix
    <3> QED
      BY <2>3, <3>1, <3>2
  <2> HIDE DEF g
  <2>5. /\ g[written + 1] = Append(g[written], "CR")
        /\ g[written + 2] = Append(g[written + 1], "LF")
    <3>1. written + 2 > 1
      BY <2>3
    <3> QED
      BY <2>2, <2>3, <2>4, <3>1 DEF Converting
  <2>6. g[written + 2] = g[written] \o <<"CR", "LF">>
    <3>1. "CR" \in Characters /\ "LF" \in Characters
      BY DEF Characters
    <3>2. \A s \in Seq(Characters) : Append(Append(s, "CR"), "LF") = s \o <<"CR", "LF">>
      BY <3>1
    <3> QED
      BY <2>4, <2>5, <3>2
  <2>7. PrefixIsWritten'
    BY <1>1, <2>1, <2>2, <2>6 DEF Intact, PrefixIsWritten, g
  <2> QED
    BY <1>1, <1>3, <2>1, <2>7, TurnKeeps
<1>6. ASSUME lookedPast' PROVE (sent[Len(sent)] = "CR" \/ straddled >= BlockSize \div 2)'
  <2>1. sent[Len(sent)] = "CR" \/ straddled >= BlockSize \div 2
    BY <1>1, <1>2, <1>3, <1>6, LooksPast DEF TextInv
  <2>2. straddled' \in {straddled, straddled + 1} /\ sent' = sent
    <3>1. /\ straddled' = straddled + (IF processed + 2 > limit THEN 1 ELSE 0)
          /\ sent' = sent
      BY <1>1
    <3>2. straddled \in Nat
      BY <1>3, <1>0 DEF NumbersOK
    <3> QED
      BY <3>1, <3>2
  <2>3. straddled' >= straddled /\ straddled \in Nat /\ straddled' \in Nat
    BY <1>3, <2>2, <1>0 DEF NumbersOK
  <2>4. BlockSize \div 2 \in Nat
    BY <1>3, <1>0, Half DEF NumbersOK
  <2>5. straddled >= BlockSize \div 2 => straddled' >= BlockSize \div 2
    BY <2>3, <2>4
  <2> QED
    BY <2>1, <2>2, <2>5
<1> QED
  BY <1>4, <1>5, <1>6 DEF TextInv

\* A LF that is met by itself has no CR before it.
LEMMA TurnLfKeeps ==
  ASSUME TextInv, TurnLf
  PROVE  TextInv'
<1>0. NumbersOK
  BY TextNumbers DEF TextInv
<1>1. /\ Turn /\ At(written) = "LF" /\ written' = written + 1 /\ processed' = processed + 1
      /\ straddled' = straddled /\ lookedPast' = lookedPast
      /\ UNCHANGED <<sent, buffer, buffered, limit, finalized>>
      /\ out' = out \o <<"CR", "LF">>
  BY DEF TurnLf
<1>2. TextTypeOK
  BY DEF TextInv
<1>3. TextTypeOK'
  BY <1>1, <1>2, TurnTyped DEF TextTypeOK
<1>4. ASSUME ~lookedPast' PROVE Intact'
  <2>1. Intact /\ written < buffered /\ processed < limit /\ sent[written + 1] = "LF"
    BY <1>1, <1>2, <1>4, TurnFacts DEF TextInv
  <2>2. written + 1 \in 1 .. Len(sent) /\ written + 1 <= buffered
        /\ (written + 1) - 1 = written /\ written \in Nat /\ written < Len(sent)
    BY <1>2, <2>1, <1>0 DEF NumbersOK
  <2> DEFINE g == ConvertedUpto(sent)
  <2>3. g[written + 1] = Converting(sent, written + 1, g[written])
    BY <1>2, <2>2, NextPrefix
  <2> HIDE DEF g
  <2>4. ~(written + 1 > 1 /\ sent[written] = "CR")
    <3> SUFFICES ASSUME written + 1 > 1, sent[written] = "CR" PROVE FALSE
      OBVIOUS
    <3>1. written \in 1 .. (Len(sent) - 1)
      BY <1>2, <2>2, <1>0 DEF NumbersOK
    <3> QED
      BY <2>1, <3>1 DEF Intact, PrefixIsWritten
  <2>5. g[written + 1] = g[written] \o <<"CR", "LF">>
    BY <2>1, <2>2, <2>3, <2>4 DEF Converting
  <2>6. PrefixIsWritten'
    BY <1>1, <2>1, <2>5 DEF Intact, PrefixIsWritten, g
  <2>7. straddled' = straddled + (IF processed + 1 > limit THEN 1 ELSE 0)
    BY <1>1, <1>2, <2>1, <1>0 DEF NumbersOK
  <2> QED
    BY <1>1, <1>2, <2>1, <2>2, <2>6, <2>7, TurnKeeps
<1>5. ASSUME lookedPast' PROVE (sent[Len(sent)] = "CR" \/ straddled >= BlockSize \div 2)'
  BY <1>1, <1>5 DEF TextInv
<1> QED
  BY <1>3, <1>4, <1>5 DEF TextInv

\* A CR is taken for one that stands alone if the byte behind it is no LF, or
\* if it is the last of a file.
LEMMA TurnOtherKeeps ==
  ASSUME TextInv, TurnOther
  PROVE  TextInv'
<1>0. NumbersOK
  BY TextNumbers DEF TextInv
<1>1. /\ Turn /\ ~SeesCrLf /\ At(written) # "LF"
      /\ written' = written + 1 /\ processed' = processed + 1
      /\ straddled' = straddled
      /\ lookedPast' = (lookedPast \/ (LooksAhead /\ written + 1 >= buffered))
      /\ UNCHANGED <<sent, buffer, buffered, limit, finalized>>
      /\ out' = Append(out, At(written))
  BY DEF TurnOther
<1>2. TextTypeOK
  BY DEF TextInv
<1>3. TextTypeOK'
  BY <1>1, <1>2, TurnTyped DEF TextTypeOK, LooksAhead
<1>4. ASSUME ~lookedPast' PROVE Intact'
  <2>1. Intact /\ ~(LooksAhead /\ written + 1 >= buffered)
    BY <1>1, <1>4 DEF TextInv
  <2>2. /\ InCall /\ limit # 0 /\ processed < limit /\ written < CallEnd /\ CallEnd \in Nat
        /\ written < buffered /\ At(written) = sent[written + 1]
        /\ written + 1 < buffered => At(written + 1) = sent[written + 2]
    BY <1>1, <1>2, <2>1, TurnFacts
  <2>3. written + 1 \in 1 .. Len(sent) /\ written + 1 <= buffered
        /\ (written + 1) - 1 = written /\ written \in Nat /\ (written + 1) + 1 = written + 2
        /\ written < Len(sent)
    <3>1. written < buffered
      BY <2>2
    <3> QED
      BY <1>2, <3>1, <1>0 DEF NumbersOK
  <2> DEFINE g == ConvertedUpto(sent)
  <2>4. g[written + 1] = Converting(sent, written + 1, g[written])
    BY <1>2, <2>3, NextPrefix
  <2> HIDE DEF g
  <2>5. g[written + 1] = Append(g[written], sent[written + 1])
    BY <1>1, <2>2, <2>4 DEF Converting
  <2>6. ASSUME written + 1 \in 1 .. (Len(sent) - 1), sent[written + 1] = "CR"
        PROVE  sent[written + 2] # "LF"
    <3>1. CASE processed + 1 < buffered
      <4>1. LooksAhead
        BY <2>2, <2>6, <3>1 DEF LooksAhead
      <4>2. written + 1 < buffered
        BY <1>2, <2>1, <4>1, <1>0 DEF NumbersOK
      <4> QED
        BY <1>1, <2>2, <4>1, <4>2 DEF SeesCrLf
    <3>2. CASE ~(processed + 1 < buffered)
      <4>1. written = processed /\ ~(limit < buffered)
        BY <1>2, <2>2, <3>2, <1>0 DEF InCall, CallEnd, NumbersOK
      <4>2. buffered = Len(sent) /\ written + 1 = buffered
        BY <1>2, <2>2, <3>2, <4>1, <1>0 DEF InCall, NumbersOK
      <4> QED
        BY <1>2, <2>6, <4>2, <1>0 DEF NumbersOK
    <3> QED
      BY <3>1, <3>2
  <2>7. PrefixIsWritten'
    BY <1>1, <2>1, <2>2, <2>3, <2>5, <2>6 DEF Intact, PrefixIsWritten, g
  <2>8. straddled' = straddled + (IF processed + 1 > limit THEN 1 ELSE 0)
    BY <1>1, <1>2, <2>2, <1>0 DEF NumbersOK
  <2> QED
    BY <1>1, <1>2, <2>1, <2>3, <2>7, <2>8, TurnKeeps
<1>5. ASSUME lookedPast' PROVE (sent[Len(sent)] = "CR" \/ straddled >= BlockSize \div 2)'
  <2>1. CASE lookedPast
    BY <1>1, <2>1 DEF TextInv
  <2>2. CASE ~lookedPast
    <3>1. At(written) = "CR" /\ written + 1 >= buffered /\ Intact
      BY <1>1, <1>5, <2>2 DEF TextInv, LooksAhead
    <3> QED
      BY <1>1, <1>2, <3>1, LooksPast
  <2> QED
    BY <2>1, <2>2
<1> QED
  BY <1>3, <1>4, <1>5 DEF TextInv

-----------------------------------------------------------------------------
\* The loop is left behind the end of the call, or right at it.
LEMMA EndBufferOutKeeps ==
  ASSUME TextInv, EndBufferOut
  PROVE  TextInv'
<1>0. NumbersOK
  BY TextNumbers DEF TextInv
<1>1. /\ limit # 0 /\ processed >= limit /\ limit' = 0
      /\ sent' = sent /\ buffer' = buffer /\ buffered' = buffered /\ written' = written
      /\ processed' = processed /\ out' = out /\ straddled' = straddled
      /\ lookedPast' = lookedPast /\ finalized' = finalized
  BY DEF EndBufferOut, InBufferOut
<1>2. TextTypeOK
  BY DEF TextInv
<1>3. TextTypeOK'
  BY <1>1, <1>2 DEF TextTypeOK
<1>4. ASSUME ~lookedPast PROVE Intact'
  <2>1. Intact /\ InCall
    BY <1>1, <1>4 DEF TextInv, Intact
  <2>2. /\ written \in Nat /\ processed \in Nat /\ limit \in Nat /\ straddled \in Nat
        /\ buffered \in Nat /\ Lag \in Nat /\ BlockSize \in Nat /\ written <= buffered
    BY <1>2, <2>1, <1>0 DEF Intact, NumbersOK
  <2>3. CallEnd <= written /\ CallEnd' <= written' /\ CallEnd \in Int
        /\ (written <= CallEnd => CallEnd = written)
    BY <1>1, <2>2 DEF CallEnd
  <2>4. BetweenCalls'
    <3>1. buffered' <= written' + BlockSize /\ written' # 0
      BY <1>1, <2>1, <2>2, <2>3 DEF InCall
    <3>2. finalized' => written' = buffered'
      BY <1>1, <2>1, <2>2, <2>3 DEF InCall
    <3> QED
      BY <3>1, <3>2 DEF BetweenCalls
  <2>5. ASSUME ~finalized PROVE LagIsKept'
    <3>1. buffered # 0
      BY <1>1, <2>1, <2>5 DEF Intact, LagIsKept
    <3>2. buffered + straddled = Lag + written
      BY <2>1, <2>3, <2>5, <3>1 DEF Intact, LagIsKept
    <3>3. Lag' = Lag
      BY <1>1 DEF Lag
    <3>4. (IF written' <= CallEnd' THEN CallEnd' ELSE written') = written
      BY <1>1, <2>2, <2>3 DEF CallEnd
    <3> QED
      BY <1>1, <3>1, <3>2, <3>3, <3>4 DEF LagIsKept
  <2>6. BufferHoldsLast' /\ PrefixIsWritten'
    BY <1>1, <2>1 DEF Intact, BufferHoldsLast, PrefixIsWritten, At
  <2>7. ASSUME Len(sent) < BlockSize PROVE OneBlock'
    BY <1>1, <2>1, <2>7 DEF Intact, OneBlock
  <2> QED
    BY <1>1, <2>1, <2>4, <2>5, <2>6, <2>7 DEF Intact
<1> QED
  BY <1>1, <1>3, <1>4 DEF TextInv

LEMMA FinalizeKeeps ==
  ASSUME TextInv, Finalize
  PROVE  TextInv'
<1>0. NumbersOK
  BY TextNumbers DEF TextInv
<1>1. /\ limit = 0 /\ buffered = Len(sent) /\ ~finalized /\ finalized' = TRUE
      /\ limit' = (IF buffered > written THEN buffered - written ELSE 0) /\ processed' = 0
      /\ sent' = sent /\ buffer' = buffer /\ buffered' = buffered /\ written' = written
      /\ out' = out /\ straddled' = straddled /\ lookedPast' = lookedPast
  BY DEF Finalize, InBufferOut
<1>2. TextTypeOK
  BY DEF TextInv
<1>3. /\ written \in Nat /\ processed \in Nat /\ straddled \in Nat
      /\ buffered \in Nat /\ BlockSize \in Nat
  BY <1>2, <1>0 DEF NumbersOK
<1>4. TextTypeOK'
  <2>1. limit' \in Nat /\ processed' \in Nat
    BY <1>1, <1>3
  <2> QED
    BY <1>1, <1>2, <2>1 DEF TextTypeOK
<1>5. ASSUME ~lookedPast PROVE Intact'
  <2>1. Intact /\ BetweenCalls /\ written <= buffered
    BY <1>1, <1>5 DEF TextInv, Intact
  <2>2. CASE written = buffered
    <3>1. limit' = 0
      BY <1>1, <1>3, <2>2
    <3>2. BetweenCalls'
      BY <1>1, <1>3, <2>1, <2>2 DEF BetweenCalls
    <3>3. BufferHoldsLast' /\ PrefixIsWritten'
      BY <1>1, <2>1 DEF Intact, BufferHoldsLast, PrefixIsWritten, At
    <3>4. ASSUME Len(sent) < BlockSize PROVE OneBlock'
      BY <1>1, <2>1, <3>4 DEF Intact, OneBlock
    <3> QED
      BY <1>1, <2>1, <3>1, <3>2, <3>3, <3>4 DEF Intact
  <2>3. CASE written < buffered
    <3>1. limit' = buffered - written /\ limit' # 0 /\ limit' \in Nat
      BY <1>1, <1>3, <2>3
    <3>2. CallEnd' = buffered
      BY <1>1, <1>3, <3>1 DEF CallEnd
    <3>3. limit' <= BlockSize
      BY <1>3, <2>1, <3>1 DEF BetweenCalls
    <3>4. InCall'
      BY <1>1, <1>3, <3>1, <3>2, <3>3 DEF InCall
    <3>5. BufferHoldsLast' /\ PrefixIsWritten'
      BY <1>1, <2>1 DEF Intact, BufferHoldsLast, PrefixIsWritten, At
    <3>6. ASSUME Len(sent) < BlockSize PROVE OneBlock'
      BY <1>1, <2>1, <3>6 DEF Intact, OneBlock
    <3> QED
      BY <1>1, <2>1, <3>1, <3>4, <3>5, <3>6 DEF Intact
  <2> QED
    BY <1>3, <2>1, <2>2, <2>3
<1> QED
  BY <1>1, <1>4, <1>5 DEF TextInv

\* A block that comes is put behind the bytes that were not yet written, and
\* over older ones.
LEMMA BlockIsBuffered ==
  ASSUME TextTypeOK, BufferHoldsLast, WriteBlock
  PROVE  /\ BlockLength \in 1 .. BlockSize /\ buffered + BlockLength <= Len(sent)
         /\ buffer' \in [0 .. (BufferSize - 1) -> Characters]
         /\ BufferHoldsLast'
<1>0. NumbersOK
  BY TextNumbers
<1> DEFINE n == BlockLength
           place(k) == (buffered + k) % BufferSize
<1>1. /\ buffered < Len(sent) /\ buffered' = buffered + n /\ sent' = sent
      /\ buffer' = [i \in DOMAIN buffer |->
                      IF \E k \in 0 .. (n - 1) : i = place(k)
                      THEN sent[1 + buffered + (CHOOSE k \in 0 .. (n - 1) : i = place(k))]
                      ELSE buffer[i]]
  BY DEF WriteBlock
<1>2. /\ buffered \in Nat /\ BlockSize \in Nat /\ BlockSize >= 2 /\ BufferSize \in Nat
      /\ BlockSize <= BufferSize /\ Len(sent) \in Nat
  BY <1>0 DEF NumbersOK
<1>3. n \in 1 .. BlockSize /\ buffered + n <= Len(sent)
  BY <1>1, <1>2 DEF BlockLength
<1> HIDE DEF n
<1>4. ASSUME NEW k \in 0 .. (n - 1), NEW j \in 0 .. (n - 1), place(k) = place(j)
      PROVE  k = j
  <2>1. buffered + k \in Nat /\ buffered + j \in Nat
    BY <1>2, <1>3
  <2>2. CASE k < j
    <3>1. buffered + k < buffered + j /\ (buffered + j) - (buffered + k) < BufferSize
      BY <1>2, <1>3, <2>2
    <3> QED
      BY <1>4, <2>1, <3>1, PlacesApart
  <2>3. CASE j < k
    <3>1. buffered + j < buffered + k /\ (buffered + k) - (buffered + j) < BufferSize
      BY <1>2, <1>3, <2>3
    <3> QED
      BY <1>4, <2>1, <3>1, PlacesApart
  <2> QED
    BY <1>3, <2>2, <2>3
<1>5. DOMAIN buffer = 0 .. (BufferSize - 1) /\ \A i \in DOMAIN buffer : buffer[i] \in Characters
  BY DEF TextTypeOK
<1>6. ASSUME NEW k \in 0 .. (n - 1)
      PROVE  buffer'[place(k)] = sent[1 + buffered + k]
  <2>1. place(k) \in DOMAIN buffer
    <3>1. buffered + k \in Nat
      BY <1>2, <1>3
    <3> QED
      BY <1>5, <3>1, BufferDivision
  <2> DEFINE c == CHOOSE j \in 0 .. (n - 1) : place(k) = place(j)
  <2>2. c \in 0 .. (n - 1) /\ place(k) = place(c)
    OBVIOUS
  <2>3. c = k
    BY <1>4, <2>2
  <2>4. buffer'[place(k)] = sent[1 + buffered + c]
    BY <1>1, <2>1
  <2> QED
    BY <2>3, <2>4
<1>7. ASSUME NEW i \in DOMAIN buffer, \A k \in 0 .. (n - 1) : i # place(k)
      PROVE  buffer'[i] = buffer[i]
  BY <1>1, <1>7
<1>8. buffer' \in [0 .. (BufferSize - 1) -> Characters]
  <2>1. DOMAIN buffer' = 0 .. (BufferSize - 1) /\ buffer' = [i \in DOMAIN buffer' |-> buffer'[i]]
    BY <1>1, <1>5
  <2>2. ASSUME NEW i \in DOMAIN buffer PROVE buffer'[i] \in Characters
    <3>1. CASE \E k \in 0 .. (n - 1) : i = place(k)
      <4>1. PICK k \in 0 .. (n - 1) : i = place(k)
        BY <3>1
      <4>2. 1 + buffered + k \in 1 .. Len(sent)
        BY <1>2, <1>3
      <4>3. sent[1 + buffered + k] \in Characters
        BY <4>2, FileFacts
      <4> QED
        BY <1>6, <4>1, <4>3
    <3>2. CASE \A k \in 0 .. (n - 1) : i # place(k)
      BY <1>5, <1>7, <3>2
    <3> QED
      BY <3>1, <3>2
  <2> QED
    BY <1>5, <2>1, <2>2
<1>9. ASSUME NEW i \in 0 .. (buffered + n - 1), buffered + n - BufferSize <= i
      PROVE  buffer'[i % BufferSize] = sent[i + 1]
  <2>1. CASE i >= buffered
    <3>1. i - buffered \in 0 .. (n - 1) /\ buffered + (i - buffered) = i
          /\ 1 + buffered + (i - buffered) = i + 1
      BY <1>2, <1>3, <2>1
    <3> QED
      BY <1>6, <3>1
  <2>2. CASE i < buffered
    <3>1. ASSUME NEW k \in 0 .. (n - 1) PROVE i % BufferSize # place(k)
      <4>1. /\ buffered + k \in Nat /\ i \in Nat /\ i < buffered + k
            /\ (buffered + k) - i < BufferSize
        BY <1>2, <1>3, <1>9, <2>2
      <4> QED
        BY <4>1, PlacesApart
    <3>2. i \in 0 .. (buffered - 1) /\ buffered - BufferSize <= i /\ i \in Nat
      BY <1>2, <1>3, <1>9, <2>2
    <3>3. buffer[i % BufferSize] = sent[i + 1]
      BY <3>2 DEF BufferHoldsLast, At
    <3>4. i % BufferSize \in DOMAIN buffer
      BY <1>5, <3>2, BufferDivision
    <3> QED
      BY <1>7, <3>1, <3>3, <3>4
  <2> QED
    BY <1>2, <2>1, <2>2
<1>10. BufferHoldsLast'
  <2>1. buffered' = buffered + n /\ sent' = sent
    BY <1>1
  <2>2. ASSUME NEW i \in 0 .. (buffered' - 1), buffered' - BufferSize <= i
        PROVE  buffer'[i % BufferSize] = sent'[i + 1]
    <3>1. i \in 0 .. (buffered + n - 1) /\ buffered + n - BufferSize <= i
      BY <1>2, <1>3, <2>1, <2>2
    <3> QED
      BY <1>9, <2>1, <3>1
  <2> QED
    BY <2>2 DEF BufferHoldsLast, At
<1> QED
  BY <1>3, <1>8, <1>10 DEF n

\* The first call is for half of the block, each later one for as many bytes as
\* came.
LEMMA WriteBlockKeeps ==
  ASSUME TextInv, WriteBlock
  PROVE  TextInv'
<1>0. NumbersOK
  BY TextNumbers DEF TextInv
<1> DEFINE n == BlockLength
<1>1. /\ limit = 0 /\ buffered < Len(sent) /\ buffered' = buffered + n
      /\ limit' = Share(n) /\ processed' = 0
      /\ sent' = sent /\ written' = written /\ out' = out /\ straddled' = straddled
      /\ lookedPast' = lookedPast /\ finalized' = finalized
  BY DEF WriteBlock, InBufferOut
<1>2. TextTypeOK
  BY DEF TextInv
<1>3. /\ written \in Nat /\ processed \in Nat /\ straddled \in Nat /\ Len(sent) \in Nat
      /\ buffered \in Nat /\ BlockSize \in Nat /\ BlockSize >= 2 /\ Lag \in Nat
  BY <1>2, <1>0 DEF NumbersOK
<1>4. /\ n = IF buffered + BlockSize <= Len(sent) THEN BlockSize ELSE Len(sent) - buffered
      /\ n \in Nat /\ 1 <= n /\ n <= BlockSize /\ buffered + n <= Len(sent)
  BY <1>1, <1>3 DEF BlockLength
<1> DEFINE half == n \div 2
<1>5. Share(n) = IF written = 0 THEN half ELSE n
  BY DEF Share
<1> HIDE DEF n
<1>6. half \in Nat /\ 2 * half <= n /\ n <= 2 * half + 1
  BY <1>4, Half
<1> HIDE DEF half
<1>7. limit' \in Nat /\ limit' <= n
  BY <1>1, <1>4, <1>5, <1>6
<1>8. CASE lookedPast
  <2>1. buffer' \in [0 .. (BufferSize - 1) -> Characters]
    <3>1. buffer' = [i \in DOMAIN buffer |->
                       IF \E k \in 0 .. (n - 1) : i = (buffered + k) % BufferSize
                       THEN sent[1 + buffered + (CHOOSE k \in 0 .. (n - 1) :
                                                   i = (buffered + k) % BufferSize)]
                       ELSE buffer[i]]
      BY DEF WriteBlock, n
    <3>2. ASSUME NEW k \in 0 .. (n - 1) PROVE sent[1 + buffered + k] \in Characters
      <4>1. 1 + buffered + k \in 1 .. Len(sent)
        BY <1>3, <1>4
      <4> QED
        BY <1>2, <4>1, FileFacts
    <3>3. \A i \in DOMAIN buffer : buffer[i] \in Characters
      BY <1>2 DEF TextTypeOK
    <3>4. DOMAIN buffer = 0 .. (BufferSize - 1)
      BY <1>2 DEF TextTypeOK
    <3> QED
      BY <3>1, <3>2, <3>3, <3>4
  <2>2. TextTypeOK'
    BY <1>1, <1>2, <1>3, <1>4, <1>7, <2>1 DEF TextTypeOK
  <2> QED
    BY <1>1, <1>8, <2>2 DEF TextInv
<1>9. CASE ~lookedPast
  <2>1. Intact /\ BetweenCalls /\ ~finalized /\ LagIsKept /\ BufferHoldsLast /\ PrefixIsWritten
    BY <1>1, <1>9 DEF TextInv, Intact
  <2>2. written <= buffered
    BY <2>1 DEF Intact
  <2>3. buffer' \in [0 .. (BufferSize - 1) -> Characters] /\ BufferHoldsLast'
    BY <1>2, <2>1, BlockIsBuffered
  <2>4. TextTypeOK'
    BY <1>1, <1>2, <1>3, <1>4, <1>7, <2>3 DEF TextTypeOK
  <2>5. CallEnd' = written + limit'
    BY <1>1, <1>3, <1>7 DEF CallEnd
  <2>6. written' <= buffered' /\ buffered' # 0
    BY <1>1, <1>3, <1>4, <2>2
  <2>7. (IF written' <= CallEnd' THEN CallEnd' ELSE written') = written + limit'
    BY <1>1, <1>3, <1>7, <2>5
  <2>8. PrefixIsWritten'
    BY <1>1, <2>1 DEF PrefixIsWritten
  <2>9. Lag' = Lag
    BY <1>1 DEF Lag
  <2>10. Len(sent) < BlockSize => buffered = 0
    BY <1>1, <2>1 DEF Intact, OneBlock
  <2>11. CASE written = 0
    <3>1. buffered = 0 /\ straddled = 0
      BY <1>1, <1>3, <2>1, <2>11 DEF BetweenCalls, LagIsKept
    <3>2. limit' = half /\ buffered' = n /\ limit' < n /\ n <= limit' + BlockSize
      BY <1>1, <1>3, <1>4, <1>5, <1>6, <2>11, <3>1
    <3>3. IF Len(sent) < BlockSize THEN n = Len(sent) ELSE n = BlockSize
      BY <1>3, <1>4, <3>1
    <3>4. Lag = n - half
      BY <3>3 DEF Lag, half
    <3>5. LagIsKept'
      <4>1. buffered' + straddled' = Lag' + (written + limit')
        <5>1. /\ buffered' = n /\ straddled' = 0 /\ Lag' = n - half /\ written = 0
              /\ limit' = half
          BY <1>1, <2>9, <2>11, <3>1, <3>2, <3>4
        <5> QED
          BY <1>4, <1>6, <5>1
      <4> QED
        BY <2>6, <2>7, <4>1 DEF LagIsKept
    <3>6. ASSUME limit' = 0 PROVE BetweenCalls'
      <4>1. n = Len(sent)
        BY <1>3, <1>4, <1>6, <3>2, <3>3, <3>6
      <4> QED
        BY <1>1, <1>3, <1>4, <2>1, <2>11, <3>2, <4>1 DEF BetweenCalls
    <3>7. ASSUME limit' # 0 PROVE InCall'
      <4>1. /\ written' = 0 /\ processed' = 0 /\ limit' = half /\ CallEnd' = half
            /\ buffered' = n /\ ~finalized' /\ half < n /\ n <= half + BlockSize
        BY <1>1, <1>6, <2>1, <2>5, <2>11, <3>2
      <4> QED
        BY <1>3, <1>4, <1>6, <4>1 DEF InCall
    <3>8. ASSUME Len(sent) < BlockSize PROVE OneBlock'
      BY <1>1, <1>3, <1>4, <1>7, <2>5, <2>11, <3>2, <3>3, <3>8 DEF OneBlock
    <3>9. Intact'
      BY <1>1, <2>1, <2>3, <2>6, <2>8, <3>5, <3>6, <3>7, <3>8 DEF Intact
    <3> QED
      BY <1>1, <1>9, <2>4, <3>9 DEF TextInv
  <2>12. CASE written # 0
    <3>1. limit' = n /\ limit' # 0 /\ buffered # 0 /\ ~(Len(sent) < BlockSize)
      BY <1>1, <1>3, <1>4, <1>5, <2>2, <2>10, <2>12
    <3>2. buffered + straddled = Lag + written
      <4>1. buffered + straddled = Lag + (IF written <= CallEnd THEN CallEnd ELSE written)
        BY <2>1, <3>1 DEF LagIsKept
      <4>2. (IF written <= CallEnd THEN CallEnd ELSE written) = written
        BY <1>1, <1>3 DEF CallEnd
      <4> QED
        BY <4>1, <4>2
    <3>3. LagIsKept'
      <4>1. buffered' + straddled' = Lag' + (written + limit')
        <5>1. /\ buffered' = buffered + n /\ straddled' = straddled /\ Lag' = Lag
              /\ limit' = n
          BY <1>1, <2>9, <3>1
        <5> QED
          BY <1>3, <1>4, <3>2, <5>1
      <4> QED
        BY <2>6, <2>7, <4>1 DEF LagIsKept
    <3>4. InCall'
      <4>1. buffered <= written + BlockSize
        BY <2>1 DEF BetweenCalls
      <4>2. CallEnd' <= buffered' /\ buffered' <= CallEnd' + BlockSize
        BY <1>1, <1>3, <1>4, <2>2, <2>5, <3>1, <4>1
      <4>3. written' # processed' /\ ~finalized'
        BY <1>1, <2>1, <2>12
      <4>4. limit' <= BlockSize /\ processed' <= limit' + 1 /\ processed' <= written'
        BY <1>1, <1>3, <1>4, <1>7, <3>1
      <4> QED
        BY <4>2, <4>3, <4>4 DEF InCall
    <3>5. Intact'
      BY <1>1, <2>1, <2>3, <2>6, <2>8, <3>1, <3>3, <3>4 DEF Intact
    <3> QED
      BY <1>1, <1>9, <2>4, <3>5 DEF TextInv
  <2> QED
    BY <2>11, <2>12
<1> QED
  BY <1>8, <1>9

LEMMA TextInitHolds == TextInit => TextInv
<1> SUFFICES ASSUME NEW file \in FilesToSend, NEW stale \in Characters, StartWith(file, stale)
             PROVE  TextInv
  BY DEF TextInit
<1>1. /\ sent = file /\ buffer = [i \in 0 .. (BufferSize - 1) |-> stale] /\ buffered = 0
      /\ written = 0 /\ limit = 0 /\ processed = 0 /\ out = <<>> /\ straddled = 0
      /\ lookedPast = FALSE /\ finalized = FALSE
  BY DEF StartWith
<1>2. Len(sent) \in Nat /\ sent \in Seq(Characters)
  <2>1. PICK n \in 1 .. MaxFile : file \in [1 .. n -> Characters]
    BY DEF FilesToSend
  <2> QED
    BY <1>1, <2>1, TextAssumption
<1>3. TextTypeOK
  <2>1. buffer \in [0 .. (BufferSize - 1) -> Characters]
    BY <1>1
  <2>2. sent \in FilesToSend /\ buffered \in 0 .. Len(sent)
    BY <1>1, <1>2
  <2> QED
    BY <1>1, <2>1, <2>2 DEF TextTypeOK
<1>4. PrefixIsWritten
  <2>1. ConvertedUpto(sent)[0] = <<>>
    BY <1>2, ConversionStep
  <2> QED
    BY <1>1, <2>1 DEF PrefixIsWritten
<1>5. BufferHoldsLast
  BY <1>1 DEF BufferHoldsLast
<1>6. LagIsKept /\ BetweenCalls /\ OneBlock
  BY <1>1, TextAssumption DEF LagIsKept, BetweenCalls, OneBlock
<1> QED
  BY <1>1, <1>3, <1>4, <1>5, <1>6 DEF TextInv, Intact

\* The inductive invariant of the conversion holds in every reachable state.
THEOREM TextInvariance == TextSpec => []TextInv
<1>1. TextInv /\ [TextNext]_textVars => TextInv'
  <2> SUFFICES ASSUME TextInv, [TextNext]_textVars PROVE TextInv'
    OBVIOUS
  <2>1. CASE UNCHANGED textVars
    BY <2>1 DEF textVars, TextInv, TextTypeOK, Intact, BufferHoldsLast, BetweenCalls, InCall,
       CallEnd, LagIsKept, Lag, OneBlock, PrefixIsWritten, At
  <2> QED
    BY <2>1, WriteBlockKeeps, FinalizeKeeps, TurnCrLfKeeps, TurnLfKeeps, TurnOtherKeeps,
       EndBufferOutKeeps DEF TextNext
<1> QED
  BY <1>1, TextInitHolds, PTL DEF TextSpec

\* For files of any length, blocks and buffers of any size: what is written is
\* the conversion of the file, unless a byte that had not come was looked at,
\* and that takes a CR at the end or as many CR LF across the ends of calls as
\* half a block has bytes (FileWriter.cpp:129).
THEOREM ConversionHolds == TextSpec => []ConversionIsRight
<1>1. TextInv => ConversionIsRight
  <2> SUFFICES ASSUME TextInv
               PROVE  /\ finalized /\ ~InBufferOut /\ ~lookedPast => out = Converted(sent)
                      /\ lookedPast => \/ sent[Len(sent)] = "CR"
                                       \/ straddled >= BlockSize \div 2
    BY DEF ConversionIsRight
  <2>1. ASSUME finalized, ~InBufferOut, ~lookedPast PROVE out = Converted(sent)
    <3>1. limit = 0 /\ Intact
      BY <2>1 DEF InBufferOut, TextInv
    <3>2. written = Len(sent)
      BY <2>1, <3>1 DEF Intact, BetweenCalls
    <3> QED
      BY <3>1, <3>2 DEF Intact, PrefixIsWritten, Converted
  <2> QED
    BY <2>1 DEF TextInv
<1> QED
  BY <1>1, TextInvariance, PTL
=============================================================================
