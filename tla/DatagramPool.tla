----------------------------- MODULE DatagramPool -----------------------------
(***************************************************************************)
(* The pool every datagram takes its buffer from (PoolOfBuffers.h), as the *)
(* threads of the server use it through DatagramFactory. A datagram has a  *)
(* buffer for its data and one for control data, from two pools of the     *)
(* same size that are used in the same way; one of them is modelled.       *)
(*                                                                         *)
(* Nothing protects the flags and the cursor. Alloc is modelled by its     *)
(* accesses to them, so that another thread can come in between.           *)
(***************************************************************************)
EXTENDS Integers, FiniteSets

CONSTANTS
  Threads,    \* the dispatch thread and the workers' threads
  PoolSize,   \* _poolSize: 8 * _threadCount
  PerThread   \* how many datagrams a thread has at a time: one received or
              \* sent before, and the answer to it

ASSUME PoolAssumption ==
  /\ IsFiniteSet(Threads) /\ PerThread \in Nat
  /\ PoolSize \in Nat \ {0} /\ PoolSize >= PerThread * Cardinality(Threads)

Buffers == 0 .. (PoolSize - 1)

VARIABLES
  used,       \* _used
  cursor,     \* _cursor
  alloc,      \* where each thread is in Alloc, its backupCursor and current
  held,       \* the buffers of the datagrams each thread has
  refused,    \* the threads that Alloc ever gave nullptr
  strayFree,  \* whether Free has thrown "Pointer does not belong to this pool"
  overlap     \* whether two calls of Alloc have ever been under way at once

poolVars == <<used, cursor, alloc, held, refused, strayFree, overlap>>

NotAllocating == [step |-> "none", backupCursor |-> 0, current |-> 0]

PoolInit ==
  /\ used = [b \in Buffers |-> FALSE]
  /\ cursor = 0
  /\ alloc = [t \in Threads |-> NotAllocating]
  /\ held = [t \in Threads |-> {}]
  /\ refused = {} /\ strayFree = FALSE /\ overlap = FALSE

Allocating == {t \in Threads : alloc[t].step # "none"}

\* StartAssembly calls Alloc.
BeginAlloc(t) ==
  /\ t \notin Allocating /\ Cardinality(held[t]) < PerThread
  /\ alloc' = [alloc EXCEPT ![t] = [@ EXCEPT !.step = "take", !.backupCursor = cursor]]
  /\ overlap' = (overlap \/ Allocating # {})
  /\ UNCHANGED <<used, cursor, held, refused, strayFree>>

\* current = _cursor, which is moved on.
TakeCursor(t) ==
  /\ alloc[t].step = "take"
  /\ alloc' = [alloc EXCEPT ![t] = [@ EXCEPT !.step = "look", !.current = cursor]]
  /\ cursor' = (cursor + 1) % PoolSize
  /\ UNCHANGED <<used, held, refused, strayFree, overlap>>

FoundFree(t) ==
  /\ alloc[t].step = "look" /\ ~used[alloc[t].current]
  /\ alloc' = [alloc EXCEPT ![t] = [@ EXCEPT !.step = "mark"]]
  /\ UNCHANGED <<used, cursor, held, refused, strayFree, overlap>>

\* (Definitions named Bug_... are plausible mistakes in the definition that
\* follows them. They are in no specification.)
Bug_LeavesLastOut(t) ==
  /\ alloc[t].step = "look" /\ used[alloc[t].current]
  /\ IF (cursor + 1) % PoolSize # alloc[t].backupCursor
     THEN /\ alloc' = [alloc EXCEPT ![t] = [@ EXCEPT !.step = "take"]]
          /\ UNCHANGED refused
     ELSE /\ alloc' = [alloc EXCEPT ![t] = NotAllocating]
          /\ refused' = refused \cup {t}
  /\ UNCHANGED <<used, cursor, held, strayFree, overlap>>

\* while (_cursor != backupCursor): on, or nullptr.
FoundUsed(t) ==
  /\ alloc[t].step = "look" /\ used[alloc[t].current]
  /\ IF cursor # alloc[t].backupCursor
     THEN /\ alloc' = [alloc EXCEPT ![t] = [@ EXCEPT !.step = "take"]]
          /\ UNCHANGED refused
     ELSE /\ alloc' = [alloc EXCEPT ![t] = NotAllocating]
          /\ refused' = refused \cup {t}
  /\ UNCHANGED <<used, cursor, held, strayFree, overlap>>

MarkUsed(t) ==
  /\ alloc[t].step = "mark"
  /\ used' = [used EXCEPT ![alloc[t].current] = TRUE]
  /\ held' = [held EXCEPT ![t] = @ \cup {alloc[t].current}]
  /\ alloc' = [alloc EXCEPT ![t] = NotAllocating]
  /\ UNCHANGED <<cursor, refused, strayFree, overlap>>

Bug_FreesNext(t) ==
  /\ t \notin Allocating
  /\ \E b \in held[t] :
       /\ held' = [held EXCEPT ![t] = @ \ {b}]
       /\ strayFree' = (strayFree \/ ~used[b])
       /\ used' = [used EXCEPT ![(b + 1) % PoolSize] = FALSE]
  /\ UNCHANGED <<cursor, alloc, refused, overlap>>

\* ~Datagram gives the buffer back (Reclaim, Free); one that is not used is not
\* of this pool, and Free throws.
Free(t) ==
  /\ t \notin Allocating
  /\ \E b \in held[t] :
       /\ held' = [held EXCEPT ![t] = @ \ {b}]
       /\ strayFree' = (strayFree \/ ~used[b])
       /\ used' = [used EXCEPT ![b] = FALSE]
  /\ UNCHANGED <<cursor, alloc, refused, overlap>>

PoolNext ==
  \E t \in Threads :
    \/ BeginAlloc(t) \/ TakeCursor(t) \/ FoundFree(t) \/ FoundUsed(t) \/ MarkUsed(t)
    \/ Free(t)

PoolSpec == PoolInit /\ [][PoolNext]_poolVars

-----------------------------------------------------------------------------
\* No buffer is lost, even if calls overlap: one that is marked used belongs to
\* a datagram. And as long as no two calls of Alloc overlap, a buffer belongs
\* to one datagram only, is marked for as long as it does, and can be given
\* back; calls of Free may come at any time.
BufferHasOneOwner ==
  /\ \A b \in Buffers : used[b] => \E t \in Threads : b \in held[t]
  /\ ~overlap =>
       /\ \A t \in Threads : \A b \in held[t] :
            used[b] /\ \A u \in Threads \ {t} : b \notin held[u]
       /\ ~strayFree

\* The pool is large enough: as long as no two calls of Alloc overlap none is
\* refused, and no nullptr of an empty pool reaches the code that does not look
\* for it. (That of a receive that fails does: see ReadTransfer, WriteTransfer.)
PoolSuffices == ~overlap => refused = {}
=============================================================================
