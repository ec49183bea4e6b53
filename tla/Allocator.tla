------------------------------ MODULE Allocator ------------------------------
(***************************************************************************)
(* The allocator of the replies that Server builds itself (Allocator.cpp). *)
(* Blocks are carved from one buffer, one after the other; a block that is *)
(* freed goes to the list of its class, the bit width of its size. A mutex *)
(* makes each call one step.                                               *)
(*                                                                         *)
(* A block is as large as the request it was carved for, not as its class: *)
(* allocate computes the size of the class and does not use it.            *)
(***************************************************************************)
EXTENDS Integers, Sequences

CONSTANTS
  Sizes,        \* sizes asked for; at least 8, see Class
  TotalSize     \* _bufferSize

MinBlockSize == 16
HeaderSize == 8

ASSUME SizesAssumption ==
  /\ Sizes \subseteq Nat /\ TotalSize \in Nat
  /\ \A s \in Sizes : s + HeaderSize >= MinBlockSize

VARIABLES
  carved,     \* _cursor: how much of the buffer is in blocks
  freeLists,  \* _freeLists: where the free blocks of each class are
  live,       \* the blocks in use: where, and how large
  asked       \* the sizes, header included, that were ever asked for

allocVars == <<carved, freeLists, live, asked>>

\* std::bit_width
BitWidth(n) == CHOOSE w \in 1 .. n : 2 ^ (w - 1) <= n /\ n < 2 ^ w

\* The index of the free list, which is out of range below MinBlockSize.
Class(sz) == BitWidth(sz) - BitWidth(MinBlockSize)

AllocInit ==
  /\ carved = 0
  /\ freeLists = [c \in {Class(s + HeaderSize) : s \in Sizes} |-> <<>>]
  /\ live = {}
  /\ asked = {}

Block(at, sz) == [at |-> at, size |-> sz]

\* allocFromCache: the block of the class that was freed last.
AllocFromCache(sz) ==
  LET c == Class(sz)
  IN  /\ freeLists[c] # <<>>
      /\ live' = live \cup {Block(Head(freeLists[c]), sz)}
      /\ freeLists' = [freeLists EXCEPT ![c] = Tail(@)]
      /\ UNCHANGED carved

\* (Definitions named Bug_... are plausible mistakes in the definition that
\* follows them. They are in no specification.)
Bug_CarvesWithoutHeader(sz) ==
  /\ freeLists[Class(sz)] = <<>> /\ carved + sz <= TotalSize
  /\ live' = live \cup {Block(carved, sz)}
  /\ carved' = carved + (sz - HeaderSize)
  /\ UNCHANGED freeLists

\* allocFromBuffer
AllocFromBuffer(sz) ==
  /\ freeLists[Class(sz)] = <<>> /\ carved + sz <= TotalSize
  /\ live' = live \cup {Block(carved, sz)}
  /\ carved' = carved + sz
  /\ UNCHANGED freeLists

\* allocate, when it does not return nullptr.
Allocate ==
  \E s \in Sizes :
    LET sz == s + HeaderSize
    IN  /\ AllocFromCache(sz) \/ AllocFromBuffer(sz)
        /\ asked' = asked \cup {sz}

\* free
FreeBlock ==
  \E b \in live :
    /\ live' = live \ {b}
    /\ freeLists' = [freeLists EXCEPT ![Class(b.size)] = <<b.at>> \o @]
    /\ UNCHANGED <<carved, asked>>

AllocNext == Allocate \/ FreeBlock

AllocSpec == AllocInit /\ [][AllocNext]_allocVars

-----------------------------------------------------------------------------
OneSizePerClass == \A s, t \in asked : Class(s) = Class(t) => s = t

\* Blocks in use lie apart and within the buffer, in whatever order they are
\* allocated and freed, as long as no two sizes of the same class are asked
\* for. (The server asks for one size only. With two, a free block is given
\* out for a request it is too small for.)
BlocksLieApart ==
  OneSizePerClass =>
    /\ \A b \in live : b.at + b.size <= TotalSize
    /\ \A a, b \in live : a # b => a.at + a.size <= b.at \/ b.at + b.size <= a.at
=============================================================================
