------------------------------ MODULE LockWord ------------------------------
(***************************************************************************)
(* The 32-bit word of tftplib's RWInterlock (RWInterlock.h:24): the low    *)
(* bits count the readers, the top bit says that a writer is there.        *)
(*                                                                         *)
(* WriteFlag stands for 0x80000000, so the word ranges over                *)
(* 0 .. 2 * WriteFlag - 1 and the atomic operations wrap as those of an    *)
(* unsigned integer do. Everything is linear arithmetic in WriteFlag: the  *)
(* word is small in a model and has its real width in a proof.             *)
(***************************************************************************)
EXTENDS Integers

CONSTANT WriteFlag

ASSUME WriteFlagAssumption == WriteFlag \in Nat \ {0}

Word == 0 .. (2 * WriteFlag - 1)

\* c & WriteFlag
HasFlag(c) == c >= WriteFlag

\* the word after _counter.fetch_add(1)
Incr(c) == IF c = 2 * WriteFlag - 1 THEN 0 ELSE c + 1

\* the word after _counter.fetch_add(-1): zero wraps to the largest word
Decr(c) == IF c = 0 THEN 2 * WriteFlag - 1 ELSE c - 1

\* the word after _counter.fetch_or(WriteFlag)
SetFlag(c) == IF HasFlag(c) THEN c ELSE c + WriteFlag

\* the word after _counter.fetch_and(~WriteFlag)
ClearFlag(c) == IF HasFlag(c) THEN c - WriteFlag ELSE c
=============================================================================
