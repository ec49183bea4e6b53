------------------------------- MODULE RWLock -------------------------------
(***************************************************************************)
(* What a readers/writer lock promises: any number of readers or one       *)
(* writer. A request that cannot be served is simply not granted, so a     *)
(* refusal is a stutter here.                                              *)
(***************************************************************************)
CONSTANT Clients

VARIABLES readers, writers

vars == <<readers, writers>>

Init == readers = {} /\ writers = {}

GrantRead(c) ==
  /\ c \notin readers \cup writers
  /\ writers = {}
  /\ readers' = readers \cup {c}
  /\ UNCHANGED writers

GrantWrite(c) ==
  /\ readers = {} /\ writers = {}
  /\ writers' = {c}
  /\ UNCHANGED readers

ReleaseRead(c) ==
  /\ c \in readers
  /\ readers' = readers \ {c}
  /\ UNCHANGED writers

ReleaseWrite(c) ==
  /\ c \in writers
  /\ writers' = writers \ {c}
  /\ UNCHANGED readers

Next ==
  \E c \in Clients :
    GrantRead(c) \/ GrantWrite(c) \/ ReleaseRead(c) \/ ReleaseWrite(c)

Spec == Init /\ [][Next]_vars
=============================================================================
