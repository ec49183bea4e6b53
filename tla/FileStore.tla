------------------------------ MODULE FileStore ------------------------------
(***************************************************************************)
(* What the transfers do to the files on disk, under the locks of          *)
(* FileLocking: FileReader's open file, FileWriter's temporary file, and   *)
(* its way over the target when the transfer is finalized.                 *)
(*                                                                         *)
(* MakeTempFileName passes GetTempFileNameW a number of its own, so that   *)
(* it always gives the same name and never creates the file: every writer, *)
(* whatever file it is for, opens the same temporary file. None of the     *)
(* results of opening, writing, committing and replacing is looked at.     *)
(***************************************************************************)
EXTENDS FileLocking

ASSUME NobodyAssumption == "nobody" \notin Workers

VARIABLES
  target,     \* the content of each file below the server's root
  temp,       \* the content of the temporary file
  tempOpen,   \* the worker whose _fw has it open
  file,       \* how far each worker's _fw or _fr is
  seen,       \* what the file was when a reader opened it
  crowded,    \* whether another writer was there during the worker's transfer
  diskFailed  \* whether WriteFile has failed

disk == <<target, temp, tempOpen, file, seen, crowded, diskFailed>>
storeVars == <<vars, disk>>

(***************************************************************************)
(* A content is told by the worker who wrote it in its present transfer    *)
(* ("nobody" for one that is older) and by how much of it is there.        *)
(***************************************************************************)
Content(by, what) == [by |-> by, what |-> what]
Absent == Content("nobody", "absent")
Old == Content("nobody", "whole")

Contents ==
  [by : Workers \cup {"nobody"}, what : {"absent", "empty", "part", "whole"}]

\* "new": the file is locked, and _fw or _fr is about to be made. "refused":
\* the temporary file could not be opened, and _fw has an invalid handle.
\* "full": the last block is written. "closed", "created", "done": Finalize.
WriterSteps == {"open", "refused", "full", "closed", "created", "done"}
FileSteps == WriterSteps \cup {"none", "new", "reading"}

StoreTypeOK ==
  /\ TypeOK
  /\ target \in [Files -> Contents] /\ temp \in Contents
  /\ tempOpen \in Workers \cup {"nobody"}
  /\ file \in [Workers -> FileSteps]
  /\ seen \in [Workers -> Contents]
  /\ crowded \in [Workers -> BOOLEAN] /\ diskFailed \in BOOLEAN

StoreInit ==
  /\ Init
  /\ target \in [Files -> {Absent, Old}]
  /\ temp = Absent /\ tempOpen = "nobody"
  /\ file = [w \in Workers |-> "none"]
  /\ seen = [w \in Workers |-> Absent]
  /\ crowded = [w \in Workers |-> FALSE]
  /\ diskFailed = FALSE

MoveFile(w, s) == file' = [file EXCEPT ![w] = s]

-----------------------------------------------------------------------------
(***************************************************************************)
(* The request.                                                            *)
(***************************************************************************)
Rejected(w) == RejectRequest(w) /\ UNCHANGED disk

\* With the new transfer of w what it wrote in an earlier one becomes old.
Aged(w, content) == IF content.by = w THEN [content EXCEPT !.by = "nobody"] ELSE content

\* A file that is to be read exists (IsFileValidForRead).
Requested(w) ==
  /\ ValidRequest(w)
  /\ stage'[w] = "RRQ" => target[filePath'[w]] # Absent
  /\ target' = [f \in Files |-> Aged(w, target[f])]
  /\ seen' = [v \in Workers |-> Aged(w, seen[v])]
  /\ UNCHANGED <<temp, tempOpen, file, crowded, diskFailed>>

Locking(w) ==
  /\ LockFile(w)
  /\ IF stage'[w] = "transfer" THEN MoveFile(w, "new") ELSE UNCHANGED file
  /\ UNCHANGED <<target, temp, tempOpen, seen, crowded, diskFailed>>

\* new FileReader
OpenTarget(w) ==
  /\ file[w] = "new" /\ operation[w] = "RRQ"
  /\ MoveFile(w, "reading")
  /\ seen' = [seen EXCEPT ![w] = target[filePath[w]]]
  /\ UNCHANGED <<vars, target, temp, tempOpen, crowded, diskFailed>>

OtherWriters(w) == {v \in Workers \ {w} : file[v] \in WriterSteps}

\* new FileWriter: CreateFileW makes the temporary file anew, unless it is open
\* (it is opened without sharing). DeleteOnClose has no effect on others.
OpenTemp(w) ==
  /\ file[w] = "new" /\ operation[w] = "WRQ"
  /\ IF tempOpen = "nobody"
     THEN /\ temp' = Content(w, "part")
          /\ tempOpen' = w
          /\ MoveFile(w, "open")
     ELSE MoveFile(w, "refused") /\ UNCHANGED <<temp, tempOpen>>
  /\ crowded' = [v \in Workers |->
                   IF v = w THEN OtherWriters(w) # {}
                   ELSE crowded[v] \/ v \in OtherWriters(w)]
  /\ UNCHANGED <<vars, target, seen, diskFailed>>

-----------------------------------------------------------------------------
(***************************************************************************)
(* The transfer of a writer, and its Finalize.                             *)
(***************************************************************************)
\* WriteBlock, up to the last one: whole, unless a WriteFile failed.
WriteBlocks(w) ==
  /\ file[w] = "open"
  /\ MoveFile(w, "full")
  /\ \/ temp' = Content(w, "whole") /\ UNCHANGED diskFailed
     \/ diskFailed' = TRUE /\ UNCHANGED temp
  /\ UNCHANGED <<vars, target, tempOpen, seen, crowded>>

\* (Definitions named Bug_... are plausible mistakes in the definition that
\* follows them. They are in no specification.)
Bug_CommitsPart(w) ==
  /\ file[w] \in {"open", "full", "refused"}
  /\ MoveFile(w, "closed")
  /\ tempOpen' = IF tempOpen = w THEN "nobody" ELSE tempOpen
  /\ UNCHANGED <<vars, target, temp, seen, crowded, diskFailed>>

\* File::Commit: the file is no longer deleted when it is closed, and closed.
\* Through an invalid handle nothing happens.
Commit(w) ==
  /\ file[w] \in {"full", "refused"}
  /\ MoveFile(w, "closed")
  /\ tempOpen' = IF tempOpen = w THEN "nobody" ELSE tempOpen
  /\ UNCHANGED <<vars, target, temp, seen, crowded, diskFailed>>

Bug_ExpectsTarget(w) ==
  /\ file[w] = "closed"
  /\ MoveFile(w, "created")
  /\ UNCHANGED <<vars, target, temp, tempOpen, seen, crowded, diskFailed>>

\* OverwriteFile first makes the target, empty, if there is none.
CreateTarget(w) ==
  /\ file[w] = "closed"
  /\ MoveFile(w, "created")
  /\ target' = [target EXCEPT ![filePath[w]] =
                  IF @ = Absent THEN Content(w, "empty") ELSE @]
  /\ UNCHANGED <<vars, temp, tempOpen, seen, crowded, diskFailed>>

\* ReplaceFileW: the temporary file takes the target's place, if both are there
\* and nobody has the temporary file open.
ReplaceTarget(w) ==
  /\ file[w] = "created"
  /\ MoveFile(w, "done")
  /\ IF target[filePath[w]] # Absent /\ temp # Absent /\ tempOpen = "nobody"
     THEN target' = [target EXCEPT ![filePath[w]] = temp] /\ temp' = Absent
     ELSE UNCHANGED <<target, temp>>
  /\ UNCHANGED <<vars, tempOpen, seen, crowded, diskFailed>>

-----------------------------------------------------------------------------
Bug_LeavesTemp(w) ==
  /\ EndTransfer(w)
  /\ file[w] \in {"open", "refused", "done", "reading"}
  /\ MoveFile(w, "none")
  /\ tempOpen' = IF tempOpen = w THEN "nobody" ELSE tempOpen
  /\ seen' = [seen EXCEPT ![w] = Absent]
  /\ crowded' = [crowded EXCEPT ![w] = FALSE]
  /\ UNCHANGED <<target, temp, diskFailed>>

\* The transfer is over, or aborted before the last block: TerminateTransaction
\* drops _fw and _fr. A temporary file that was not committed is deleted.
DropFile(w) ==
  /\ EndTransfer(w)
  /\ file[w] \in {"open", "refused", "done", "reading"}
  /\ MoveFile(w, "none")
  /\ IF tempOpen = w THEN temp' = Absent /\ tempOpen' = "nobody"
     ELSE UNCHANGED <<temp, tempOpen>>
  /\ seen' = [seen EXCEPT ![w] = Absent]
  /\ crowded' = [crowded EXCEPT ![w] = FALSE]
  /\ UNCHANGED <<target, diskFailed>>

Unlocking(w) ==
  /\ UnlockFile(w) \/ UnlockMissing(w) \/ NothingToUnlock(w)
  /\ UNCHANGED disk

StoreNext ==
  \E w \in Workers :
    \/ Rejected(w) \/ Requested(w) \/ Locking(w)
    \/ OpenTarget(w) \/ OpenTemp(w)
    \/ WriteBlocks(w) \/ Commit(w) \/ CreateTarget(w) \/ ReplaceTarget(w)
    \/ DropFile(w) \/ Unlocking(w)

StoreSpec == StoreInit /\ [][StoreNext]_storeVars

-----------------------------------------------------------------------------
\* With any number of writers at the one temporary file, a file of the server
\* never becomes a part of what somebody sends, unless the disk failed: it is
\* what it was, empty, or a whole file (that of another client, it may be).
TargetIsWhole ==
  \A f \in Files : target[f].what = "part" => diskFailed

\* A writer that had the temporary file for itself leaves in its target what
\* it received, all of it, unless the disk failed. With another writer there,
\* for whatever file, it may find its target as it was, empty, or to be the
\* other one's file, and tell its client that all is well.
WriterGetsItsFile ==
  \A w \in Workers :
    file[w] = "done" /\ ~crowded[w] /\ ~diskFailed
      => target[filePath[w]] = Content(w, "whole")

\* A file does not change under a reader: the lock is held from before it is
\* opened until after it is closed, and Finalize is over before the unlock.
ReaderSeesOneVersion ==
  \A w \in Workers : file[w] = "reading" => target[filePath[w]] = seen[w]

\* The temporary file does not outlive the transfers, however many there are
\* and however they end.
NoTempLeft ==
  temp # Absent => \E w \in Workers : file[w] \in WriterSteps \ {"done"}
=============================================================================
