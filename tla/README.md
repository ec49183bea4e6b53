# tftplib in TLA+

tftplib is a TFTP server library for Windows in C++ (`src/tftplib`), with a
console program that runs it (`src/TestTftpLib`). This directory specifies its
concurrent core and its protocol in TLA+, checks the specifications with TLC on
small instances, and proves what matters most for every instance with TLAPS.

* [The system](#the-system) - its parts, their state, what makes them hard
* [The modules](#the-modules) - what models what
* [The runs](#the-runs) - what TLC checks, with which bounds
* [Where the code and its comments disagree](#where-the-code-and-its-comments-disagree)
* [Assumptions](#assumptions) and [Fairness](#fairness)
* [The proofs](#the-proofs)
* [What is not modelled](#what-is-not-modelled) and [Plan](#plan)

## The system

| Part | State | Operations | What must be right |
|---|---|---|---|
| `Server` | `_transactions` (records), `_transactionSockets`, `_workers`, the flags `_running`, `_starting`, `_stopping` | Start, Stop, the dispatch thread's loop, AssignWorkerToTransaction, TerminateTransaction | one call at a time sets up or cleans up, and Stop leaves no thread behind; a transaction has one record, one socket, one worker, and gives all of them back |
| `ServerWorker` | `_activity`, `_state`, the transaction's fields, a thread | Start, Run, RequestStop, Stop; AssignTransaction, ProcessRequestMessage (both on the dispatch thread), the two transfer states, Abort, TerminateTransaction | a transfer ends; what it leaves behind does not disturb the next one; the file is delivered or stored whole |
| `UdpSocketWindows` | `_state`, `_activityCounter`, `_osLifeCycle`, `_osHandle` | Bind, Unbind, Poll, Receive, Send, GetLocalPort | nobody touches a handle while it is replaced |
| `RWInterlock` | one atomic word | TryLockRead, TryLockWrite, UnlockRead, UnlockWrite | readers/writer exclusion without blocking |
| `FileSecurityHandler` | `_locks`: a lock per file, a mutex | path checks, Lock and Unlock for read and write | a file being written is used by nobody else; the table forgets free files |
| messages | none | build and parse; block numbers of 16 bits | a number that wraps still identifies its block |
| `FileReader`, `FileWriter`, `File`, `HaloBuffer` | an open file, one temporary file, buffered bytes | read a block; write a block, convert line ends, commit over the target | the target is replaced only by a whole file, converted as a whole |
| `PoolOfBuffers`, `DatagramFactory`, `Datagram` | flags and a cursor | allocate, reclaim | no buffer has two owners |
| `Allocator` | free lists and a cursor in a block | allocate, free | blocks do not overlap |
| `Signal` | two binary semaphores | emit, wait, reset | a sleeper with something to do is woken, although a ring may be dropped |
| `RingBuffer` | - | never instantiated | - |

How they interact. One *dispatch thread* reads requests from the control
socket. For each it looks for a free record, binds a transaction socket, fills
the record, hands request and socket to an idle worker and runs the worker's
`ProcessRequestMessage`, which locks the file and makes the worker's state
`WAITING_FOR_DATA` or `WAITING_FOR_ACK`. From that store on the *worker's
thread* runs the transfer. It ends in `TerminateTransaction`: unlock the file,
look the record up, unbind the socket, free the record, become idle. A request
that is rejected goes through the same function on the dispatch thread. An idle
worker sleeps at its `Signal`; the dispatch thread rings it for a transfer, and
`Stop`, on a thread of the application, rings it to end. No lock covers records,
sockets and workers together; there is a mutex for the file lock table and one
for the allocator, and none for the pool of datagram buffers.

What is hard about it, in short (the list with lines is in `PROJECT.json`,
"hazards"): admissions interleave with half-finished terminations; a socket
being unbound looks free and cannot be bound; results of Bind, of disk writes,
of receives and of allocations are ignored; fields of a worker survive their transaction;
`_lastAck` is written by two threads; all writers use one temporary file; Start
and Stop look at three flags one after another; datagrams are lost, repeated and
late, and their numbers wrap.

## The modules

| Module | Models | Code |
|---|---|---|
| `LockWord` | the 32-bit word of a lock, with its wrap-around | `RWInterlock.cpp`, `RWInterlock.h` |
| `RWInterlock` | the lock, one action per atomic operation | `RWInterlock.cpp` |
| `RWLock` | abstract: many readers or one writer | - |
| `FileLocking` | the lock table and the workers' `_filePath`, `_currentOperation`, `_fileLocked` | `FileSecurityHandler.cpp:120-168`, `ServerWorker.cpp:407-512, 730-750` |
| `FileStore` | `FileLocking` and the files on disk: readers' files, the temporary file, its way over the target | `FileReader.cpp`, `FileWriter.cpp:28-118`, `File.cpp:63-105` |
| `MCFileStore` | symmetry | - |
| `ServerLifecycle` | Start, Stop, the flags, the dispatch thread and the workers' threads, `Signal` | `Server.cpp:34-189`, `ServerWorker.cpp:40-81, 148-247`, `Signal.cpp`, `Signal.h` |
| `DatagramPool` | Alloc and Free by several threads | `PoolOfBuffers.h`, `DatagramFactory.cpp:64-76` |
| `NetasciiWriter` | the conversion of line ends, through the halo buffer | `FileWriter.cpp:94-183` |
| `RequestParser` | the validation of a request | `tftp_messages.cpp:7-34, 135-175` |
| `Allocator` | allocate and free | `Allocator.cpp:40-118` |
| `MCBuffersAndFormats` | the last four as one instance, side by side | - |
| `BuffersAndFormats_proofs` | the theorems about the same four | - |
| `TransactionDispatch` | records, sockets and workers; the dispatch thread and the end of transactions | `Server.cpp:131-348`, `ServerWorker.cpp:84-166, 695-750`, `UdpSocketWindows.cpp:412-479` |
| `MCTransactionDispatch` | symmetry, and the start after all workers run | - |
| `BlockNumbers` | block numbers and messages | `tftp_messages.cpp:177-237` |
| `FileTransfer` | abstract: what a transfer promises, either way | - |
| `ReadTransfer` | a read request: worker, client, network | `ServerWorker.cpp:269-405`, a failed Receive (`UdpSocketWindows.cpp:540`) |
| `WriteTransfer` | a write request: dispatch thread, worker, client, network | `ServerWorker.cpp:218-267, 518-530, 554-624` |
| `UdpSocket` | the handles of one socket and its threads | `UdpSocketWindows.cpp:303-654`, `Server.cpp:200-224, 268-348`, `ServerWorker.cpp:695-750` |
| `*_proofs` | the theorems about the module of that name | - |

How they fit together. `FileLocking` uses the word of `LockWord` under the
table's mutex, where a call of the lock is one step; `RWInterlock` shows the
same word without the mutex. `FileStore` extends `FileLocking`: each of its
actions on the table is the one there joined with what happens to the files.
`ServerLifecycle` has the same transactions as `TransactionDispatch`, reduced
to what wakes a worker and keeps it busy, and adds the threads' beginning and
end. `TransactionDispatch` abstracts a transfer to
"may end at any time"; `ReadTransfer` and `WriteTransfer` show that it does end
(`ServerFinishes`), which is the fairness `TransactionDispatch` assumes.
`UdpSocket` looks at the handles behind the socket states that
`TransactionDispatch` uses, and has the record that leads to the socket; its
variable `shared`, chosen at the start, says whether the server has records of
other sockets, so that an admission can meet this one in use, as
`TransactionDispatch` allows when there is more than one worker.

**TransactionDispatch.** The variables are the three tables, the dispatch
thread with its local variables (`dispatch`), and for each worker the
termination that is under way (`ending`). An action is one access to shared
state: one turn of a loop, one field of a record. Two searches of the records are
one step although the code reads them one by one: `IsHandlingMaxTransactions`, for
which the records only become free while it looks, and `FindRecord`, whose two ports
no other record gets in between by the assumption on ports. What the dispatch thread
does after it has set the state of a transfer (Ack(0), the signal) is in
`WriteTransfer`, `UdpSocket` and `ServerLifecycle`. A read past the end of
`_transactionSockets`, which is undefined in C++, sets `crashed` and stops
everything. `SpacedSpec` is the same server when two unguarded reads are made
at a good moment; it separates what the bookkeeping itself gets right from what
those two races break.

**ReadTransfer, WriteTransfer.** `net` is the set of messages ever sent: a
message may be received any number of times, in any order, or never. A message
carries the true index of its block beside the number on the wire. A state of
the worker's thread is a place in the code between two things others can see.
In `WriteTransfer` the dispatch thread's `Ack(0)` is a process of its own;
`Prompt` says whether it is over before data arrives. In both, a receive may fail
(`ReceiveFails`): the code reports the null datagram and passes it on to a function
that dereferences it, and the process is gone (`crashed`). Four things `WriteTransfer`
does as the code does: a failure to acknowledge is ignored, a block that comes
again aborts the transfer, a timeout aborts at once, and a last block without
data is refused, so that a file of a multiple of 512 bytes is never put in place
(`lastIsEmpty`, `ServerWorker.cpp:563`), although `ReadTransfer`'s side of the
code ends such a file with an empty block.

**FileLocking.** `stage` is where a worker's transaction is, in the dispatch
thread for the stages up to `transfer`, in the worker's after it. The fields
are never reset, as in the code. That matters when a request is rejected before
it locks: `RejectsAnyTime` says whether this can happen while another worker has
a transaction. If it cannot, as in a server of one worker, the table is empty
when the stale fields are used: the unlock finds no entry (`UnlockFindsEntry` is
false), and no harm comes of it.

**FileStore.** A content is told by who wrote it and by how much of it is
there. The temporary file has one name for all writers: `MakeTempFileName` gives
`GetTempFileNameW` a number of its own, so that no other name is tried. A writer
that finds it open goes on with an invalid handle, and nothing tells it; what it
then leaves in its target may be the other writer's file. `crowded` says that
this may have happened, `diskFailed` that a write has failed: the two exceptions
the properties name.

**ServerLifecycle.** A call of Start or Stop is a process; an action is one look
at a flag, one exchange, one thread begun or joined, one access to a semaphore.
`careful`, chosen at the start, says how the application calls: one Start and
one Stop at a time, and nothing after Start until the dispatch thread has set
`_running`. Any other application may make the program end in `std::terminate`
or by an exception out of `Stop` (`crashed`), as the code allows: a second Stop
that is overtaken after its look at `_running`, or a Start before `_running` is
set. A Bind may fail, that of the control socket (`BindControlSocket`) and that of a
transaction's: its result is ignored and the socket stays Binding, so that whoever
unbinds it - the dispatch thread, a worker, `Stop` - does not return (`stuck`,
`StopHangs`). Of the dispatch thread's and the workers' own work there is what the
life of the threads depends on.

**DatagramPool, NetasciiWriter, RequestParser, Allocator.** Alloc of the pool is
modelled by its accesses to the cursor and the flags; `overlap` says whether two
calls of Alloc have ever been under way at once, after which the code promises
nothing but that no buffer is lost. `NetasciiWriter` runs the loop of `BufferOut` a turn
at a time on every short text in every state of the buffer; `Converted` is the
reference. `RequestParser` runs the validation on every short message, with any
byte behind it; `WellFormed` is the reference. The names of the modes stand for
their lower-case spelling, the only one `strcmp` finds: a request that RFC 1350
allows with other letters is no well-formed one here, as in the code. `Allocator` carves and reuses
blocks by class.

**UdpSocket.** An action is one access to `_state`, `_activityCounter`,
`_osLifeCycle` or `_osHandle`, or to the record (`active`). The dispatch thread
admits a request when there is a free record (`Admits`); then it binds the socket,
reads its port, and either grants the request, with an Ack(0) of its own for a write
request that runs beside the worker, or rejects it and ends the transaction itself.
`Receive` looks at `Os()` a second time, in `IsIpv6`: one look stands for both. A data race is not executed but pointed at: a
state in which one thread is about to read a pointer and another about to
write it.

Definitions called `Bug_...` are plausible mistakes in the definition that
follows them. No specification uses them; with one of them in place of its
neighbour each property is violated, which shows that the property can tell
the code from that mistake.

## The runs

| Run (cfg) | Instance | Shows |
|---|---|---|
| `RWInterlock` | 3 threads, flag 4, 3 attempts | exclusion, accounting, no spurious refusal, every call returns, implements `RWLock` |
| `MCFileStore` | 3 workers, 2 files, early rejections only when alone | the table is what the transactions hold, one lock per file; targets whole, readers undisturbed, no temporary file left |
| `FileLockingStaleFields` | 1 worker, 2 files | violation, see below |
| `DispatchReturns` | 1 worker, 2 clients, 3 ports, all races, Bind may fail | an admitted request finds a record; dispatch thread and worker come back |
| `DispatchSpaced` | 2 workers, 2 clients, 3 ports, no race with a termination | own record, own socket, no leak, the record that was chosen stays free |
| `DispatchShouldntHappen` | 1 worker | violation, see below |
| `ReadTransfer` | 7 blocks, numbers modulo 4, age below 3, 3 retries, reads may fail | prefix, end, implements `FileTransfer` |
| `WriteTransfer` | 7 blocks, numbers modulo 4, up to 3 acknowledgements not sent, last block with or without data | no gap, no block twice but by an unsent acknowledgement, commit, end, implements `FileTransfer` |
| `WriteTransferRace` | 3 blocks, Ack(0) overtaken | violation, see below |
| `UdpSocket` | 2 workers, other records or none, 3 binds, Bind may fail, requests granted and rejected | Os() is safe in either case; if the record keeps admissions out, Poll reads a live socket, Unbind closes but for an Ack(0) under way, Bind returns |
| `ServerLifecycle` | 3 callers of either kind, 1 worker | one call at a time sets up or cleans up; no thread lost; no wake-up lost; every call returns but for a Stop after a failed Bind |
| `MCBuffersAndFormats` | 2 threads and 4 buffers; texts of up to 7 bytes in blocks of 2; requests of up to 5 bytes; blocks of 16, 17 and 32 bytes in 80 | one owner, no refusal; conversion against its reference; validation against its reference; blocks apart |

Why the bounds are enough. The flag of the word must exceed the number of
threads, as `0x80000000` does; 3 threads give a reader, a writer and one that
backs off. Two workers are the least with which one transaction can disturb
another, and one is the default (`Server.h:103`). With 7 blocks and numbers
modulo 4 a number is used twice and wraps; the messages that are still
delivered (`MaxLife`) span all numbers but one. `MaxUnsent` and `MaxBinds`
bound what could go on for ever. A second client matters only where records are
compared, in `DispatchSpaced`. The records keep two ports and the sockets two
more, of which two are among those of the records where no socket is left over:
with 3 ports in `DispatchSpaced` a Bind always finds a fresh one. With two
workers and all races the properties of the records are proved instead of run.
Three writers at the temporary file give one that has it, one that is refused,
and one that comes when the first has closed it. Three callers give two that
race and one that the outcome of the race surprises; two workers with two
callers give no other result, and the theorems hold for any number of both. A
pool of 4 is what two threads with two datagrams each need, and the least that
does not refuse them. With blocks of 2 the lag of `NetasciiWriter` is one byte
and is used up by the first CR LF across the end of a call; 7 bytes are four
blocks, and go once round the buffer of 4. Five bytes are a name and a mode with
their zero bytes and one more. 16 and 17 are of one class, 32 is of the next.
Symmetry is used only with safety properties.

Deadlock is not checked where the system may rightly stop: the transfers end,
the binds are counted, the process may be gone, all of its threads spin on a
socket that stays Binding, or a text, a request or a call is over.

## Where the code and its comments disagree

1. `Server.cpp:342`, "Shouldn't happen." (run `dispatch_shouldnt_happen`).
   `Server::TerminateTransaction` frees the record, and only later does the
   worker become idle. A request admitted in between finds no worker. The
   socket it bound is not unbound. With the default of one worker, the next
   request then finds no socket, gets a record with a socket index past the end,
   and its termination reads past the end of the vector.
2. `FileSecurityHandler.cpp:142` and `159`, "wtf", at the return for a file that has
   no entry in the lock table (run `file_locking_stale_fields`). A worker's
   `_fileLocked`, `_currentOperation` and `_filePath` outlive the transaction. When
   the next request is rejected before it locks, `TerminateTransaction`
   (`ServerWorker.cpp:739`) unlocks by them a file that was unlocked before. With one
   worker no harm comes of it; with more, the file may have got a new entry by
   another worker's transaction, and it is that one's lock that goes
   (`RejectsAnyTime`).
3. `ServerWorker.h:48`, "Worker thread is waiting for data from the client" (run
   `write_transfer_race`). In this state the dispatch thread may still store
   `_lastAck`. The worker then waits for the wrong block.

Three more have no run of their own; a property names each as its exception.

* `tftp_messages.h:155` says that the safe accessors "do not read past the end of
  the buffer"; `strLenS` looks at up to `maxSz + 1` bytes, and the byte behind the
  message decides whether a request that lacks its last zero byte is accepted
  (`AcceptsRequests`).
* `Receive` returns nullptr when the receive fails (`UdpSocketWindows.cpp:540`), as it
  does on Windows after a client's host has refused a datagram. `WaitForAck`
  (`ServerWorker.cpp:346`) and `ProcessWaitingForDataState` (255) take it for a lack
  of memory, say so, and pass it to functions that dereference it: the process ends
  (`ServerFinishes`).
* `Start` does not look at the result of the control socket's Bind (`Server.cpp:67`),
  nor an admission at that of its socket's (307). The socket stays Binding, and
  `Unbind` waits for ever for it, in the end in `Stop` (`CallsReturn`,
  `DispatchReturns`, `WorkerReturns`).

## Assumptions

* *Ports.* The system gives a socket bound to port 0 a port that no other
  transaction socket has and that no record in the table carries. Windows hands
  out ephemeral ports from a large range, so that a port comes back long after
  the record of its last use was overwritten. Without this a worker could find
  a stale or half-written record in place of its own (`FindTransactionRecord`
  does not look at `isActive`).
* *Network.* It loses, duplicates and reorders, but delivers no message that is
  `MaxLife` or more blocks old, with `MaxLife` below the modulus. The modulus
  is 2^16, and a message would have to stay in the network for 65 thousand
  round trips.
* *Client.* It keeps to RFC 1350, may give up at any time, and may repeat any
  message.
* *Disk.* Writing and committing succeed in `WriteTransfer`: the code does not
  look. Reading may fail in `ReadTransfer`. In `FileStore` a write may fail, and
  `diskFailed` records it; creating, deleting and replacing files succeed when
  their conditions hold.
* *Requests.* In `MCFileStore` and in the theorems of `FileStore_proofs` no
  request is rejected before it locks while another transaction goes on
  (`~RejectsAnyTime`). Without this a rejected request can release the lock of
  another worker's transaction by stale fields (disagreement 2).
* *Memory.* `std::atomic` is sequentially consistent, as the code uses it.
* *Allocation.* `PoolSuffices` shows that datagrams can be allocated, as long as
  no two calls of Alloc overlap and no thread has more than `PerThread` at a
  time. Nothing in the code keeps calls apart.
* *Application.* `NoThreadLost` and `CallsReturn` are about a careful one; the
  other properties of `ServerLifecycle` about any.

## Fairness

Weak fairness of a thread's steps: a thread that can go on does so in the end.
Nothing is assumed of clients or of the network. In `ReadTransfer` and
`WriteTransfer` the wait for a datagram ends because the code bounds it by
`_transactionTimeout`; a receive may fail but need not. In `TransactionDispatch` a transfer ends, which is what
those two modules show. In `ServerLifecycle` every thread runs and every call
that was made goes on; requests need not come, and no wait of a worker needs to
time out, so that `CallsReturn` shows that nobody depends on the timeouts. In
`UdpSocket` a thread that is inside a call goes on; `BindReturns` is about a socket
whose users are gone when it is bound again, for with others about, weak fairness
does not make Bind see a count of 0.
`DispatchReturns` under all races is checked for one
worker only: with two, a termination may wait on the socket of another one that
is bound and unbound again and again, and weak fairness does not decide such a
race.

## The proofs

TLAPS checks them for every value of the constants that meets the named
assumptions.

`RWInterlock_proofs`. Mutual exclusion is not inductive: a writer is let in
because the word is 0, and that says something about the other threads only if
the word is the sum of what they put into it (`CounterAccounts`), which in turn
needs that one thread at a time owns the flag (`OneFlagOwner`) and that the
readers are fewer than the flag's value. The conjunction of these is the
invariant `IInv`. From it follow exclusion, accounting, `QuietLockRefusesNobody`
as a property of every step, and the refinement of `RWLock`. The theorem covers
the real width of the word, `WriteFlag = 2^31`.

`UdpSocket_proofs`. For any number of workers and bindings. That `Os()` is safe
rests on three things that only hold together: the counter is the number of
threads inside `Os()` (`Counted`), the states Binding and Unbinding belong to one
thread at a time (`StateHasOwner`), and from the moment Bind has seen the counter
at 0 nobody gets to the read of the handle, because a thread that enters now finds
the state Binding (`QuietIsKept`). `HandleIsLatest` adds which binding the handle
is of, and gives `OsGivesLatest`. These hold whatever admissions meet. If the server
has no other record, `TakeTurns` says what the record makes of it: one at a time, the
dispatch thread's admission, a worker's transaction with the dispatch thread's Ack(0)
beside it, or a termination has the socket, because `active` is set before the
worker can use it and reset after Unbind. The read of `Poll` and the closing of the
port follow from it.

`TransactionDispatch_proofs`. For any number of workers, clients and ports, with all
races and failing Binds: type correctness, and the two properties of the records.
The argument is that only the dispatch thread activates records, so the free record
that `IsHandlingMaxTransactions` saw is still ahead of the search
(`FreeRecordAhead`), and the one chosen stays free. Type correctness needs
`IndicesInRange`: an index is in range when it is used, unless the process is gone.
The second part is the bookkeeping of `SpacedSpec`, when Bind does not fail: that a
transaction finds its own record (`OwnRecord`), shares its socket with nobody
(`SocketExclusive`), leaves none bound (`NoSocketLeak`) and reads past no vector. None of these holds by itself. Record,
socket and worker know of each other only by the port: the worker searches the
records for it, and the record has the index of the socket. So the invariant `SInv`
says of each table what the ports in it are (`SocketPorts`, `RecordTids`,
`WorkerTids`: no port occurs twice, for workers among those with a transaction), that a worker that holds
something has a record that leads to the socket (`HoldersHaveRecords`), and at which
place of its termination it holds how much (`EndingIsOwn`); and of the admission what
it has found so far and what is still ahead of its searches (`SocketAhead`,
`WorkerAhead`). That rests on counting at admission: a socket that is not Inactive
belongs to a transaction (`SocketsHaveHolders`), a transaction has an active record of
its own, and so with a record that is not active some socket is Inactive and some
worker idle (lemmas `SocketFree` and `WorkerFree`). The two conditions of the spacing are used where the code
relies on them: `WorkerAhead` fails for a worker whose record is free already, and a
socket that is Unbinding would be found and not bound.

`ReadTransfer_proofs`, `WriteTransfer_proofs`. For a file of any length, any
modulus and any number of retries or unsent acknowledgements; `WriteTransfer`
under `Prompt`, without which `ExpectsNextBlock` is false (disagreement 3).
Each begins with the arithmetic of the numbers: two blocks less than `M` apart have
different ones (`NumbersApart`), and the successor of a number is the number of the
next block (`NumberOfNext`). The network's bound on the age of a message
bounds the distance from one side. The other side is bounded only by the
lockstep of the two ends, and the lockstep holds only because numbers are not
mistaken: that is why the invariants are conjunctions of the lockstep
(`Lockstep`, `ClientNumbers`), of what `_lastAck` stands for (`WorkerNumbers`)
and of the truth of every message still in the network (`MessagesAreTrue`).
In a write request an acknowledgement that was not sent leaves `_lastAck` one
block behind (`Behind`); the client cannot have gone on then, so the block that
is written once more is the same one. From the invariants follow the prefix
properties and the refinement of `FileTransfer`.

`FileStore_proofs`, for any number of workers and files, in two layers. The lock
table alone (`LockInv`): the word of a file is the number of its readers plus
the flag for its writer, both counted as cardinalities of sets of workers
(`FileState`), and fields that are left over from an earlier transaction are
used only when the table is empty, which is where `~RejectsAnyTime` comes in.
The cardinalities are below the flag, so that the word tells the two apart. From
it follow `TableMatchesHolders`, `WriterIsAlone` and the refinement of a lock per
file. The disk (`StoreInv`) rests on `WriterIsAlone`: a target changes only by
its lock's writer. That no target becomes a part needs to know what is in the
temporary file at each place of its owner (`TempIsOpeners`), and that a part in it
means that a writer has it open (`PartIsOpen`), so that `ReplaceFileW` fails,
also for a writer that closed it before another one opened it.

`ServerLifecycle_proofs`, for any number of callers and workers, in four layers,
each resting on those before. `FlagInv`: who has claimed a flag owns it, and the
two claims exclude each other because each call sets its own flag before it
looks at the other's. `ThreadInv`: which threads there can be at each step of a
set-up or clean-up, and that a worker's `_activity` and `_state` tell the truth
about its thread. `SignalInv`: when the mallet is gone, the bell
is ringing, about to ring, or has just been heard (`MalletIsSomewhere`), so that
a ring that is dropped loses nothing: the worker hears the other one, or looks
at its state again; with this `NoLostWakeup` is inductive. `CarefulInv`: what holds of
a careful application, up to `NoThreadLost`.

`BuffersAndFormats_proofs`, for any sizes and counts, four separate parts.
`DatagramPool`: while calls of Alloc do not overlap, other threads only give buffers
back, so that a buffer that was free when a call began is still free and the cursor
has not passed it (`FreeBufferAhead`); that there was one is counted: each thread has
at most `PerThread` and the one that allocates has fewer (`PoolHasRoom`).
`Allocator`: a free block has no size of its own, only its class, so the invariant
takes the size from the requests (`FreeWereAsked`), and what lies apart is all blocks,
free and in use, below the cursor. `RequestParser`: the result of `strLenS` is the
least element of a set of places, which exists for messages of any length (`Least`);
the rest is where the first zero byte of a well-formed request is.
`NetasciiWriter`: what is written is the conversion of a prefix, and no CR LF is cut
in two (`PrefixIsWritten`); the buffer holds what came last (`BufferHoldsLast`), which
is enough because the loop is never more than two blocks behind; and the lag that the
half of the first block leaves is used up only by CR LF across the ends of calls
(`LagIsKept`), which is why looking past what has come takes a CR at the end of the
file or as many of those as half a block has bytes. The recursive function of the
reference is shown to exist for files of any length (`ConversionExists`).

Two of these need induction over data. The library's theorems for it take an operator
as a parameter, which the provers do not instantiate; here it is done with sets
instead (`Least`, `SetInduction`), from the library's fact that finite sets are
well-founded under inclusion.

With this every invariant that a passing run checks is a theorem, under the assumptions named
above. Only model-checked is what needs fairness (`EveryCallReturns`,
`ServerFinishes`, `AcknowledgedIsCommitted`, `DispatchReturns`, `WorkerReturns`,
`BindReturns`, `CallsReturn`), which TLAPS cannot prove; and the spaced server with
a Bind that fails is neither run nor proved.

## What is not modelled

* The path checks of `FileSecurityHandler` and `ValidateConfiguration`: functions
  of their input and the file system without state of their own; their outcome
  is an input (a request is valid, a file exists, a configuration is valid).
* The setters of `Server` and `FileSecurityHandler`: for a server that is not
  started; nothing stops a call in between, and no text says what it would do.
* The `shared_ptr` `_socket` of a worker itself: `SendMessage` reads it in the
  dispatch thread for Ack(0) (`ServerWorker.cpp:722-727`) while the worker may set it
  to nullptr (737). `UdpSocket` has the two threads at the socket at once, and not
  this race.
* A receive that fails on the control socket: nothing is lost there but a request.
* The mapping of `HaloBuffer`'s memory and its failures, Winsock, addresses, the
  list of providers, the accessors of `Datagram` and of the messages: calls of
  the system, or data no other thread can see.
* Logging, `streambuf_noop` and the console program; `RingBuffer`, which no code
  instantiates.

## Plan

1. `TransactionDispatch` composed with `FileLocking`, so that a lock is held
   exactly while a record is active.
2. Proofs: the bookkeeping of `SpacedSpec` when Bind may fail.
3. A worker that is stopped in the middle of a transfer, together with the
   records and sockets it leaves to `Stop`.
4. `TransactionDispatch` and `UdpSocket` as one specification: `UdpSocket` has one
   record and takes as given whether there are others.
