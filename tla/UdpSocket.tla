------------------------------ MODULE UdpSocket ------------------------------
(***************************************************************************)
(* One transaction socket of the server (UdpSocketWindows) and the threads *)
(* that use it: the dispatch thread, which binds it, reads its port, sends *)
(* the first message, and unbinds it when the request is rejected; and the *)
(* workers, which poll, receive, send and unbind.                          *)
(*                                                                         *)
(* _state and _activityCounter are atomic. The two smart pointers are not: *)
(* _osLifeCycle owns the system's socket, _osHandle is how others reach    *)
(* it. Os() counts itself in, looks at the state and only then reads the   *)
(* handle; Bind waits for the count to be 0 before it writes. Two places   *)
(* go round this protocol: Poll reads _osLifeCycle, and GetSocketPort      *)
(* reads the handle without being counted.                                 *)
(*                                                                         *)
(* One action is one access to shared memory. A data race is a state in    *)
(* which one thread is about to read a pointer and another to write it.    *)
(*                                                                         *)
(* A server of one worker has one record, which is active from before the  *)
(* worker has the socket until after Unbind, and admits a request only     *)
(* while it is not: shared = FALSE. With more workers a free record of     *)
(* another socket lets a request in, and the admission may meet this one   *)
(* whatever is done with it (see TransactionDispatch): shared = TRUE.      *)
(***************************************************************************)
EXTENDS Integers, FiniteSets

CONSTANTS
  Owners,        \* workers that may be given the socket
  BindMayFail,   \* whether a system call of Bind can fail
  MaxBinds       \* times the socket is bound (a bound on the runs)

ASSUME OwnersAssumption == IsFiniteSet(Owners) /\ "dispatch" \notin Owners
ASSUME BindAssumption == BindMayFail \in BOOLEAN
ASSUME MaxBindsAssumption == MaxBinds \in Nat

Threads == Owners \cup {"dispatch"}

VARIABLES
  state,        \* _state
  counter,      \* _activityCounter
  lifeCycle,    \* _osLifeCycle: the number of the binding, 0 for nullptr
  handle,       \* _osHandle: the binding it refers to, 0 for none
  binds,        \* bindings made so far
  pc,           \* where each thread is
  call,         \* the operation that called Os()
  os,           \* the binding each thread holds a shared_ptr to
  assigned,     \* workers whose _socket is this socket
  active,       \* isActive of the record that leads to this socket
  shared        \* whether the server has records of other sockets

pointers == <<lifeCycle, handle, binds>>
tables == <<assigned, active, shared>>
vars == <<state, counter, pointers, pc, call, os, tables>>

Bindings == 0 .. MaxBinds

States == {"Inactive", "Binding", "Bound", "Unbinding"}

\* "idle": between calls. "enter", "look", "lock", "leave": inside Os().
\* "use": back in the caller. "pollRead": Poll's read of _osLifeCycle.
\* "portLook", "portLock": GetSocketPort. "unbind", "drop", "inactive": Unbind.
\* "release", "released": the record, and the worker's state, after Unbind.
\* "quiet", "create", "swap", "handle", "publish", "assign": the dispatch thread.
Places == {"idle", "enter", "look", "lock", "leave", "use", "pollRead",
           "portLook", "portLock", "unbind", "drop", "inactive", "release", "released",
           "quiet", "create", "swap", "handle", "publish", "assign"}

\* "port": GetLocalPort. "reject": the error message of a rejected request.
Calls == {"none", "poll", "receive", "send", "port", "reject"}

TypeOK ==
  /\ state \in States
  /\ counter \in 0 .. Cardinality(Threads)
  /\ lifeCycle \in Bindings /\ handle \in Bindings /\ binds \in Bindings
  /\ pc \in [Threads -> Places]
  /\ call \in [Threads -> Calls]
  /\ os \in [Threads -> Bindings]
  /\ assigned \subseteq Owners
  /\ active \in BOOLEAN /\ shared \in BOOLEAN

Init ==
  /\ state = "Inactive" /\ counter = 0
  /\ lifeCycle = 0 /\ handle = 0 /\ binds = 0
  /\ pc = [t \in Threads |-> "idle"]
  /\ call = [t \in Threads |-> "none"]
  /\ os = [t \in Threads |-> 0]
  /\ assigned = {} /\ active = FALSE
  /\ shared \in BOOLEAN

Goto(t, place) == pc' = [pc EXCEPT ![t] = place]

-----------------------------------------------------------------------------
(***************************************************************************)
(* Os(), for any thread.                                                   *)
(***************************************************************************)
Calling(t, operation) ==
  /\ call' = [call EXCEPT ![t] = operation]
  /\ Goto(t, "enter")

Enter(t) ==
  /\ pc[t] = "enter"
  /\ counter' = counter + 1
  /\ Goto(t, "look")
  /\ UNCHANGED <<state, pointers, call, os, tables>>

\* (Definitions named Bug_... are plausible mistakes in the definition that
\* follows them. They are in no specification.)
Bug_IgnoresState(t) ==
  /\ pc[t] = "look"
  /\ Goto(t, "lock")
  /\ UNCHANGED <<state, counter, pointers, call, os, tables>>

LookAtState(t) ==
  /\ pc[t] = "look"
  /\ Goto(t, IF state = "Bound" THEN "lock" ELSE "leave")
  /\ UNCHANGED <<state, counter, pointers, call, os, tables>>

\* Where a thread goes on when its call is over.
After(t) ==
  CASE call[t] = "port" -> "assign" [] call[t] = "reject" -> "unbind" [] OTHER -> "idle"

\* The system's socket lives as long as somebody holds it.
Alive(binding) == binding # 0 /\ (lifeCycle = binding \/ \E t \in Threads : os[t] = binding)

Locked == IF Alive(handle) THEN handle ELSE 0

LockHandle(t) ==
  /\ pc[t] = "lock"
  /\ os' = [os EXCEPT ![t] = Locked]
  /\ Goto(t, "leave")
  /\ UNCHANGED <<state, counter, pointers, call, tables>>

Bug_StaysCounted(t) ==
  /\ pc[t] = "leave"
  /\ \/ os[t] # 0 /\ Goto(t, "use") /\ UNCHANGED call
     \/ os[t] = 0 /\ Goto(t, After(t))
                  /\ call' = [call EXCEPT ![t] = "none"]
  /\ UNCHANGED <<state, counter, pointers, os, tables>>

Bug_CallerIgnoresNull(t) ==
  /\ pc[t] = "leave"
  /\ counter' = counter - 1
  /\ Goto(t, "use")
  /\ UNCHANGED <<state, pointers, call, os, tables>>

\* Every caller returns when it is given nullptr: the dispatch thread has port
\* 0 then and goes on to assign the worker, or nothing is sent.
Leave(t) ==
  /\ pc[t] = "leave"
  /\ counter' = counter - 1
  /\ \/ os[t] # 0 /\ Goto(t, "use") /\ UNCHANGED call
     \/ os[t] = 0 /\ Goto(t, After(t))
                  /\ call' = [call EXCEPT ![t] = "none"]
  /\ UNCHANGED <<state, pointers, os, tables>>

Bug_KeepsSocket(t) ==
  /\ call' = [call EXCEPT ![t] = "none"]
  /\ Goto(t, After(t))
  /\ UNCHANGED <<state, counter, pointers, os, tables>>

\* The shared_ptr is dropped at the end of the call.
Return(t) ==
  /\ os' = [os EXCEPT ![t] = 0]
  /\ call' = [call EXCEPT ![t] = "none"]
  /\ Goto(t, After(t))
  /\ UNCHANGED <<state, counter, pointers, tables>>

\* What the caller does with the socket it was given: GetLocalPort and Send
\* use nothing else. (Receive goes through Os() a second time, in IsIpv6, and
\* AssignTransaction reads the port again: like other calls of the same thread
\* that leave nothing behind, and left out.)
UseSocket(t) ==
  /\ pc[t] = "use"
  /\ \/ call[t] = "poll" /\ Goto(t, "pollRead")
        /\ UNCHANGED <<state, counter, pointers, call, os, tables>>
     \/ call[t] = "receive" /\ Goto(t, "portLook")
        /\ UNCHANGED <<state, counter, pointers, call, os, tables>>
     \/ call[t] \in {"send", "port", "reject"} /\ Return(t)

\* _osLifeCycle->Socket
PollRead(t) == pc[t] = "pollRead" /\ Return(t)

\* GetSocketPort, called by Receive: IsBound, then lock, not counted.
PortLook(t) ==
  /\ pc[t] = "portLook"
  /\ \/ /\ state = "Bound" /\ Goto(t, "portLock")
        /\ UNCHANGED <<state, counter, pointers, call, os, tables>>
     \/ state # "Bound" /\ Return(t)

PortLock(t) == pc[t] = "portLock" /\ Return(t)

-----------------------------------------------------------------------------
(***************************************************************************)
(* The worker.                                                             *)
(***************************************************************************)
WorkerCalls(o) ==
  /\ pc[o] = "idle" /\ o \in assigned
  /\ \E operation \in {"poll", "receive", "send"} : Calling(o, operation)
  /\ UNCHANGED <<state, counter, pointers, os, tables>>

\* ServerWorker::TerminateTransaction drops the worker's _socket; the server
\* finds the record and calls Unbind.
WorkerTerminates(o) ==
  /\ pc[o] = "idle" /\ o \in assigned
  /\ assigned' = assigned \ {o}
  /\ Goto(o, "unbind")
  /\ UNCHANGED <<state, counter, pointers, call, os, active, shared>>

(***************************************************************************)
(* The end of a transaction: of a transfer in the worker's thread, of a    *)
(* rejected request in the dispatch thread.                                *)
(***************************************************************************)
\* The loop of Unbind; while the state is Binding it goes round.
BeginUnbind(t) ==
  /\ pc[t] = "unbind" /\ state # "Binding"
  /\ \/ state = "Bound" /\ state' = "Unbinding" /\ Goto(t, "drop")
     \/ state # "Bound" /\ UNCHANGED state /\ Goto(t, "release")
  /\ UNCHANGED <<counter, pointers, call, os, tables>>

DropLifeCycle(t) ==
  /\ pc[t] = "drop"
  /\ lifeCycle' = 0
  /\ Goto(t, "inactive")
  /\ UNCHANGED <<state, counter, handle, binds, call, os, tables>>

BecomeInactive(t) ==
  /\ pc[t] = "inactive"
  /\ state' = "Inactive"
  /\ Goto(t, "release")
  /\ UNCHANGED <<counter, pointers, call, os, tables>>

ReleaseRecord(t) ==
  /\ pc[t] = "release"
  /\ active' = FALSE
  /\ Goto(t, "released")
  /\ UNCHANGED <<state, counter, pointers, call, os, assigned, shared>>

\* The worker's _state is WAITING_FOR_REQUEST.
BecomeIdle(t) ==
  /\ pc[t] = "released"
  /\ Goto(t, "idle")
  /\ UNCHANGED <<state, counter, pointers, call, os, tables>>

-----------------------------------------------------------------------------
(***************************************************************************)
(* The dispatch thread: AssignWorkerToTransaction, for this socket.        *)
(***************************************************************************)
\* There is a free record, so that a request is admitted.
Admits == pc["dispatch"] = "idle" /\ (shared \/ ~active)

\* The socket is not bound: Bind fails at once unless it is Inactive, and
\* the port is read in any case.
TryBind ==
  /\ Admits /\ state # "Bound" /\ binds < MaxBinds
  /\ \/ state = "Inactive" /\ state' = "Binding"
        /\ Goto("dispatch", "quiet") /\ UNCHANGED call
     \/ state # "Inactive" /\ UNCHANGED state
        /\ Calling("dispatch", "port")
  /\ UNCHANGED <<counter, pointers, os, tables>>

\* All sockets are bound: the last one is used again. (The record then has an
\* index past the end, and the code's Unbind is undefined. Here it is that of
\* this socket; see TransactionDispatch.)
TakeBoundSocket ==
  /\ Admits /\ state = "Bound"
  /\ Calling("dispatch", "port")
  /\ UNCHANGED <<state, counter, pointers, os, tables>>

Bug_DoesNotWait ==
  /\ pc["dispatch"] = "quiet"
  /\ Goto("dispatch", "create")
  /\ UNCHANGED <<state, counter, pointers, call, os, tables>>

WaitForQuiet ==
  /\ pc["dispatch"] = "quiet" /\ counter = 0
  /\ Goto("dispatch", "create")
  /\ UNCHANGED <<state, counter, pointers, call, os, tables>>

\* When a system call fails, the state stays Binding.
CreateAndBind ==
  /\ pc["dispatch"] = "create"
  /\ \/ binds' = binds + 1 /\ Goto("dispatch", "swap") /\ UNCHANGED call
     \/ BindMayFail /\ Calling("dispatch", "port") /\ UNCHANGED binds
  /\ UNCHANGED <<state, counter, lifeCycle, handle, os, tables>>

SwapLifeCycle ==
  /\ pc["dispatch"] = "swap"
  /\ lifeCycle' = binds
  /\ Goto("dispatch", "handle")
  /\ UNCHANGED <<state, counter, handle, binds, call, os, tables>>

WriteHandle ==
  /\ pc["dispatch"] = "handle"
  /\ handle' = lifeCycle
  /\ Goto("dispatch", "publish")
  /\ UNCHANGED <<state, counter, lifeCycle, binds, call, os, tables>>

PublishBound ==
  /\ pc["dispatch"] = "publish"
  /\ state' = "Bound"
  /\ Calling("dispatch", "port")
  /\ UNCHANGED <<counter, pointers, os, tables>>

(***************************************************************************)
(* The record and the socket go to an idle worker, if there is one. The    *)
(* request is granted, and the dispatch thread is done when it is to read, *)
(* and has Ack(0) to send, beside the worker, when it is to write; or it   *)
(* is rejected, and the dispatch thread says so and ends the transaction.  *)
(***************************************************************************)
AssignSocket ==
  /\ pc["dispatch"] = "assign"
  /\ \/ /\ \A o \in Owners : o \in assigned \/ pc[o] # "idle"
        /\ Goto("dispatch", "idle") /\ UNCHANGED <<call, active, assigned>>
     \/ /\ \E o \in Owners \ assigned :
             /\ pc[o] = "idle" /\ active' = TRUE
             /\ \/ /\ assigned' = assigned \cup {o}
                   /\ \/ Goto("dispatch", "idle") /\ UNCHANGED call
                      \/ Calling("dispatch", "send")
                \/ Calling("dispatch", "reject") /\ UNCHANGED assigned
  /\ UNCHANGED <<state, counter, pointers, os, shared>>

-----------------------------------------------------------------------------
OsStep(t) ==
  \/ Enter(t) \/ LookAtState(t) \/ LockHandle(t) \/ Leave(t) \/ UseSocket(t)

TerminationStep(t) ==
  \/ BeginUnbind(t) \/ DropLifeCycle(t) \/ BecomeInactive(t)
  \/ ReleaseRecord(t) \/ BecomeIdle(t)

WorkerStep(o) ==
  \/ OsStep(o) \/ PollRead(o) \/ PortLook(o) \/ PortLock(o)
  \/ TerminationStep(o)

DispatchStep ==
  \/ OsStep("dispatch") \/ TerminationStep("dispatch")
  \/ WaitForQuiet \/ CreateAndBind \/ SwapLifeCycle \/ WriteHandle
  \/ PublishBound \/ AssignSocket

Next ==
  \/ \E t \in Threads :
       \/ Enter(t) \/ LookAtState(t) \/ LockHandle(t) \/ Leave(t) \/ UseSocket(t)
       \/ BeginUnbind(t) \/ DropLifeCycle(t) \/ BecomeInactive(t)
       \/ ReleaseRecord(t) \/ BecomeIdle(t)
  \/ \E o \in Owners :
       \/ PollRead(o) \/ PortLook(o) \/ PortLock(o)
       \/ WorkerCalls(o) \/ WorkerTerminates(o)
  \/ TryBind \/ TakeBoundSocket \/ WaitForQuiet \/ CreateAndBind
  \/ SwapLifeCycle \/ WriteHandle \/ PublishBound \/ AssignSocket

Spec == Init /\ [][Next]_vars

\* A thread that is inside a call is scheduled.
FairSpec ==
  Spec /\ WF_vars(DispatchStep) /\ \A o \in Owners : WF_vars(WorkerStep(o))

-----------------------------------------------------------------------------
\* Os() never reads the handle while Bind writes it, even when another
\* worker unbinds the socket between Os()'s look at the state and its read.
HandleReadIsSafe ==
  \A t \in Threads : ~(pc[t] = "lock" /\ pc["dispatch"] = "handle")

GivenLatest == \A t \in Threads : os'[t] # os[t] => os'[t] \in {0, binds}

\* Os() gives its caller the latest binding or none, never the system's
\* socket of an earlier one that somebody else still keeps alive.
OsGivesLatest == [][GivenLatest]_vars

\* Poll dereferences _osLifeCycle while it owns the socket, and nobody is
\* about to replace it. Nothing in Poll sees to it: it holds as long as the
\* worker that polls is the only one to unbind, and the record keeps requests
\* out until it has.
PollReadsLiveSocket ==
  \A t \in Threads : ~shared /\ pc[t] = "pollRead" =>
    /\ lifeCycle # 0
    /\ pc["dispatch"] # "swap"
    /\ \A u \in Threads : pc[u] # "drop"

\* When Unbind has made the socket Inactive nobody still holds the system's
\* socket, so that its port is closed, but for the dispatch thread that is
\* sending Ack(0) while the transaction is over already; and when Bind makes a
\* new one there is no exception.
UnbindCloses ==
  ~shared =>
    \A t \in Threads : os[t] # 0 =>
      /\ state = "Inactive" => t = "dispatch" /\ call[t] = "send"
      /\ state # "Binding"

\* Bind does not wait for ever for the users of the socket to be gone.
BindReturns == ~shared /\ pc["dispatch"] = "quiet" ~> pc["dispatch"] = "assign"
=============================================================================
