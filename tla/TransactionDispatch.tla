------------------------ MODULE TransactionDispatch ------------------------
(***************************************************************************)
(* How tftplib's Server hands transaction requests to its workers, and how *)
(* a worker gives its resources back (Server.cpp:131-348,                  *)
(* ServerWorker.cpp:84-136 and 695-750).                                   *)
(*                                                                         *)
(* A server with _threadCount = Count has Count workers, Count transaction *)
(* sockets and Count transaction records, all created by Server::Start.    *)
(* One dispatch thread reads requests from the control socket; it alone    *)
(* activates records, binds sockets and assigns workers. The thread that   *)
(* ends a transaction - the worker's own, or the dispatch thread when the  *)
(* worker rejects the request - unbinds the socket, frees the record and   *)
(* declares the worker idle, in three separate steps. No lock covers the   *)
(* three resources: an admission can see some of them free and others not. *)
(*                                                                         *)
(* What happens inside a transaction (the transfer) is in ReadTransfer and *)
(* WriteTransfer; here it may end at any moment. Starting and stopping the *)
(* server are not modelled: the model begins when Start has returned.      *)
(***************************************************************************)
EXTENDS Integers, FiniteSets

CONSTANTS
  Count,        \* _threadCount
  Clients,      \* client transfer identifiers (their UDP ports)
  Ports,        \* UDP ports the system may give to a transaction socket
  BindMayFail   \* whether creating or binding a socket can fail

ASSUME CountAssumption == Count \in Nat \ {0}
ASSUME IdentifiersAssumption == 0 \notin Ports \cup Clients
ASSUME BindAssumption == BindMayFail \in BOOLEAN

Slots == 0 .. (Count - 1)

VARIABLES
  sockets,    \* _transactionSockets: the state and local port of each
  records,    \* _transactions
  workers,    \* _workers: _state, _clientTid, _serverTid and _socket of each
  ending,     \* TerminateTransaction in progress on behalf of each worker
  dispatch,   \* where the dispatch thread is, and its local variables
  crashed     \* a read past the end of _transactionSockets has happened

vars == <<sockets, records, workers, ending, dispatch, crashed>>

(***************************************************************************)
(* Count stands for "one past the last": a loop index that found nothing,  *)
(* and a null _socket of a worker.                                         *)
(***************************************************************************)
Index == 0 .. Count

SocketStates == {"Inactive", "Binding", "Bound", "Unbinding"}

\* WAITING_FOR_DATA and WAITING_FOR_ACK are one state here, TRANSFERRING;
\* SETTING_UP_REQUEST and PROCESSING_REQUEST are one too, PROCESSING.
WorkerStates == {"INACTIVE", "WAITING_FOR_REQUEST", "PROCESSING", "TRANSFERRING"}

EndingSteps == {"none", "find", "unbind", "unbinding", "release", "ready"}

DispatchSteps ==
  {"poll", "admit", "socket", "bind", "port", "record", "worker",
   "setSocketId", "setClientTID", "setServerTID", "setActive",
   "assign", "request", "rejecting"}

TypeOK ==
  /\ sockets \in [Slots -> [state : SocketStates, port : Ports \cup {0}]]
  /\ records \in [Slots -> [socketId : Index, clientTID : Clients \cup {0},
                            serverTID : Ports \cup {0}, isActive : BOOLEAN]]
  /\ workers \in [Slots -> [state : WorkerStates, clientTid : Clients \cup {0},
                            serverTid : Ports \cup {0}, socket : Index]]
  /\ ending \in [Slots -> [step : EndingSteps, record : Index, socket : Index]]
  /\ dispatch \in [step : DispatchSteps, client : Clients \cup {0}, good : BOOLEAN,
                   freeSocket : Index, serverTid : Ports \cup {0},
                   i : Index, record : Index]
  /\ crashed \in BOOLEAN

Polling ==
  [step |-> "poll", client |-> 0, good |-> FALSE, freeSocket |-> 0,
   serverTid |-> 0, i |-> 0, record |-> Count]

NotEnding == [step |-> "none", record |-> Count, socket |-> Count]

Init ==
  /\ sockets = [s \in Slots |-> [state |-> "Inactive", port |-> 0]]
  /\ records = [r \in Slots |-> [socketId |-> 0, clientTID |-> 0,
                                 serverTID |-> 0, isActive |-> FALSE]]
  /\ workers = [w \in Slots |-> [state |-> "INACTIVE", clientTid |-> 0,
                                 serverTid |-> 0, socket |-> Count]]
  /\ ending = [w \in Slots |-> NotEnding]
  /\ dispatch = Polling
  /\ crashed = FALSE

-----------------------------------------------------------------------------
(***************************************************************************)
(* The dispatch thread.                                                    *)
(***************************************************************************)
At(step) == dispatch.step = step /\ ~crashed

\* GetLocalPort: 0 unless the socket is bound
LocalPort(s) == IF sockets[s].state = "Bound" THEN sockets[s].port ELSE 0

\* The variable socket of AssignWorkerToTransaction: when the loop finds
\* nothing it is left at the last socket, not at nullptr.
ChosenSocket ==
  IF dispatch.freeSocket = Count THEN Count - 1 ELSE dispatch.freeSocket

IsBusy(w) == workers[w].state # "WAITING_FOR_REQUEST"

\* (Definitions named Bug_... are plausible mistakes in the definition that
\* follows them. They are in no specification.)
Bug_MaxOffByOne == Cardinality({r \in Slots : records[r].isActive}) > Count

\* The loop looks at one record after another. It is one step here: records
\* become active in this thread only, so that one found free stays free, and
\* one found active may be free a moment later in either case.
IsHandlingMaxTransactions == \A r \in Slots : records[r].isActive

\* A request arrives on the control socket. "good" says whether the worker
\* will accept it (valid, file permitted and lockable) or reject it.
ReceiveRequest ==
  /\ At("poll")
  /\ \E c \in Clients, good \in BOOLEAN :
       dispatch' = [dispatch EXCEPT !.step = "admit", !.client = c, !.good = good]
  /\ UNCHANGED <<sockets, records, workers, ending, crashed>>

\* ProcessNewTransactionRequest: a reply from the control socket, or on to
\* AssignWorkerToTransaction.
Admit ==
  /\ At("admit")
  /\ dispatch' = IF IsHandlingMaxTransactions THEN Polling
                 ELSE [dispatch EXCEPT !.step = "socket"]
  /\ UNCHANGED <<sockets, records, workers, ending, crashed>>

Bug_TakesBoundSocket ==
  /\ At("socket") /\ dispatch.freeSocket < Count
  /\ LET s == dispatch.freeSocket IN
     IF sockets[s].state = "Inactive"
     THEN /\ sockets' = [sockets EXCEPT ![s].state = "Binding"]
          /\ dispatch' = [dispatch EXCEPT !.step = "bind"]
     ELSE /\ dispatch' = [dispatch EXCEPT !.step = "port"]
          /\ UNCHANGED sockets
  /\ UNCHANGED <<records, workers, ending, crashed>>

\* One turn of the loop over _transactionSockets. Bind fails at once on a
\* socket that is not Inactive, and its result is not looked at.
ScanSockets ==
  /\ At("socket") /\ dispatch.freeSocket < Count
  /\ LET s == dispatch.freeSocket IN
     \/ /\ sockets[s].state = "Bound"
        /\ dispatch' = [dispatch EXCEPT !.freeSocket = s + 1]
        /\ UNCHANGED sockets
     \/ /\ sockets[s].state = "Inactive"
        /\ sockets' = [sockets EXCEPT ![s].state = "Binding"]
        /\ dispatch' = [dispatch EXCEPT !.step = "bind"]
     \/ /\ sockets[s].state \in {"Binding", "Unbinding"}
        /\ dispatch' = [dispatch EXCEPT !.step = "port"]
        /\ UNCHANGED sockets
  /\ UNCHANGED <<records, workers, ending, crashed>>

\* Every socket was bound. The null test that follows the loop cannot fail.
NoFreeSocket ==
  /\ At("socket") /\ dispatch.freeSocket = Count
  /\ dispatch' = [dispatch EXCEPT !.step = "port"]
  /\ UNCHANGED <<sockets, records, workers, ending, crashed>>

\* The system gives a bound socket a port that no other socket has. It may
\* have been used before, but no record that is still in the table, free or
\* not, carries it: see "Assumptions" in the README.
FreshPorts ==
  Ports \ ({sockets[s].port : s \in Slots} \cup {records[r].serverTID : r \in Slots})

\* The rest of Bind. When a system call fails, the state stays Binding.
FinishBind ==
  /\ At("bind")
  /\ LET s == dispatch.freeSocket IN
     \/ \E p \in FreshPorts :
          sockets' = [sockets EXCEPT ![s] = [state |-> "Bound", port |-> p]]
     \/ BindMayFail /\ UNCHANGED sockets
  /\ dispatch' = [dispatch EXCEPT !.step = "port"]
  /\ UNCHANGED <<records, workers, ending, crashed>>

\* The first read of the socket's port, for the record.
ReadServerTid ==
  /\ At("port")
  /\ dispatch' = [dispatch EXCEPT !.step = "record", !.i = 0,
                                  !.serverTid = LocalPort(ChosenSocket)]
  /\ UNCHANGED <<sockets, records, workers, ending, crashed>>

Bug_TakesActiveRecord ==
  /\ At("record")
  /\ dispatch' = [dispatch EXCEPT !.step = "worker", !.i = 0, !.record = dispatch.i]
  /\ UNCHANGED <<sockets, records, workers, ending, crashed>>

\* FindFreeTransactionRecord, one record per step. With no free record the
\* request is turned away (AdmittedFindsRecord: it never is).
ScanRecords ==
  /\ At("record")
  /\ dispatch' =
       IF dispatch.i = Count THEN Polling
       ELSE IF records[dispatch.i].isActive THEN [dispatch EXCEPT !.i = @ + 1]
       ELSE [dispatch EXCEPT !.step = "worker", !.i = 0, !.record = dispatch.i]
  /\ UNCHANGED <<sockets, records, workers, ending, crashed>>

\* The loop over _workers, one worker per step.
ScanWorkers ==
  /\ At("worker") /\ dispatch.i < Count
  /\ dispatch' = IF IsBusy(dispatch.i) THEN [dispatch EXCEPT !.i = @ + 1]
                 ELSE [dispatch EXCEPT !.step = "setSocketId"]
  /\ UNCHANGED <<sockets, records, workers, ending, crashed>>

\* "Shouldn't happen." The socket that was bound for the request stays bound.
NoAvailableWorker ==
  /\ At("worker") /\ dispatch.i = Count
  /\ dispatch' = Polling
  /\ UNCHANGED <<sockets, records, workers, ending, crashed>>

\* The fields of the record are written one after the other, while workers
\* search the table.
SetField(step, newRecord, next) ==
  /\ At(step)
  /\ records' = [records EXCEPT ![dispatch.record] = newRecord]
  /\ dispatch' = [dispatch EXCEPT !.step = next]
  /\ UNCHANGED <<sockets, workers, ending, crashed>>

Bug_RecordOfLastSocket ==
  LET rec == records[dispatch.record] IN
  \/ SetField("setSocketId", [rec EXCEPT !.socketId = Count - 1], "setClientTID")
  \/ SetField("setClientTID", [rec EXCEPT !.clientTID = dispatch.client], "setServerTID")
  \/ SetField("setServerTID", [rec EXCEPT !.serverTID = dispatch.serverTid], "setActive")
  \/ SetField("setActive", [rec EXCEPT !.isActive = TRUE], "assign")

FillRecord ==
  LET rec == records[dispatch.record] IN
  \/ SetField("setSocketId", [rec EXCEPT !.socketId = dispatch.freeSocket], "setClientTID")
  \/ SetField("setClientTID", [rec EXCEPT !.clientTID = dispatch.client], "setServerTID")
  \/ SetField("setServerTID", [rec EXCEPT !.serverTID = dispatch.serverTid], "setActive")
  \/ SetField("setActive", [rec EXCEPT !.isActive = TRUE], "assign")

\* AssignTransaction: only the dispatch thread takes a worker out of
\* WAITING_FOR_REQUEST, so the exchange succeeds. The port is read again.
AssignTransaction ==
  /\ At("assign")
  /\ workers' = [workers EXCEPT ![dispatch.i] =
                   [state |-> "PROCESSING", clientTid |-> dispatch.client,
                    serverTid |-> LocalPort(ChosenSocket), socket |-> ChosenSocket]]
  /\ dispatch' = [dispatch EXCEPT !.step = "request"]
  /\ UNCHANGED <<sockets, records, ending, crashed>>

\* ProcessRequestMessage on the dispatch thread: the worker takes over, or
\* the request is rejected and the transaction terminated here and now. What
\* the dispatch thread still does when the worker may run, Ack(0) and the
\* signal, is in WriteTransfer, UdpSocket and ServerLifecycle.
ProcessRequestMessage ==
  /\ At("request")
  /\ LET w == dispatch.i IN
     \/ /\ dispatch.good
        /\ workers' = [workers EXCEPT ![w].state = "TRANSFERRING"]
        /\ dispatch' = Polling
        /\ UNCHANGED ending
     \/ /\ ~dispatch.good
        /\ workers' = [workers EXCEPT ![w].socket = Count]
        /\ ending' = [ending EXCEPT ![w].step = "find"]
        /\ dispatch' = [dispatch EXCEPT !.step = "rejecting"]
  /\ UNCHANGED <<sockets, records, crashed>>

RequestRejected ==
  /\ At("rejecting")
  /\ ending[dispatch.i].step = "none"
  /\ dispatch' = Polling
  /\ UNCHANGED <<sockets, records, workers, ending, crashed>>

-----------------------------------------------------------------------------
(***************************************************************************)
(* The workers.                                                            *)
(***************************************************************************)
\* Run: the worker thread has started.
WorkerRuns(w) ==
  /\ ~crashed /\ workers[w].state = "INACTIVE"
  /\ workers' = [workers EXCEPT ![w].state = "WAITING_FOR_REQUEST"]
  /\ UNCHANGED <<sockets, records, ending, dispatch, crashed>>

\* The transfer is over (done, aborted or timed out) and the worker enters
\* TerminateTransaction, which drops its hold on the socket first.
EndTransfer(w) ==
  /\ ~crashed /\ workers[w].state = "TRANSFERRING" /\ ending[w].step = "none"
  /\ workers' = [workers EXCEPT ![w].socket = Count]
  /\ ending' = [ending EXCEPT ![w].step = "find"]
  /\ UNCHANGED <<sockets, records, dispatch, crashed>>

Ending(w, step) == ending[w].step = step /\ ~crashed

GoOn(w, next) == ending' = [ending EXCEPT ![w].step = next]

Matches(r, w) ==
  /\ records[r].clientTID = workers[w].clientTid
  /\ records[r].serverTID = workers[w].serverTid

\* The records that carry the worker's pair, active or not.
RecordsOf(w) == {r \in Slots : Matches(r, w)}

IsFirst(r, S) == r \in S /\ \A q \in S : r <= q

\* Server::TerminateTransaction looks its record up by the pair of transfer
\* identifiers; with none it changes nothing. A socketId out of range is an
\* access past the end of the vector: the process does not survive it.
\* (The loop that compares field by field is one step here. A record that is
\* half written meanwhile has the port of its old transaction or of its new
\* one, and neither is this worker's: see the assumption on fresh ports.)
FindRecord(w) ==
  /\ Ending(w, "find")
  /\ \/ /\ RecordsOf(w) = {}
        /\ GoOn(w, "ready")
        /\ UNCHANGED crashed
     \/ \E r \in Slots :
             /\ IsFirst(r, RecordsOf(w))
             /\ ending' = [ending EXCEPT ![w] =
                  [step |-> "unbind", record |-> r, socket |-> records[r].socketId]]
             /\ crashed' = (records[r].socketId = Count)
  /\ UNCHANGED <<sockets, records, workers, dispatch>>

Bug_ForgetsUnbind(w) ==
  /\ Ending(w, "unbind")
  /\ GoOn(w, "release")
  /\ UNCHANGED <<sockets, records, workers, dispatch, crashed>>

\* The loop at the head of Unbind. It is left when the socket is Inactive or
\* somebody else unbinds it; while the socket is Binding it goes round.
BeginUnbind(w) ==
  /\ Ending(w, "unbind")
  /\ LET s == ending[w].socket IN
     \/ /\ sockets[s].state = "Bound"
        /\ sockets' = [sockets EXCEPT ![s].state = "Unbinding"]
        /\ GoOn(w, "unbinding")
     \/ /\ sockets[s].state \in {"Inactive", "Unbinding"}
        /\ GoOn(w, "release")
        /\ UNCHANGED sockets
  /\ UNCHANGED <<records, workers, dispatch, crashed>>

\* Ten milliseconds later the handle is dropped.
FinishUnbind(w) ==
  /\ Ending(w, "unbinding")
  /\ sockets' = [sockets EXCEPT ![ending[w].socket] =
                   [state |-> "Inactive", port |-> 0]]
  /\ GoOn(w, "release")
  /\ UNCHANGED <<records, workers, dispatch, crashed>>

Bug_NeverIdle(w) ==
  /\ Ending(w, "release")
  /\ records' = [records EXCEPT ![ending[w].record].isActive = FALSE]
  /\ ending' = [ending EXCEPT ![w] = NotEnding]
  /\ UNCHANGED <<sockets, workers, dispatch, crashed>>

ReleaseRecord(w) ==
  /\ Ending(w, "release")
  /\ records' = [records EXCEPT ![ending[w].record].isActive = FALSE]
  /\ GoOn(w, "ready")
  /\ UNCHANGED <<sockets, workers, dispatch, crashed>>

Bug_IdleFromTransferOnly(w) ==
  /\ Ending(w, "ready") /\ workers[w].state = "TRANSFERRING"
  /\ workers' = [workers EXCEPT ![w].state = "WAITING_FOR_REQUEST"]
  /\ ending' = [ending EXCEPT ![w] = NotEnding]
  /\ UNCHANGED <<sockets, records, dispatch, crashed>>

\* The last statement of ServerWorker::TerminateTransaction.
BecomeIdle(w) ==
  /\ Ending(w, "ready")
  /\ workers' = [workers EXCEPT ![w].state = "WAITING_FOR_REQUEST"]
  /\ ending' = [ending EXCEPT ![w] = NotEnding]
  /\ UNCHANGED <<sockets, records, dispatch, crashed>>

Terminate(w) ==
  \/ FindRecord(w) \/ BeginUnbind(w) \/ FinishUnbind(w)
  \/ ReleaseRecord(w) \/ BecomeIdle(w)

-----------------------------------------------------------------------------
DispatchStep ==
  \/ Admit \/ ScanSockets \/ NoFreeSocket \/ FinishBind \/ ReadServerTid
  \/ ScanRecords \/ ScanWorkers \/ NoAvailableWorker
  \/ FillRecord \/ AssignTransaction \/ ProcessRequestMessage \/ RequestRejected

Next ==
  \/ ReceiveRequest \/ Admit \/ ScanSockets \/ NoFreeSocket \/ FinishBind
  \/ ReadServerTid \/ ScanRecords \/ ScanWorkers
  \/ NoAvailableWorker \/ FillRecord \/ AssignTransaction
  \/ ProcessRequestMessage \/ RequestRejected
  \/ \E w \in Slots :
       \/ WorkerRuns(w) \/ EndTransfer(w)
       \/ FindRecord(w) \/ BeginUnbind(w) \/ FinishUnbind(w)
       \/ ReleaseRecord(w) \/ BecomeIdle(w)

Spec == Init /\ [][Next]_vars

(***************************************************************************)
(* Threads that can take a step are scheduled, and a transfer ends (its    *)
(* end is the liveness property of ReadTransfer and WriteTransfer, whose   *)
(* exception, a receive that fails, ends the process). No request needs to *)
(* come.                                                                   *)
(***************************************************************************)
Fairness ==
  /\ WF_vars(DispatchStep)
  /\ \A w \in Slots :
       /\ WF_vars(WorkerRuns(w)) /\ WF_vars(EndTransfer(w))
       /\ WF_vars(Terminate(w))

FairSpec == Spec /\ Fairness

(***************************************************************************)
(* The same server when its two unguarded reads happen to be made at a     *)
(* good moment: no admission is decided while a worker is starting or has  *)
(* freed its record but is not idle yet, and no socket is tried while it   *)
(* is being unbound. Everything else still interleaves. The code has       *)
(* nothing that enforces these two conditions.                             *)
(***************************************************************************)
WorkersSettled ==
  \A w \in Slots : workers[w].state # "INACTIVE" /\ ending[w].step # "ready"

SpacedNext ==
  \/ ReceiveRequest
  \/ WorkersSettled /\ Admit
  \/ (dispatch.freeSocket \in Slots =>
         sockets[dispatch.freeSocket].state # "Unbinding") /\ ScanSockets
  \/ NoFreeSocket \/ FinishBind
  \/ ReadServerTid \/ ScanRecords \/ ScanWorkers
  \/ NoAvailableWorker \/ FillRecord \/ AssignTransaction
  \/ ProcessRequestMessage \/ RequestRejected
  \/ \E w \in Slots :
       \/ WorkerRuns(w) \/ EndTransfer(w)
       \/ FindRecord(w) \/ BeginUnbind(w) \/ FinishUnbind(w)
       \/ ReleaseRecord(w) \/ BecomeIdle(w)

SpacedSpec == Init /\ [][SpacedNext]_vars

-----------------------------------------------------------------------------
(***************************************************************************)
(* Properties of the code as it is.                                        *)
(***************************************************************************)
\* A request that passed IsHandlingMaxTransactions finds a free record: the
\* test and the use are apart, but only the dispatch thread fills records.
AdmittedFindsRecord == ~(dispatch.step = "record" /\ dispatch.i = Count)

\* The record an admission has chosen stays free until the admission fills
\* it: no running transaction's record is ever overwritten.
ReservedRecordStaysFree ==
  dispatch.step \in {"worker", "setSocketId", "setClientTID", "setServerTID", "setActive"}
    => ~records[dispatch.record].isActive

\* The comment at Server.cpp:342: an admitted request that got a socket and
\* a record finds an idle worker.
ShouldntHappen == ~(dispatch.step = "worker" /\ dispatch.i = Count)

\* A socket whose Bind failed: it stays Binding and Unbind never returns.
Stuck(s) ==
  /\ sockets[s].state = "Binding"
  /\ ~(dispatch.step = "bind" /\ dispatch.freeSocket = s)

\* Whatever the races, a request is dealt with and the dispatch thread polls
\* again, unless the process is gone or a socket's Bind has failed: to unbind
\* that socket, for a rejected request, takes for ever.
DispatchReturns ==
  dispatch.step # "poll"
    ~> dispatch.step = "poll" \/ crashed \/ \E s \in Slots : Stuck(s)

\* Whatever the races, a worker that was given a transaction becomes idle
\* again, with the same two exceptions.
WorkerReturns ==
  \A w \in Slots :
    workers[w].state \in {"PROCESSING", "TRANSFERRING"}
      ~> workers[w].state = "WAITING_FOR_REQUEST" \/ crashed
         \/ \E s \in Slots : Stuck(s)

(***************************************************************************)
(* The bookkeeping, when no admission meets a half-finished termination    *)
(* (SpacedSpec) and Bind does not fail.                                    *)
(***************************************************************************)
InTransaction(w) ==
  /\ workers[w].state \in {"PROCESSING", "TRANSFERRING"}
  /\ ending[w].step \notin {"release", "ready"}

\* Every transaction has exactly one active record with its identifiers,
\* and that record leads to the socket the transaction uses, still bound to
\* the port the client talks to: its termination will release what it holds.
OwnRecord ==
  \A w \in Slots :
    InTransaction(w) =>
      \E r \in RecordsOf(w) :
        /\ RecordsOf(w) = {r}
        /\ records[r].isActive
        /\ records[r].socketId \in Slots
        /\ sockets[records[r].socketId].port = workers[w].serverTid
        /\ workers[w].serverTid # 0
        /\ workers[w].socket \in {records[r].socketId, Count}

\* Two transactions never share a socket.
SocketExclusive ==
  \A v, w \in Slots :
    v # w /\ InTransaction(v) /\ InTransaction(w)
      => workers[v].serverTid # workers[w].serverTid

\* A socket that is bound is on its way into a transaction or belongs to an
\* active record: none is left over by a request that was turned away.
NoSocketLeak ==
  \A s \in Slots :
    sockets[s].state = "Bound" =>
      \/ dispatch.freeSocket = s
            /\ dispatch.step \in {"port", "record", "worker", "setSocketId",
                                 "setClientTID", "setServerTID", "setActive"}
      \/ \E r \in Slots : records[r].isActive /\ records[r].socketId = s
=============================================================================
