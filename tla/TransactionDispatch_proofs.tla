---------------------- MODULE TransactionDispatch_proofs ----------------------
(***************************************************************************)
(* TransactionDispatch for any number of workers, clients and ports, with  *)
(* all its races: what the dispatch thread finds out about the records is  *)
(* still true when it acts on it, although the test of                     *)
(* IsHandlingMaxTransactions, the choice of a record and the writing of    *)
(* its fields are far apart. The reason is that the dispatch thread alone  *)
(* activates records; the threads that end transactions only free them.    *)
(* The second part proves the bookkeeping of SpacedSpec: what a transaction*)
(* holds is its own, and its termination finds all of it.                  *)
(***************************************************************************)
EXTENDS TransactionDispatch, FiniteSetTheorems, TLAPS

SocketType == [state : SocketStates, port : Ports \cup {0}]
RecordType == [socketId : Index, clientTID : Clients \cup {0},
               serverTID : Ports \cup {0}, isActive : BOOLEAN]
WorkerType == [state : WorkerStates, clientTid : Clients \cup {0},
               serverTid : Ports \cup {0}, socket : Index]
EndingType == [step : EndingSteps, record : Index, socket : Index]
DispatchType == [step : DispatchSteps, client : Clients \cup {0}, good : BOOLEAN,
                 freeSocket : Index, serverTid : Ports \cup {0},
                 i : Index, record : Index]

RecordChosen ==
  {"worker", "setSocketId", "setClientTID", "setServerTID", "setActive"}
WorkerChosen ==
  {"setSocketId", "setClientTID", "setServerTID", "setActive", "assign",
   "request", "rejecting"}
Searched == {"unbind", "unbinding", "release"}

\* The indices that are used to index a table are in its range.
IndicesInRange ==
  /\ dispatch.step = "bind" => dispatch.freeSocket \in Slots
  /\ dispatch.step \in RecordChosen => dispatch.record \in Slots
  /\ dispatch.step \in WorkerChosen => dispatch.i \in Slots
  /\ \A w \in Slots : ending[w].step \in Searched =>
       ending[w].record \in Slots /\ (crashed \/ ending[w].socket \in Slots)

\* From the admission on there is a free record, and the search for it has
\* not passed it.
FreeRecordAhead ==
  /\ dispatch.step \in {"socket", "bind", "port"} =>
       \E r \in Slots : ~records[r].isActive
  /\ dispatch.step = "record" =>
       \E r \in Slots : r >= dispatch.i /\ ~records[r].isActive

IInv == TypeOK /\ IndicesInRange /\ FreeRecordAhead /\ ReservedRecordStaysFree

-----------------------------------------------------------------------------
LEMMA Types ==
  TypeOK <=> /\ sockets \in [Slots -> SocketType]
             /\ records \in [Slots -> RecordType]
             /\ workers \in [Slots -> WorkerType]
             /\ ending \in [Slots -> EndingType]
             /\ dispatch \in DispatchType
             /\ crashed \in BOOLEAN
BY DEF TypeOK, SocketType, RecordType, WorkerType, EndingType, DispatchType

LEMMA TypesNext ==
  TypeOK' <=> /\ sockets' \in [Slots -> SocketType]
              /\ records' \in [Slots -> RecordType]
              /\ workers' \in [Slots -> WorkerType]
              /\ ending' \in [Slots -> EndingType]
              /\ dispatch' \in DispatchType
              /\ crashed' \in BOOLEAN
BY DEF TypeOK, SocketType, RecordType, WorkerType, EndingType, DispatchType

LEMMA Indices ==
  /\ 0 \in Index /\ Count \in Index /\ Slots \subseteq Index
  /\ \A i \in Index : i # Count <=> i \in Slots
  /\ \A i \in Index : i < Count => i \in Slots
  /\ \A i \in Slots : i + 1 \in Index
  /\ Count - 1 \in Slots
BY CountAssumption DEF Slots, Index

LEMMA IdleTypes == Polling \in DispatchType /\ NotEnding \in EndingType
BY Indices
DEF Polling, NotEnding, DispatchType, EndingType, DispatchSteps, EndingSteps

\* Replacing a field of an entry keeps the type of the table.
LEMMA FieldUpdates ==
  ASSUME NEW s \in Slots
  PROVE  /\ \A f \in [Slots -> SocketType], v \in SocketStates :
              [f EXCEPT ![s].state = v] \in [Slots -> SocketType]
         /\ \A f \in [Slots -> RecordType] :
              [f EXCEPT ![s].isActive = FALSE] \in [Slots -> RecordType]
         /\ \A f \in [Slots -> WorkerType], v \in WorkerStates :
              [f EXCEPT ![s].state = v] \in [Slots -> WorkerType]
         /\ \A f \in [Slots -> WorkerType], v \in Index :
              [f EXCEPT ![s].socket = v] \in [Slots -> WorkerType]
         /\ \A f \in [Slots -> EndingType], v \in EndingSteps :
              [f EXCEPT ![s].step = v] \in [Slots -> EndingType]
BY DEF SocketType, RecordType, WorkerType, EndingType

\* The record with a field set by FillRecord.
LEMMA RecordUpdates ==
  ASSUME NEW rec \in RecordType, NEW d \in DispatchType
  PROVE  /\ [rec EXCEPT !.socketId = d.freeSocket] \in RecordType
         /\ [rec EXCEPT !.clientTID = d.client] \in RecordType
         /\ [rec EXCEPT !.serverTID = d.serverTid] \in RecordType
         /\ [rec EXCEPT !.isActive = TRUE] \in RecordType
BY DEF RecordType, DispatchType

LEMMA PortType ==
  ASSUME TypeOK, NEW s \in Slots
  PROVE  LocalPort(s) \in Ports \cup {0}
BY Types DEF LocalPort, SocketType

-----------------------------------------------------------------------------
\* Each conjunct of the invariant is kept by every step.
LEMMA TypeNext ==
  ASSUME TypeOK, IndicesInRange, [Next]_vars
  PROVE  TypeOK'
<1> USE Types, Indices
<1>1. CASE ReceiveRequest
  <2>1. dispatch' \in DispatchType
    BY <1>1, IdleTypes DEF ReceiveRequest, At, DispatchType, DispatchSteps
  <2> QED
    BY <1>1, <2>1, TypesNext DEF ReceiveRequest
<1>2. CASE Admit
  <2>1. dispatch' \in DispatchType
    BY <1>2, IdleTypes DEF Admit, IsHandlingMaxTransactions, At,
       DispatchType, DispatchSteps
  <2> QED
    BY <1>2, <2>1, TypesNext DEF Admit
<1>3. CASE ScanSockets
  <2>1. dispatch' \in DispatchType
    BY <1>3, IdleTypes DEF ScanSockets, At, DispatchType, DispatchSteps
  <2>2. sockets' \in [Slots -> SocketType]
    BY <1>3 DEF ScanSockets, At, SocketType, SocketStates
  <2> QED
    BY <1>3, <2>1, <2>2, TypesNext DEF ScanSockets
<1>4. CASE NoFreeSocket
  <2>1. dispatch' \in DispatchType
    BY <1>4, IdleTypes DEF NoFreeSocket, At, DispatchType, DispatchSteps
  <2> QED
    BY <1>4, <2>1, TypesNext DEF NoFreeSocket
<1>5. CASE FinishBind
  <2>0. dispatch.freeSocket \in Slots
    BY <1>5 DEF FinishBind, At, IndicesInRange
  <2>1. dispatch' \in DispatchType
    BY <1>5, <2>0, IdleTypes DEF FinishBind, At, DispatchType,
       DispatchSteps
  <2>2. sockets' \in [Slots -> SocketType]
    <3>1. CASE UNCHANGED sockets
      BY <3>1
    <3>2. ASSUME NEW p \in Ports
          PROVE  [state |-> "Bound", port |-> p] \in SocketType
      BY DEF SocketType, SocketStates
    <3> QED
      BY <1>5, <2>0, <3>1, <3>2 DEF FinishBind, FreshPorts
  <2> QED
    BY <1>5, <2>1, <2>2, TypesNext DEF FinishBind
<1>6. CASE ReadServerTid
  <2>1. dispatch' \in DispatchType
    BY <1>6, IdleTypes, PortType DEF ReadServerTid, ChosenSocket, At,
       DispatchType, DispatchSteps
  <2> QED
    BY <1>6, <2>1, TypesNext DEF ReadServerTid
<1>7. CASE ScanRecords
  <2>1. dispatch' \in DispatchType
    BY <1>7, IdleTypes DEF ScanRecords, At, DispatchType, DispatchSteps
  <2> QED
    BY <1>7, <2>1, TypesNext DEF ScanRecords
<1>8. CASE ScanWorkers
  <2>1. dispatch' \in DispatchType
    BY <1>8, IdleTypes DEF ScanWorkers, IsBusy, At, DispatchType,
       DispatchSteps
  <2> QED
    BY <1>8, <2>1, TypesNext DEF ScanWorkers
<1>9. CASE NoAvailableWorker
  <2>1. dispatch' \in DispatchType
    BY <1>9, IdleTypes DEF NoAvailableWorker, At, DispatchType,
       DispatchSteps
  <2> QED
    BY <1>9, <2>1, TypesNext DEF NoAvailableWorker
<1>10. CASE FillRecord
  <2>0. dispatch.record \in Slots
    BY <1>10 DEF FillRecord, SetField, At, IndicesInRange, RecordChosen
  <2>1. dispatch' \in DispatchType
    BY <1>10, <2>0, IdleTypes DEF FillRecord, SetField, At, DispatchType,
       DispatchSteps
  <2>2. records' \in [Slots -> RecordType]
    <3>1. records[dispatch.record] \in RecordType
      BY <2>0
    <3>2. \E e \in RecordType : records' = [records EXCEPT ![dispatch.record] = e]
      BY <1>10, <3>1, RecordUpdates DEF FillRecord, SetField
    <3> QED
      BY <2>0, <3>2
  <2> QED
    BY <1>10, <2>1, <2>2, TypesNext DEF FillRecord, SetField
<1>11. CASE AssignTransaction
  <2>0. dispatch.i \in Slots
    BY <1>11 DEF AssignTransaction, At, IndicesInRange, WorkerChosen
  <2>1. dispatch' \in DispatchType
    BY <1>11, <2>0, IdleTypes, PortType DEF AssignTransaction,
       ChosenSocket, At, DispatchType, DispatchSteps
  <2>2. workers' \in [Slots -> WorkerType]
    BY <1>11, <2>0, PortType DEF AssignTransaction, ChosenSocket, At,
       WorkerType, WorkerStates, DispatchType
  <2> QED
    BY <1>11, <2>1, <2>2, TypesNext DEF AssignTransaction
<1>12. CASE ProcessRequestMessage
  <2>0. dispatch.i \in Slots
    BY <1>12 DEF ProcessRequestMessage, At, IndicesInRange, WorkerChosen
  <2>1. dispatch' \in DispatchType
    BY <1>12, <2>0, IdleTypes DEF ProcessRequestMessage, At, DispatchType,
       DispatchSteps
  <2>2. workers' \in [Slots -> WorkerType]
    <3>1. "TRANSFERRING" \in WorkerStates
      BY DEF WorkerStates
    <3>2. \/ workers' = [workers EXCEPT ![dispatch.i].state = "TRANSFERRING"]
          \/ workers' = [workers EXCEPT ![dispatch.i].socket = Count]
      BY <1>12 DEF ProcessRequestMessage
    <3> QED
      BY <2>0, <3>1, <3>2, FieldUpdates
  <2>3. ending' \in [Slots -> EndingType]
    BY <1>12, <2>0, IdleTypes DEF ProcessRequestMessage, At, EndingType,
       EndingSteps
  <2> QED
    BY <1>12, <2>1, <2>2, <2>3, TypesNext DEF ProcessRequestMessage
<1>13. CASE RequestRejected
  <2>1. dispatch' \in DispatchType
    BY <1>13, IdleTypes DEF RequestRejected, At, DispatchType,
       DispatchSteps
  <2> QED
    BY <1>13, <2>1, TypesNext DEF RequestRejected
<1>14. ASSUME NEW w \in Slots, WorkerRuns(w) PROVE TypeOK'
  <2>1. workers' \in [Slots -> WorkerType]
    BY <1>14 DEF WorkerRuns, WorkerType, WorkerStates, DispatchType
  <2> QED
    BY <1>14, <2>1, TypesNext DEF WorkerRuns
<1>15. ASSUME NEW w \in Slots, EndTransfer(w) PROVE TypeOK'
  <2>1. workers' \in [Slots -> WorkerType]
    BY <1>15 DEF EndTransfer, WorkerType, WorkerStates, DispatchType
  <2>2. ending' \in [Slots -> EndingType]
    BY <1>15, IdleTypes DEF EndTransfer, EndingType, EndingSteps
  <2> QED
    BY <1>15, <2>1, <2>2, TypesNext DEF EndTransfer
<1>16. ASSUME NEW w \in Slots, FindRecord(w) PROVE TypeOK'
  <2>1. ending' \in [Slots -> EndingType]
    <3>1. ASSUME NEW r \in Slots
          PROVE  [step |-> "unbind", record |-> r, socket |-> records[r].socketId]
                   \in EndingType
      BY DEF RecordType, EndingType, EndingSteps
    <3>2. "ready" \in EndingSteps
      BY DEF EndingSteps
    <3> QED
      BY <1>16, <3>1, <3>2, FieldUpdates DEF FindRecord, GoOn
  <2> QED
    BY <1>16, <2>1, TypesNext DEF FindRecord
<1>17. ASSUME NEW w \in Slots, BeginUnbind(w) PROVE TypeOK'
  <2>0. ending[w].socket \in Slots
    BY <1>17 DEF BeginUnbind, Ending, IndicesInRange, Searched
  <2>1. sockets' \in [Slots -> SocketType]
    BY <1>17, <2>0 DEF BeginUnbind, GoOn, Ending, SocketType, SocketStates
  <2>2. ending' \in [Slots -> EndingType]
    <3>1. {"unbinding", "release"} \subseteq EndingSteps
      BY DEF EndingSteps
    <3> QED
      BY <1>17, <3>1, FieldUpdates DEF BeginUnbind, GoOn
  <2> QED
    BY <1>17, <2>1, <2>2, TypesNext DEF BeginUnbind
<1>18. ASSUME NEW w \in Slots, FinishUnbind(w) PROVE TypeOK'
  <2>0. ending[w].socket \in Slots
    BY <1>18 DEF FinishUnbind, Ending, IndicesInRange, Searched
  <2>1. sockets' \in [Slots -> SocketType]
    BY <1>18, <2>0 DEF FinishUnbind, GoOn, Ending, SocketType,
       SocketStates
  <2>2. ending' \in [Slots -> EndingType]
    BY <1>18, <2>0, IdleTypes DEF FinishUnbind, GoOn, Ending, EndingType,
       EndingSteps
  <2> QED
    BY <1>18, <2>1, <2>2, TypesNext DEF FinishUnbind
<1>19. ASSUME NEW w \in Slots, ReleaseRecord(w) PROVE TypeOK'
  <2>0. ending[w].record \in Slots
    BY <1>19 DEF ReleaseRecord, Ending, IndicesInRange, Searched
  <2>1. records' \in [Slots -> RecordType]
    BY <1>19, <2>0, FieldUpdates DEF ReleaseRecord
  <2>2. ending' \in [Slots -> EndingType]
    BY <1>19, <2>0, IdleTypes DEF ReleaseRecord, GoOn, Ending, EndingType,
       EndingSteps
  <2> QED
    BY <1>19, <2>1, <2>2, TypesNext DEF ReleaseRecord
<1>20. ASSUME NEW w \in Slots, BecomeIdle(w) PROVE TypeOK'
  <2>1. workers' \in [Slots -> WorkerType]
    BY <1>20 DEF BecomeIdle, Ending, WorkerType, WorkerStates,
       DispatchType
  <2>2. ending' \in [Slots -> EndingType]
    BY <1>20, IdleTypes DEF BecomeIdle, Ending, EndingType, EndingSteps
  <2> QED
    BY <1>20, <2>1, <2>2, TypesNext DEF BecomeIdle
<1>21. CASE UNCHANGED vars
  BY <1>21, TypesNext DEF vars
<1> QED
  BY <1>1, <1>2, <1>3, <1>4, <1>5, <1>6, <1>7, <1>8, <1>9, <1>10, <1>11,
     <1>12, <1>13, <1>14, <1>15, <1>16, <1>17, <1>18, <1>19, <1>20, <1>21
     DEF Next

LEMMA IndicesNext ==
  ASSUME TypeOK, IndicesInRange, [Next]_vars
  PROVE  IndicesInRange'
<1> USE Types, Indices DEF DispatchType, EndingType, RecordType, IndicesInRange,
        RecordChosen, WorkerChosen, Searched, NotEnding, Polling
<1>1. CASE ReceiveRequest
  BY <1>1 DEF ReceiveRequest, At
<1>2. CASE Admit
  BY <1>2 DEF Admit, IsHandlingMaxTransactions, At
<1>3. CASE ScanSockets
  BY <1>3 DEF ScanSockets, At
<1>4. CASE NoFreeSocket
  BY <1>4 DEF NoFreeSocket, At
<1>5. CASE FinishBind
  BY <1>5 DEF FinishBind, FreshPorts, At
<1>6. CASE ReadServerTid
  BY <1>6 DEF ReadServerTid, LocalPort, ChosenSocket, At
<1>7. CASE ScanRecords
  BY <1>7 DEF ScanRecords, At
<1>8. CASE ScanWorkers
  BY <1>8 DEF ScanWorkers, IsBusy, At
<1>9. CASE NoAvailableWorker
  BY <1>9 DEF NoAvailableWorker, At
<1>10. CASE FillRecord
  BY <1>10 DEF FillRecord, SetField, At
<1>11. CASE AssignTransaction
  BY <1>11 DEF AssignTransaction, LocalPort, ChosenSocket, At
<1>12. CASE ProcessRequestMessage
  <2>1. CASE dispatch' = Polling /\ UNCHANGED ending
    BY <1>12, <2>1 DEF ProcessRequestMessage
  <2>2. CASE /\ ending' = [ending EXCEPT ![dispatch.i].step = "find"]
             /\ dispatch' = [dispatch EXCEPT !.step = "rejecting"]
    BY <1>12, <2>2 DEF ProcessRequestMessage, At
  <2> QED
    BY <1>12, <2>1, <2>2 DEF ProcessRequestMessage
<1>13. CASE RequestRejected
  BY <1>13 DEF RequestRejected, At
<1>14. ASSUME NEW w \in Slots, WorkerRuns(w) PROVE IndicesInRange'
  BY <1>14 DEF WorkerRuns
<1>15. ASSUME NEW w \in Slots, EndTransfer(w) PROVE IndicesInRange'
  BY <1>15 DEF EndTransfer
<1>16. ASSUME NEW w \in Slots, FindRecord(w) PROVE IndicesInRange'
  <2>1. CASE GoOn(w, "ready") /\ UNCHANGED crashed
    BY <1>16, <2>1 DEF FindRecord, GoOn, Ending
  <2>2. ASSUME NEW r \in Slots,
               ending' = [ending EXCEPT ![w] =
                 [step |-> "unbind", record |-> r,
                  socket |-> records[r].socketId]],
               crashed' = (records[r].socketId = Count)
        PROVE  IndicesInRange'
    <3>1. crashed' \/ records[r].socketId \in Slots
      BY <2>2
    <3>2. UNCHANGED dispatch /\ ~crashed
      BY <1>16 DEF FindRecord, Ending
    <3> QED
      BY <2>2, <3>1, <3>2
  <2> QED
    BY <1>16, <2>1, <2>2 DEF FindRecord
<1>17. ASSUME NEW w \in Slots, BeginUnbind(w) PROVE IndicesInRange'
  <2>1. ending[w].record \in Slots /\ ending[w].socket \in Slots
    BY <1>17 DEF BeginUnbind, Ending
  <2>2. GoOn(w, "unbinding") \/ GoOn(w, "release")
    BY <1>17 DEF BeginUnbind
  <2>3. UNCHANGED <<dispatch, crashed>>
    BY <1>17 DEF BeginUnbind
  <2>4. ASSUME NEW next, GoOn(w, next), NEW v \in Slots
        PROVE  /\ ending'[v].record = ending[v].record
               /\ ending'[v].socket = ending[v].socket
               /\ v # w => ending'[v].step = ending[v].step
    BY <2>4 DEF GoOn
  <2> QED
    BY <2>1, <2>2, <2>3, <2>4
<1>18. ASSUME NEW w \in Slots, FinishUnbind(w) PROVE IndicesInRange'
  BY <1>18 DEF FinishUnbind, GoOn, Ending
<1>19. ASSUME NEW w \in Slots, ReleaseRecord(w) PROVE IndicesInRange'
  BY <1>19 DEF ReleaseRecord, GoOn, Ending
<1>20. ASSUME NEW w \in Slots, BecomeIdle(w) PROVE IndicesInRange'
  BY <1>20 DEF BecomeIdle, Ending
<1>21. CASE UNCHANGED vars
  BY <1>21 DEF vars
<1> QED
  BY <1>1, <1>2, <1>3, <1>4, <1>5, <1>6, <1>7, <1>8, <1>9, <1>10, <1>11,
     <1>12, <1>13, <1>14, <1>15, <1>16, <1>17, <1>18, <1>19, <1>20, <1>21
     DEF Next

LEMMA FreeRecordNext ==
  ASSUME TypeOK, IndicesInRange, FreeRecordAhead, [Next]_vars
  PROVE  FreeRecordAhead'
<1> USE Types, Indices
        DEF DispatchType, RecordType, IndicesInRange, FreeRecordAhead,
            RecordChosen, WorkerChosen, Searched, Polling, Slots
<1>1. CASE ReceiveRequest
  BY <1>1 DEF ReceiveRequest, At
<1>2. CASE Admit
  BY <1>2 DEF Admit, IsHandlingMaxTransactions, At
<1>3. CASE ScanSockets
  BY <1>3 DEF ScanSockets, At
<1>4. CASE NoFreeSocket
  BY <1>4 DEF NoFreeSocket, At
<1>5. CASE FinishBind
  BY <1>5 DEF FinishBind, FreshPorts, At
<1>6. CASE ReadServerTid
  BY <1>6 DEF ReadServerTid, LocalPort, ChosenSocket, At
<1>7. CASE ScanRecords
  BY <1>7 DEF ScanRecords, At
<1>8. CASE ScanWorkers
  BY <1>8 DEF ScanWorkers, IsBusy, At
<1>9. CASE NoAvailableWorker
  BY <1>9 DEF NoAvailableWorker, At
<1>10. CASE FillRecord
  BY <1>10 DEF FillRecord, SetField, At
<1>11. CASE AssignTransaction
  BY <1>11 DEF AssignTransaction, LocalPort, ChosenSocket, At
<1>12. CASE ProcessRequestMessage
  BY <1>12 DEF ProcessRequestMessage, At
<1>13. CASE RequestRejected
  BY <1>13 DEF RequestRejected, At
<1>14. ASSUME NEW w \in Slots, WorkerRuns(w) PROVE FreeRecordAhead'
  BY <1>14 DEF WorkerRuns
<1>15. ASSUME NEW w \in Slots, EndTransfer(w) PROVE FreeRecordAhead'
  BY <1>15 DEF EndTransfer
<1>16. ASSUME NEW w \in Slots, FindRecord(w) PROVE FreeRecordAhead'
  BY <1>16 DEF FindRecord, IsFirst, RecordsOf, GoOn, Ending
<1>17. ASSUME NEW w \in Slots, BeginUnbind(w) PROVE FreeRecordAhead'
  BY <1>17 DEF BeginUnbind, GoOn, Ending
<1>18. ASSUME NEW w \in Slots, FinishUnbind(w) PROVE FreeRecordAhead'
  BY <1>18 DEF FinishUnbind, GoOn, Ending
<1>19. ASSUME NEW w \in Slots, ReleaseRecord(w) PROVE FreeRecordAhead'
  BY <1>19 DEF ReleaseRecord, GoOn, Ending
<1>20. ASSUME NEW w \in Slots, BecomeIdle(w) PROVE FreeRecordAhead'
  BY <1>20 DEF BecomeIdle, Ending
<1>21. CASE UNCHANGED vars
  BY <1>21 DEF vars
<1> QED
  BY <1>1, <1>2, <1>3, <1>4, <1>5, <1>6, <1>7, <1>8, <1>9, <1>10, <1>11,
     <1>12, <1>13, <1>14, <1>15, <1>16, <1>17, <1>18, <1>19, <1>20, <1>21
     DEF Next

LEMMA ReservedNext ==
  ASSUME TypeOK, IndicesInRange, ReservedRecordStaysFree, [Next]_vars
  PROVE  ReservedRecordStaysFree'
<1> USE Types, Indices DEF DispatchType, RecordType, IndicesInRange,
        ReservedRecordStaysFree, RecordChosen, WorkerChosen, Searched, Polling
<1>1. CASE ReceiveRequest
  BY <1>1 DEF ReceiveRequest, At
<1>2. CASE Admit
  BY <1>2 DEF Admit, IsHandlingMaxTransactions, At
<1>3. CASE ScanSockets
  BY <1>3 DEF ScanSockets, At
<1>4. CASE NoFreeSocket
  BY <1>4 DEF NoFreeSocket, At
<1>5. CASE FinishBind
  BY <1>5 DEF FinishBind, FreshPorts, At
<1>6. CASE ReadServerTid
  BY <1>6 DEF ReadServerTid, LocalPort, ChosenSocket, At
<1>7. CASE ScanRecords
  BY <1>7 DEF ScanRecords, At
<1>8. CASE ScanWorkers
  BY <1>8 DEF ScanWorkers, IsBusy, At
<1>9. CASE NoAvailableWorker
  BY <1>9 DEF NoAvailableWorker, At
<1>10. CASE FillRecord
  BY <1>10 DEF FillRecord, SetField, At
<1>11. CASE AssignTransaction
  BY <1>11 DEF AssignTransaction, LocalPort, ChosenSocket, At
<1>12. CASE ProcessRequestMessage
  BY <1>12 DEF ProcessRequestMessage, At
<1>13. CASE RequestRejected
  BY <1>13 DEF RequestRejected, At
<1>14. ASSUME NEW w \in Slots, WorkerRuns(w) PROVE ReservedRecordStaysFree'
  BY <1>14 DEF WorkerRuns
<1>15. ASSUME NEW w \in Slots, EndTransfer(w) PROVE ReservedRecordStaysFree'
  BY <1>15 DEF EndTransfer
<1>16. ASSUME NEW w \in Slots, FindRecord(w) PROVE ReservedRecordStaysFree'
  BY <1>16 DEF FindRecord, IsFirst, RecordsOf, GoOn, Ending
<1>17. ASSUME NEW w \in Slots, BeginUnbind(w) PROVE ReservedRecordStaysFree'
  BY <1>17 DEF BeginUnbind, GoOn, Ending
<1>18. ASSUME NEW w \in Slots, FinishUnbind(w) PROVE ReservedRecordStaysFree'
  BY <1>18 DEF FinishUnbind, GoOn, Ending
<1>19. ASSUME NEW w \in Slots, ReleaseRecord(w) PROVE ReservedRecordStaysFree'
  BY <1>19 DEF ReleaseRecord, GoOn, Ending
<1>20. ASSUME NEW w \in Slots, BecomeIdle(w) PROVE ReservedRecordStaysFree'
  BY <1>20 DEF BecomeIdle, Ending
<1>21. CASE UNCHANGED vars
  BY <1>21 DEF vars
<1> QED
  BY <1>1, <1>2, <1>3, <1>4, <1>5, <1>6, <1>7, <1>8, <1>9, <1>10, <1>11,
     <1>12, <1>13, <1>14, <1>15, <1>16, <1>17, <1>18, <1>19, <1>20, <1>21
     DEF Next

-----------------------------------------------------------------------------
LEMMA InitIInv == Init => IInv
<1> SUFFICES ASSUME Init PROVE IInv
  OBVIOUS
<1>1. TypeOK
  <2>1. sockets \in [Slots -> SocketType]
    BY DEF Init, SocketType, SocketStates
  <2>2. records \in [Slots -> RecordType]
    BY Indices DEF Init, RecordType
  <2>3. workers \in [Slots -> WorkerType]
    BY Indices DEF Init, WorkerType, WorkerStates
  <2>4. ending \in [Slots -> EndingType] /\ dispatch \in DispatchType
    BY IdleTypes DEF Init
  <2> QED
    BY <2>1, <2>2, <2>3, <2>4, Types DEF Init
<1>2. IndicesInRange /\ FreeRecordAhead /\ ReservedRecordStaysFree
  BY DEF Init, IndicesInRange, FreeRecordAhead, ReservedRecordStaysFree,
         RecordChosen, WorkerChosen, Searched, NotEnding, Polling
<1> QED
  BY <1>1, <1>2 DEF IInv

\* The inductive invariant holds in every reachable state.
THEOREM Invariance == Spec => []IInv
<1>1. IInv /\ [Next]_vars => IInv'
  BY TypeNext, IndicesNext, FreeRecordNext, ReservedNext DEF IInv
<1> QED
  BY InitIInv, <1>1, PTL DEF Spec

\* Type correctness: the tables, the local variables of the dispatch thread
\* and the terminations under way.
THEOREM TypeCorrect == Spec => []TypeOK
<1>1. IInv => TypeOK
  BY DEF IInv
<1> QED
  BY <1>1, Invariance, PTL

\* A request that passed IsHandlingMaxTransactions (Server.cpp:201) finds a
\* free record.
THEOREM AdmittedHolds == Spec => []AdmittedFindsRecord
<1>1. IInv => AdmittedFindsRecord
  <2> SUFFICES ASSUME IInv, dispatch.step = "record", dispatch.i = Count
               PROVE  FALSE
    BY DEF AdmittedFindsRecord
  <2>1. PICK r \in Slots : r >= Count
    BY DEF IInv, FreeRecordAhead
  <2> QED
    BY <2>1, CountAssumption DEF Slots
<1> QED
  BY <1>1, Invariance, PTL

\* The record an admission chose stays free until it is filled: no record of
\* a running transaction is overwritten (Server.cpp:331).
THEOREM ReservedHolds == Spec => []ReservedRecordStaysFree
<1>1. IInv => ReservedRecordStaysFree
  BY DEF IInv
<1> QED
  BY <1>1, Invariance, PTL

-----------------------------------------------------------------------------
(***************************************************************************)
(* The bookkeeping of SpacedSpec, when Bind does not fail. The local port  *)
(* of a socket is what ties the three tables together: it is in the        *)
(* socket, then in the record, then in the worker, and no other entry of   *)
(* any table carries it as long as the transaction lasts.                  *)
(***************************************************************************)
\* A worker has a transaction, whose record is active, from AssignTransaction
\* until ReleaseRecord.
Holding(w) ==
  /\ workers[w].state \in {"PROCESSING", "TRANSFERRING"}
  /\ ending[w].step # "ready"

\* The dispatch thread holds the socket it has bound.
SocketInHand ==
  {"port", "record", "worker", "setSocketId", "setClientTID", "setServerTID",
   "setActive", "assign"}

PortRead == SocketInHand \ {"port"}
WorkerInHand ==
  {"setSocketId", "setClientTID", "setServerTID", "setActive", "assign"}
TidWritten == {"setActive", "assign"}

\* A socket has a port while it is bound, and no two have the same.
SocketPorts ==
  /\ \A s \in Slots : sockets[s].port # 0 <=> sockets[s].state \in {"Bound", "Unbinding"}
  /\ \A s, t \in Slots : s # t /\ sockets[s].port # 0 => sockets[s].port # sockets[t].port

\* No two records carry the same server identifier, active or not.
RecordTids ==
  \A q, r \in Slots :
    q # r /\ records[q].serverTID # 0 => records[q].serverTID # records[r].serverTID

\* No two workers with a transaction have the same server identifier.
WorkerTids ==
  \A v, w \in Slots :
    v # w /\ Holding(v) /\ Holding(w) => workers[v].serverTid # workers[w].serverTid

\* A transaction uses a socket: bound to its port until it is being unbound.
UsesSocket(w, s) ==
  /\ s \in Slots
  /\ sockets[s].port = workers[w].serverTid
  /\ sockets[s].state = IF ending[w].step = "unbinding" THEN "Unbinding" ELSE "Bound"
  /\ workers[w].socket \in {s, Count}

\* A worker with a transaction has an active record with its identifiers.
HoldersHaveRecords ==
  \A w \in Slots :
    Holding(w) =>
      /\ workers[w].serverTid # 0
      /\ \E r \in RecordsOf(w) :
           /\ records[r].isActive
           /\ InTransaction(w) => UsesSocket(w, records[r].socketId)

\* A termination is the worker's own, and the record and the socket it has
\* looked up are still the right ones.
EndingIsOwn ==
  \A w \in Slots :
    /\ ending[w].step # "none" => workers[w].state \in {"PROCESSING", "TRANSFERRING"}
    /\ ending[w].step \in Searched =>
         /\ ending[w].record \in RecordsOf(w)
         /\ ending[w].step # "release" =>
              ending[w].socket = records[ending[w].record].socketId

\* What the dispatch thread knows of the socket it has chosen: it is bound,
\* and nobody else has its port.
DispatchSocket ==
  /\ dispatch.step \in {"poll", "admit"} => dispatch.freeSocket = 0
  /\ dispatch.step = "bind" => sockets[dispatch.freeSocket].state = "Binding"
  /\ dispatch.step \in SocketInHand =>
       /\ dispatch.freeSocket \in Slots
       /\ sockets[dispatch.freeSocket].state = "Bound"
       /\ dispatch.step \in PortRead =>
            dispatch.serverTid = sockets[dispatch.freeSocket].port
       /\ \A w \in Slots :
            Holding(w) => workers[w].serverTid # sockets[dispatch.freeSocket].port
       /\ \A r \in Slots :
            records[r].serverTID = sockets[dispatch.freeSocket].port
              => dispatch.step \in TidWritten /\ r = dispatch.record

\* What it has written to the record it has chosen.
DispatchRecord ==
  LET rec == records[dispatch.record] IN
  /\ dispatch.step \in {"setClientTID", "setServerTID", "setActive", "assign"} =>
       rec.socketId = dispatch.freeSocket
  /\ dispatch.step \in {"setServerTID", "setActive", "assign"} =>
       rec.clientTID = dispatch.client
  /\ dispatch.step \in TidWritten => rec.serverTID = dispatch.serverTid
  /\ dispatch.step = "assign" => dispatch.record \in Slots /\ rec.isActive

\* What it knows of the worker it has chosen.
DispatchWorker ==
  /\ dispatch.step \in WorkerInHand =>
       workers[dispatch.i].state = "WAITING_FOR_REQUEST"
  /\ dispatch.step = "request" =>
       workers[dispatch.i].state = "PROCESSING" /\ ending[dispatch.i].step = "none"

\* A socket that is not Inactive is in the hands of the dispatch thread or
\* belongs to a transaction.
SocketsHaveHolders ==
  \A s \in Slots :
    sockets[s].state # "Inactive" =>
      \/ dispatch.step \in SocketInHand \cup {"bind"} /\ dispatch.freeSocket = s
      \/ \E w \in Slots : InTransaction(w) /\ workers[w].serverTid = sockets[s].port

\* The loops over the sockets and the workers find what they look for.
SocketAhead ==
  dispatch.step = "socket" =>
    \E s \in Slots : s >= dispatch.freeSocket /\ sockets[s].state = "Inactive"

WorkerAhead ==
  /\ dispatch.step \in {"socket", "bind", "port", "record"} =>
       \E w \in Slots : ~IsBusy(w)
  /\ dispatch.step = "worker" =>
       \E w \in Slots : w >= dispatch.i /\ ~IsBusy(w)

Tables ==
  ~crashed /\ SocketPorts /\ RecordTids /\ WorkerTids /\ HoldersHaveRecords /\ EndingIsOwn

Admission ==
  /\ DispatchSocket /\ DispatchRecord /\ DispatchWorker
  /\ SocketsHaveHolders /\ SocketAhead /\ WorkerAhead

SInv == IInv /\ Tables /\ Admission

-----------------------------------------------------------------------------
\* The spaced server takes only steps of the server.
LEMMA SpacedIsNext == [SpacedNext]_vars => [Next]_vars
BY DEF SpacedNext, Next

LEMMA SpacedIInv == SInv /\ [SpacedNext]_vars => IInv'
BY SpacedIsNext, TypeNext, IndicesNext, FreeRecordNext, ReservedNext
DEF SInv, IInv

\* The record of a transaction is active, and no other record carries its
\* server identifier.
LEMMA RecordOfHolder ==
  ASSUME SInv, NEW w \in Slots, Holding(w)
  PROVE  \E r \in Slots :
           /\ records[r].clientTID = workers[w].clientTid
           /\ records[r].serverTID = workers[w].serverTid
           /\ workers[w].serverTid # 0
           /\ records[r].isActive
           /\ \A q \in Slots : records[q].serverTID = workers[w].serverTid => q = r
           /\ InTransaction(w) => UsesSocket(w, records[r].socketId)
BY DEF SInv, Tables, HoldersHaveRecords, RecordTids, RecordsOf, Matches

\* The record a termination has looked up is that record.
LEMMA RecordOfEnding ==
  ASSUME SInv, NEW w \in Slots, ending[w].step \in Searched
  PROVE  LET r == ending[w].record IN
         /\ r \in Slots /\ Holding(w)
         /\ records[r].clientTID = workers[w].clientTid
         /\ records[r].serverTID = workers[w].serverTid
         /\ workers[w].serverTid # 0
         /\ records[r].isActive
         /\ \A q \in Slots : records[q].serverTID = workers[w].serverTid => q = r
         /\ ending[w].step # "release" =>
              UsesSocket(w, ending[w].socket) /\ ending[w].socket = records[r].socketId
<1>1. Holding(w) /\ ending[w].record \in RecordsOf(w)
  BY DEF SInv, Tables, EndingIsOwn, Holding, Searched
<1>2. ending[w].step # "release" =>
        InTransaction(w) /\ ending[w].socket = records[ending[w].record].socketId
  BY <1>1 DEF SInv, Tables, EndingIsOwn, Holding, InTransaction, Searched
<1>3. PICK r \in Slots :
           /\ records[r].clientTID = workers[w].clientTid
           /\ records[r].serverTID = workers[w].serverTid
           /\ workers[w].serverTid # 0
           /\ records[r].isActive
           /\ \A q \in Slots : records[q].serverTID = workers[w].serverTid => q = r
           /\ InTransaction(w) => UsesSocket(w, records[r].socketId)
  BY <1>1, RecordOfHolder
<1>4. ending[w].record = r
  BY <1>1, <1>3 DEF RecordsOf, Matches
<1> QED
  BY <1>1, <1>2, <1>3, <1>4

\* With a free record and every worker past the start and not about to be
\* idle, some worker is idle and some socket is Inactive: the others have a
\* record each.
LEMMA NotAllTaken ==
  ASSUME NEW f \in [Slots -> Slots], NEW r \in Slots,
         \A s, t \in Slots : s # t => f[s] # f[t],
         \A s \in Slots : f[s] # r
  PROVE  FALSE
<1>1. IsFiniteSet(Slots)
  BY CountAssumption, FS_Interval DEF Slots
<1>2. /\ IsFiniteSet(Slots \ {r}) /\ Cardinality(Slots) \in Nat
      /\ Cardinality(Slots \ {r}) = Cardinality(Slots) - 1
  BY <1>1, FS_RemoveElement, FS_CardinalityType
<1>3. f \in [Slots -> Slots \ {r}]
  OBVIOUS
<1>4. \E s, t \in Slots : s # t /\ f[s] = f[t]
  <2>1. Cardinality(Slots \ {r}) < Cardinality(Slots)
    BY <1>2
  <2> QED
    BY <1>1, <1>2, <1>3, <2>1, FS_PigeonHole
<1> QED
  BY <1>4

LEMMA WorkerFree ==
  ASSUME SInv, WorkersSettled, NEW r \in Slots, ~records[r].isActive
  PROVE  \E w \in Slots : ~IsBusy(w)
<1> SUFFICES ASSUME \A w \in Slots : IsBusy(w) PROVE FALSE
  OBVIOUS
<1>1. \A w \in Slots : Holding(w)
  BY Types DEF SInv, IInv, IsBusy, Holding, WorkersSettled, WorkerType, WorkerStates
<1>2. \A w \in Slots : \E q \in Slots :
        records[q].serverTID = workers[w].serverTid /\ records[q].isActive
  BY <1>1, RecordOfHolder
<1> DEFINE f == [w \in Slots |-> CHOOSE q \in Slots :
              records[q].serverTID = workers[w].serverTid /\ records[q].isActive]
<1>3. \A w \in Slots : /\ f[w] \in Slots
                       /\ records[f[w]].serverTID = workers[w].serverTid
                       /\ records[f[w]].isActive
  BY <1>2
<1>4. \A v, w \in Slots : v # w => f[v] # f[w]
  BY <1>1, <1>3 DEF SInv, Tables, WorkerTids
<1>5. f \in [Slots -> Slots] /\ \A w \in Slots : f[w] # r
  BY <1>3
<1> HIDE DEF f
<1> QED
  BY <1>4, <1>5, NotAllTaken

LEMMA SocketFree ==
  ASSUME SInv, dispatch.step = "admit", NEW r \in Slots, ~records[r].isActive
  PROVE  \E s \in Slots : sockets[s].state = "Inactive"
<1> SUFFICES ASSUME \A s \in Slots : sockets[s].state # "Inactive" PROVE FALSE
  OBVIOUS
<1>1. \A s \in Slots : \E w \in Slots :
        InTransaction(w) /\ workers[w].serverTid = sockets[s].port
  BY DEF SInv, Admission, SocketsHaveHolders, SocketInHand
<1>2. \A s \in Slots : \E q \in Slots :
        /\ records[q].serverTID = sockets[s].port /\ records[q].isActive
        /\ sockets[s].port # 0
  BY <1>1, RecordOfHolder DEF InTransaction, Holding
<1> DEFINE f == [s \in Slots |-> CHOOSE q \in Slots :
              /\ records[q].serverTID = sockets[s].port /\ records[q].isActive
              /\ sockets[s].port # 0]
<1>3. \A s \in Slots : /\ f[s] \in Slots
                       /\ records[f[s]].serverTID = sockets[s].port
                       /\ records[f[s]].isActive /\ sockets[s].port # 0
  BY <1>2
<1>4. \A s, t \in Slots : s # t => f[s] # f[t]
  BY <1>3 DEF SInv, Tables, SocketPorts
<1>5. f \in [Slots -> Slots] /\ \A s \in Slots : f[s] # r
  BY <1>3
<1> HIDE DEF f
<1> QED
  BY <1>4, <1>5, NotAllTaken

\* A step that leaves the tables alone.
LEMMA TablesAlone ==
  ASSUME Tables, UNCHANGED <<sockets, records, workers, ending, crashed>>
  PROVE  Tables'
BY DEF Tables, SocketPorts, RecordTids, WorkerTids, HoldersHaveRecords, EndingIsOwn,
       Holding, InTransaction, RecordsOf, Matches, UsesSocket

-----------------------------------------------------------------------------
\* Steps of the dispatch thread that touch its local variables only.
LookingStep ==
  \/ ReceiveRequest \/ (WorkersSettled /\ Admit) \/ NoFreeSocket
  \/ ReadServerTid \/ ScanRecords \/ ScanWorkers \/ NoAvailableWorker
  \/ RequestRejected

LEMMA LookingKeeps ==
  ASSUME SInv, LookingStep
  PROVE  Tables' /\ Admission'
<1> USE Types, Indices DEF SInv, IInv, DispatchType, Polling
<1>u. UNCHANGED <<sockets, records, workers, ending, crashed>>
  <2>1. ReceiveRequest => UNCHANGED <<sockets, records, workers, ending, crashed>>
    BY DEF ReceiveRequest
  <2> QED
    BY <2>1 DEF LookingStep, Admit, NoFreeSocket, ReadServerTid, ScanRecords, ScanWorkers,
       NoAvailableWorker, RequestRejected
<1>t. Tables'
  BY <1>u, TablesAlone
<1>d. /\ DispatchSocket /\ DispatchRecord /\ DispatchWorker
      /\ SocketsHaveHolders /\ SocketAhead /\ WorkerAhead
  BY DEF Admission
<1>h. \A w \in Slots : (Holding(w)' <=> Holding(w)) /\ (InTransaction(w)' <=> InTransaction(w))
  BY <1>u DEF Holding, InTransaction
<1>1. CASE ReceiveRequest
  <2>1. dispatch.step = "poll" /\ dispatch'.step = "admit"
        /\ dispatch'.freeSocket = dispatch.freeSocket
    BY <1>1 DEF ReceiveRequest, At
  <2> QED
    BY <2>1, <1>u, <1>t, <1>d, <1>h DEF Admission, DispatchSocket, DispatchRecord,
       DispatchWorker, SocketsHaveHolders, SocketAhead, WorkerAhead, SocketInHand, PortRead,
       WorkerInHand, TidWritten
<1>2. CASE WorkersSettled /\ Admit
  <2>1. CASE dispatch' = Polling
    BY <1>2, <2>1, <1>u, <1>t, <1>d, <1>h DEF Admit, At, Admission, DispatchSocket,
       DispatchRecord, DispatchWorker, SocketsHaveHolders, SocketAhead, WorkerAhead,
       SocketInHand, PortRead, WorkerInHand, TidWritten
  <2>2. CASE ~IsHandlingMaxTransactions /\ dispatch' = [dispatch EXCEPT !.step = "socket"]
    <3>1. PICK r \in Slots : ~records[r].isActive
      BY <2>2 DEF IsHandlingMaxTransactions
    <3>2. \E w \in Slots : ~IsBusy(w)
      BY <1>2, <3>1, WorkerFree
    <3>3. \E s \in Slots : sockets[s].state = "Inactive"
      BY <1>2, <3>1, SocketFree DEF Admit, At
    <3>4. SocketAhead' /\ WorkerAhead'
      BY <1>u, <1>2, <1>d, <2>2, <3>2, <3>3
      DEF Admit, At, DispatchSocket, SocketAhead, WorkerAhead, IsBusy, Slots
    <3> QED
      BY <1>2, <2>2, <3>4, <1>u, <1>t, <1>d, <1>h DEF Admit, At, Admission, DispatchSocket,
         DispatchRecord, DispatchWorker, SocketsHaveHolders, SocketInHand, PortRead,
         WorkerInHand, TidWritten
  <2> QED
    BY <1>2, <2>1, <2>2 DEF Admit
<1>3. CASE NoFreeSocket
  BY <1>3, <1>d, CountAssumption DEF NoFreeSocket, At, SocketAhead, Slots
<1>4. CASE ReadServerTid
  BY <1>4, <1>u, <1>t, <1>d, <1>h DEF ReadServerTid, At, LocalPort, ChosenSocket, Admission,
     DispatchSocket, DispatchRecord, DispatchWorker, SocketsHaveHolders, SocketAhead,
     WorkerAhead, SocketInHand, PortRead, WorkerInHand, TidWritten, IsBusy
<1>5. CASE ScanRecords
  <2>1. dispatch.i # Count
    BY <1>5 DEF ScanRecords, At, FreeRecordAhead, Slots
  <2>2. WorkerAhead'
    BY <1>u, <1>5, <1>d, <2>1 DEF ScanRecords, At, WorkerAhead, IsBusy, Slots
  <2> QED
    BY <1>5, <2>1, <2>2, <1>u, <1>t, <1>d, <1>h DEF ScanRecords, At, Admission, DispatchSocket,
       DispatchRecord, DispatchWorker, SocketsHaveHolders, SocketAhead, SocketInHand,
       PortRead, WorkerInHand, TidWritten
<1>6. CASE ScanWorkers
  <2>1. WorkerAhead'
    BY <1>u, <1>6, <1>d DEF ScanWorkers, At, WorkerAhead, IsBusy, Slots
  <2> QED
    BY <1>6, <2>1, <1>u, <1>t, <1>d, <1>h DEF ScanWorkers, At, IsBusy, Admission, DispatchSocket,
       DispatchRecord, DispatchWorker, SocketsHaveHolders, SocketAhead, SocketInHand,
       PortRead, WorkerInHand, TidWritten
<1>7. CASE NoAvailableWorker
  BY <1>7, <1>d, CountAssumption DEF NoAvailableWorker, At, WorkerAhead, Slots
<1>8. CASE RequestRejected
  <2>1. dispatch.step = "rejecting" /\ dispatch'.step = "poll" /\ dispatch'.freeSocket = 0
    BY <1>8 DEF RequestRejected, At
  <2> QED
    BY <2>1, <1>u, <1>t, <1>d, <1>h DEF Admission, DispatchSocket, DispatchRecord,
       DispatchWorker, SocketsHaveHolders, SocketAhead, WorkerAhead, SocketInHand, PortRead,
       WorkerInHand, TidWritten
<1> QED
  BY <1>1, <1>2, <1>3, <1>4, <1>5, <1>6, <1>7, <1>8 DEF LookingStep

-----------------------------------------------------------------------------
\* The socket that is tried is bound, or Inactive and then taken.
LEMMA ScanSocketsKeeps ==
  ASSUME SInv, ScanSockets,
         dispatch.freeSocket \in Slots => sockets[dispatch.freeSocket].state # "Unbinding"
  PROVE  Tables' /\ Admission'
<1> USE Types, Indices DEF SInv, IInv, DispatchType
<1> DEFINE s == dispatch.freeSocket
<1>d. /\ DispatchSocket /\ DispatchRecord /\ DispatchWorker
      /\ SocketsHaveHolders /\ SocketAhead /\ WorkerAhead
  BY DEF Admission
<1>s. s \in Slots /\ dispatch.step = "socket" /\ UNCHANGED <<records, workers, ending, crashed>>
  BY DEF ScanSockets, At
<1>1. CASE sockets[s].state = "Bound"
  <2>1. dispatch' = [dispatch EXCEPT !.freeSocket = s + 1] /\ UNCHANGED sockets
    BY <1>1 DEF ScanSockets
  <2>2. SocketAhead'
    BY <1>1, <1>s, <1>d, <2>1 DEF SocketAhead, Slots
  <2>3. SocketsHaveHolders'
    BY <1>s, <1>d, <2>1 DEF SocketsHaveHolders, SocketInHand, InTransaction
  <2>4. WorkerAhead'
    BY <1>s, <1>d, <2>1 DEF WorkerAhead, IsBusy
  <2> QED
    BY <1>s, <2>1, <2>2, <2>3, <2>4, TablesAlone
    DEF Admission, DispatchSocket, DispatchRecord, DispatchWorker, SocketInHand, PortRead,
        WorkerInHand, TidWritten
<1>2. CASE sockets[s].state = "Inactive"
  <2>1. /\ dispatch' = [dispatch EXCEPT !.step = "bind"]
        /\ sockets' = [sockets EXCEPT ![s].state = "Binding"]
    BY <1>2 DEF ScanSockets
  <2>2. \A t \in Slots : /\ sockets'[t].port = sockets[t].port
                         /\ t # s => sockets'[t].state = sockets[t].state
                         /\ sockets'[s].state = "Binding"
    BY <1>s, <2>1 DEF SocketType
  <2>3. sockets[s].port = 0
    BY <1>2, <1>s DEF Tables, SocketPorts
  <2>4. SocketPorts'
    BY <1>s, <2>2, <2>3 DEF Tables, SocketPorts
  <2>5. HoldersHaveRecords'
    <3>1. \A w \in Slots, t \in Index :
            workers[w].serverTid # 0 /\ UsesSocket(w, t) => UsesSocket(w, t)'
      BY <1>s, <2>2, <2>3 DEF UsesSocket
    <3> QED
      BY <1>s, <3>1
      DEF Tables, HoldersHaveRecords, Holding, InTransaction, RecordsOf, Matches, RecordType
  <2>6. RecordTids' /\ WorkerTids' /\ EndingIsOwn' /\ ~crashed'
    BY <1>s DEF Tables, RecordTids, WorkerTids, EndingIsOwn, Holding, RecordsOf, Matches
  <2>7. SocketsHaveHolders'
    BY <1>s, <1>d, <2>1, <2>2 DEF SocketsHaveHolders, SocketInHand, InTransaction
  <2>8. WorkerAhead' /\ SocketAhead'
    BY <1>s, <1>d, <2>1 DEF WorkerAhead, SocketAhead, IsBusy
  <2>9. DispatchSocket' /\ DispatchRecord' /\ DispatchWorker'
    BY <1>s, <2>1, <2>2
    DEF DispatchSocket, DispatchRecord, DispatchWorker, SocketInHand, PortRead,
        WorkerInHand, TidWritten
  <2> QED
    BY <2>4, <2>5, <2>6, <2>7, <2>8, <2>9 DEF Tables, Admission
<1>3. CASE sockets[s].state = "Binding"
  <2>1. PICK w \in Slots : InTransaction(w) /\ workers[w].serverTid = sockets[s].port
    BY <1>3, <1>s, <1>d DEF SocketsHaveHolders, SocketInHand
  <2>2. workers[w].serverTid # 0
    BY <2>1, RecordOfHolder DEF InTransaction, Holding
  <2> QED
    BY <1>3, <1>s, <2>1, <2>2 DEF Tables, SocketPorts
<1> QED
  BY <1>1, <1>2, <1>3, <1>s DEF ScanSockets

\* The port is nobody's: a worker with a transaction has it in its record.
LEMMA FinishBindKeeps ==
  ASSUME ~BindMayFail, SInv, FinishBind
  PROVE  Tables' /\ Admission'
<1> USE Types, Indices DEF SInv, IInv, DispatchType
<1> DEFINE s == dispatch.freeSocket
<1>d. /\ DispatchSocket /\ DispatchRecord /\ DispatchWorker
      /\ SocketsHaveHolders /\ SocketAhead /\ WorkerAhead
  BY DEF Admission
<1>s. /\ s \in Slots /\ dispatch.step = "bind" /\ sockets[s].state = "Binding"
      /\ dispatch' = [dispatch EXCEPT !.step = "port"]
      /\ UNCHANGED <<records, workers, ending, crashed>>
  BY <1>d DEF FinishBind, At, IndicesInRange, DispatchSocket
<1>0. sockets[s].port = 0
  BY <1>s DEF Tables, SocketPorts
<1>1. PICK p \in FreshPorts : sockets' = [sockets EXCEPT ![s] = [state |-> "Bound", port |-> p]]
  BY DEF FinishBind
<1>2. /\ p # 0
      /\ \A t \in Slots : sockets[t].port # p
      /\ \A r \in Slots : records[r].serverTID # p
  BY <1>1, IdentifiersAssumption DEF FreshPorts
<1>3. \A w \in Slots : Holding(w) => workers[w].serverTid # p
  BY <1>2, RecordOfHolder
<1>4. /\ \A t \in Slots : t # s => sockets'[t] = sockets[t]
      /\ sockets'[s].state = "Bound" /\ sockets'[s].port = p
  BY <1>s, <1>1
<1>5. SocketPorts'
  BY <1>s, <1>2, <1>4 DEF Tables, SocketPorts
<1>6. HoldersHaveRecords'
  <2>1. \A w \in Slots, t \in Index :
          workers[w].serverTid # 0 /\ UsesSocket(w, t) => UsesSocket(w, t)'
    BY <1>s, <1>0, <1>4 DEF UsesSocket
  <2> QED
    BY <1>s, <2>1
    DEF Tables, HoldersHaveRecords, Holding, InTransaction, RecordsOf, Matches, RecordType
<1>7. RecordTids' /\ WorkerTids' /\ EndingIsOwn' /\ ~crashed'
  BY <1>s DEF Tables, RecordTids, WorkerTids, EndingIsOwn, Holding, RecordsOf, Matches
<1>8. SocketsHaveHolders'
  BY <1>s, <1>d, <1>4 DEF SocketsHaveHolders, SocketInHand, InTransaction
<1>9. WorkerAhead' /\ SocketAhead'
  BY <1>s, <1>d DEF WorkerAhead, SocketAhead, IsBusy
<1>10. DispatchSocket'
  BY <1>s, <1>2, <1>3, <1>4
  DEF DispatchSocket, SocketInHand, PortRead, TidWritten, Holding
<1>11. DispatchRecord' /\ DispatchWorker'
  BY <1>s DEF DispatchRecord, DispatchWorker, WorkerInHand, TidWritten
<1> QED
  BY <1>5, <1>6, <1>7, <1>8, <1>9, <1>10, <1>11 DEF Tables, Admission

-----------------------------------------------------------------------------
\* The record that is written is nobody's, and the port it gets is new to
\* the table.
LEMMA FillRecordKeeps ==
  ASSUME SInv, FillRecord
  PROVE  Tables' /\ Admission'
<1> USE Types, Indices DEF SInv, IInv, DispatchType
<1> DEFINE q == dispatch.record
           s == dispatch.freeSocket
<1>d. /\ DispatchSocket /\ DispatchRecord /\ DispatchWorker
      /\ SocketsHaveHolders /\ SocketAhead /\ WorkerAhead
  BY DEF Admission
<1>1. PICK next \in DispatchSteps, new \in RecordType :
        /\ dispatch' = [dispatch EXCEPT !.step = next]
        /\ records' = [records EXCEPT ![q] = new]
        /\ \/ /\ dispatch.step = "setSocketId" /\ next = "setClientTID"
              /\ new = [records[q] EXCEPT !.socketId = s]
           \/ /\ dispatch.step = "setClientTID" /\ next = "setServerTID"
              /\ new = [records[q] EXCEPT !.clientTID = dispatch.client]
           \/ /\ dispatch.step = "setServerTID" /\ next = "setActive"
              /\ new = [records[q] EXCEPT !.serverTID = dispatch.serverTid]
           \/ /\ dispatch.step = "setActive" /\ next = "assign"
              /\ new = [records[q] EXCEPT !.isActive = TRUE]
  <2>1. q \in Slots
    BY DEF FillRecord, SetField, At, IndicesInRange, RecordChosen
  <2>2. records[q] \in RecordType
    BY <2>1
  <2> QED
    BY <2>2, RecordUpdates DEF FillRecord, SetField, At, DispatchSteps
<1>2. /\ q \in Slots /\ ~records[q].isActive /\ ~crashed
      /\ s \in Slots /\ sockets[s].state = "Bound"
      /\ UNCHANGED <<sockets, workers, ending, crashed>>
  BY <1>d DEF FillRecord, SetField, At, IndicesInRange, RecordChosen,
     ReservedRecordStaysFree, DispatchSocket, SocketInHand
<1>3. /\ records'[q] = new
      /\ \A r \in Slots : r # q => records'[r] = records[r]
  BY <1>1, <1>2
<1>4. sockets[s].port # 0
  BY <1>2 DEF Tables, SocketPorts
<1>5. RecordTids'
  <2>1. CASE new.serverTID = records[q].serverTID
    BY <1>3, <2>1 DEF Tables, RecordTids
  <2>2. CASE dispatch.step = "setServerTID" /\ new.serverTID = dispatch.serverTid
    <3>1. dispatch.serverTid = sockets[s].port
      BY <1>d, <2>2 DEF DispatchSocket, SocketInHand, PortRead
    <3>2. \A r \in Slots : records[r].serverTID # sockets[s].port
      BY <1>d, <2>2 DEF DispatchSocket, SocketInHand, TidWritten
    <3> QED
      BY <1>3, <2>2, <3>1, <3>2 DEF Tables, RecordTids
  <2> QED
    BY <1>1, <1>2, <2>1, <2>2 DEF RecordType
<1>6. HoldersHaveRecords'
  BY <1>2, <1>3
  DEF Tables, HoldersHaveRecords, Holding, InTransaction, RecordsOf, Matches, UsesSocket
<1>7. EndingIsOwn'
  <2>1. \A w \in Slots : ending[w].step \in Searched =>
          ending[w].record \in Slots /\ ending[w].record # q
    BY <1>2, RecordOfEnding
  <2> QED
    BY <1>2, <1>3, <2>1 DEF Tables, EndingIsOwn, RecordsOf, Matches
<1>8. SocketPorts' /\ WorkerTids' /\ ~crashed'
  BY <1>2 DEF Tables, SocketPorts, WorkerTids, Holding
<1>9. DispatchSocket'
  <2>1. \A w \in Slots : Holding(w)' <=> Holding(w)
    BY <1>2 DEF Holding
  <2>2. ASSUME NEW r \in Slots, records'[r].serverTID = sockets[s].port
        PROVE  next \in TidWritten /\ r = q
    <3>1. CASE r = q
      BY <1>1, <1>2, <1>3, <1>d, <2>2, <3>1
      DEF DispatchSocket, SocketInHand, TidWritten, RecordType
    <3>2. CASE r # q
      BY <1>1, <1>2, <1>3, <1>d, <2>2, <3>2 DEF DispatchSocket, SocketInHand
    <3> QED
      BY <3>1, <3>2
  <2> QED
    BY <1>1, <1>2, <1>d, <2>1, <2>2 DEF DispatchSocket, SocketInHand, PortRead
<1>10. DispatchRecord'
  BY <1>1, <1>2, <1>3, <1>d DEF DispatchRecord, TidWritten, RecordType
<1>11. DispatchWorker' /\ SocketAhead' /\ WorkerAhead'
  BY <1>1, <1>2, <1>d DEF DispatchWorker, WorkerInHand, SocketAhead, WorkerAhead
<1>12. SocketsHaveHolders'
  BY <1>1, <1>2, <1>d DEF SocketsHaveHolders, SocketInHand, InTransaction
<1> QED
  BY <1>5, <1>6, <1>7, <1>8, <1>9, <1>10, <1>11, <1>12 DEF Tables, Admission

\* The worker was idle; it takes over the record and the socket.
LEMMA AssignKeeps ==
  ASSUME SInv, AssignTransaction
  PROVE  Tables' /\ Admission'
<1> USE Types, Indices DEF SInv, IInv, DispatchType
<1> DEFINE i == dispatch.i
           q == dispatch.record
           s == dispatch.freeSocket
<1>d. /\ DispatchSocket /\ DispatchRecord /\ DispatchWorker
      /\ SocketsHaveHolders /\ SocketAhead /\ WorkerAhead
  BY DEF Admission
<1>1. /\ i \in Slots /\ s \in Slots /\ q \in Slots
      /\ sockets[s].state = "Bound" /\ sockets[s].port # 0
      /\ ChosenSocket = s /\ LocalPort(s) = sockets[s].port
      /\ dispatch.step = "assign" /\ dispatch' = [dispatch EXCEPT !.step = "request"]
      /\ UNCHANGED <<sockets, records, ending, crashed>>
  BY <1>d DEF AssignTransaction, At, IndicesInRange, WorkerChosen, DispatchSocket,
     DispatchRecord, SocketInHand, ChosenSocket, LocalPort, Tables, SocketPorts
<1>2. workers[i].state = "WAITING_FOR_REQUEST" /\ ending[i].step = "none"
  BY <1>1, <1>d DEF DispatchWorker, WorkerInHand, Tables, EndingIsOwn
<1>3. /\ records[q].isActive /\ records[q].socketId = s
      /\ records[q].clientTID = dispatch.client /\ records[q].serverTID = sockets[s].port
  BY <1>1, <1>d DEF DispatchRecord, DispatchSocket, SocketInHand, PortRead, TidWritten
<1>4. /\ workers'[i] = [state |-> "PROCESSING", clientTid |-> dispatch.client,
                        serverTid |-> sockets[s].port, socket |-> s]
      /\ \A w \in Slots : w # i => workers'[w] = workers[w]
  BY <1>1 DEF AssignTransaction
<1>5. /\ \A w \in Slots : w # i => (Holding(w)' <=> Holding(w))
                                /\ (InTransaction(w)' <=> InTransaction(w))
      /\ Holding(i)' /\ InTransaction(i)' /\ ~Holding(i) /\ ~InTransaction(i)
  BY <1>1, <1>2, <1>4 DEF Holding, InTransaction
<1>6. \A w \in Slots : Holding(w) => workers[w].serverTid # sockets[s].port
  BY <1>1, <1>d DEF DispatchSocket, SocketInHand
<1>7. WorkerTids'
  BY <1>4, <1>5, <1>6 DEF Tables, WorkerTids
<1>8. HoldersHaveRecords'
  <2>1. ASSUME NEW w \in Slots, w # i, Holding(w)
        PROVE  /\ workers'[w].serverTid # 0
               /\ \E r \in RecordsOf(w)' :
                    /\ records'[r].isActive
                    /\ InTransaction(w)' => UsesSocket(w, records[r].socketId)'
    BY <1>1, <1>4, <1>5, <2>1
    DEF Tables, HoldersHaveRecords, RecordsOf, Matches, UsesSocket
  <2>2. q \in RecordsOf(i)' /\ UsesSocket(i, s)' /\ workers'[i].serverTid # 0
    BY <1>1, <1>2, <1>3, <1>4 DEF RecordsOf, Matches, UsesSocket
  <2> QED
    BY <1>1, <1>3, <1>5, <2>1, <2>2 DEF HoldersHaveRecords
<1>9. EndingIsOwn'
  BY <1>1, <1>2, <1>4 DEF Tables, EndingIsOwn, RecordsOf, Matches, Searched
<1>10. SocketPorts' /\ RecordTids' /\ ~crashed'
  BY <1>1 DEF Tables, SocketPorts, RecordTids
<1>11. SocketsHaveHolders'
  <2>1. ASSUME NEW t \in Slots, sockets[t].state # "Inactive"
        PROVE  \E w \in Slots : InTransaction(w)' /\ workers'[w].serverTid = sockets[t].port
    <3>1. CASE t = s
      BY <1>1, <1>4, <1>5, <3>1
    <3>2. CASE t # s
      BY <1>1, <1>4, <1>5, <1>d, <2>1, <3>2 DEF SocketsHaveHolders
    <3> QED
      BY <3>1, <3>2
  <2> QED
    BY <1>1, <2>1 DEF SocketsHaveHolders
<1>12. DispatchSocket' /\ DispatchRecord' /\ SocketAhead' /\ WorkerAhead'
  BY <1>1 DEF DispatchSocket, DispatchRecord, SocketAhead, WorkerAhead, SocketInHand,
     PortRead, TidWritten
<1>13. DispatchWorker'
  BY <1>1, <1>2, <1>4 DEF DispatchWorker, WorkerInHand
<1> QED
  BY <1>7, <1>8, <1>9, <1>10, <1>11, <1>12, <1>13 DEF Tables, Admission

-----------------------------------------------------------------------------
\* A step of a worker, or of the dispatch thread on its behalf, that leaves
\* the transactions what they are.
SameTransactions ==
  /\ UNCHANGED <<sockets, records, crashed>>
  /\ \A w \in Slots :
       /\ workers'[w].clientTid = workers[w].clientTid
       /\ workers'[w].serverTid = workers[w].serverTid
       /\ workers'[w].socket \in {workers[w].socket, Count}
       /\ Holding(w)' <=> Holding(w)
       /\ InTransaction(w)' <=> InTransaction(w)
       /\ ending'[w].step = "unbinding" <=> ending[w].step = "unbinding"

LEMMA SameTransactionsKeep ==
  ASSUME SInv, SameTransactions
  PROVE  /\ ~crashed' /\ SocketPorts' /\ RecordTids' /\ WorkerTids' /\ HoldersHaveRecords'
         /\ UNCHANGED dispatch => DispatchSocket' /\ SocketsHaveHolders' /\ SocketAhead'
                                  /\ DispatchRecord'
<1>d. DispatchSocket /\ SocketsHaveHolders /\ SocketAhead /\ DispatchRecord
  BY DEF SInv, Admission
<1>1. ~crashed' /\ SocketPorts' /\ RecordTids' /\ WorkerTids'
  BY DEF SInv, Tables, SameTransactions, SocketPorts, RecordTids, WorkerTids
<1>2. HoldersHaveRecords'
  <2>1. ASSUME NEW w \in Slots, Holding(w)'
        PROVE  /\ workers'[w].serverTid # 0
               /\ \E r \in RecordsOf(w)' :
                    /\ records'[r].isActive
                    /\ InTransaction(w)' => UsesSocket(w, records[r].socketId)'
    <3>1. /\ workers[w].serverTid # 0
          /\ \E r \in RecordsOf(w) :
               /\ records[r].isActive
               /\ InTransaction(w) => UsesSocket(w, records[r].socketId)
      BY <2>1 DEF SInv, Tables, SameTransactions, HoldersHaveRecords
    <3> QED
      BY <2>1, <3>1 DEF SameTransactions, RecordsOf, Matches, UsesSocket
  <2> QED
    BY <2>1 DEF HoldersHaveRecords
<1>3. UNCHANGED dispatch => DispatchSocket' /\ SocketsHaveHolders'
  BY <1>d DEF SameTransactions, DispatchSocket, SocketsHaveHolders
<1>4. UNCHANGED dispatch => SocketAhead' /\ DispatchRecord'
  BY <1>d DEF SameTransactions, SocketAhead, DispatchRecord
<1> QED
  BY <1>1, <1>2, <1>3, <1>4

\* The dispatch thread is done with the request: the worker goes on, or has
\* rejected it and terminates the transaction at once.
LEMMA ProcessKeeps ==
  ASSUME SInv, ProcessRequestMessage
  PROVE  Tables' /\ Admission'
<1> USE Types, Indices DEF SInv, IInv
<1> DEFINE i == dispatch.i
<1>d. DispatchWorker /\ SocketsHaveHolders /\ EndingIsOwn
  BY DEF Admission, Tables
<1>1. /\ i \in Slots /\ workers[i].state = "PROCESSING" /\ ending[i].step = "none"
      /\ dispatch.step = "request" /\ UNCHANGED <<sockets, records, crashed>>
  BY <1>d DEF ProcessRequestMessage, At, IndicesInRange, WorkerChosen, DispatchWorker
<1>2. CASE /\ workers' = [workers EXCEPT ![i].state = "TRANSFERRING"]
           /\ dispatch' = Polling /\ UNCHANGED ending
  <2>1. /\ \A w \in Slots : w # i => workers'[w] = workers[w]
        /\ workers'[i].state = "TRANSFERRING"
        /\ \A w \in Slots : /\ workers'[w].clientTid = workers[w].clientTid
                            /\ workers'[w].serverTid = workers[w].serverTid
                            /\ workers'[w].socket = workers[w].socket
    BY <1>1, <1>2 DEF WorkerType
  <2>2. SameTransactions
    BY <1>1, <1>2, <2>1 DEF SameTransactions, Holding, InTransaction
  <2>3. EndingIsOwn'
    BY <1>1, <1>2, <1>d, <2>1 DEF EndingIsOwn, RecordsOf, Matches
  <2>4. SocketsHaveHolders'
    BY <1>1, <1>d, <2>2 DEF SocketsHaveHolders, SocketInHand, SameTransactions
  <2>5. DispatchSocket' /\ DispatchRecord' /\ DispatchWorker' /\ SocketAhead' /\ WorkerAhead'
    BY <1>2 DEF Polling, DispatchSocket, DispatchRecord, DispatchWorker, SocketAhead,
       WorkerAhead, SocketInHand, WorkerInHand, TidWritten
  <2> QED
    BY <2>2, <2>3, <2>4, <2>5, SameTransactionsKeep DEF Tables, Admission
<1>3. CASE /\ workers' = [workers EXCEPT ![i].socket = Count]
           /\ ending' = [ending EXCEPT ![i].step = "find"]
           /\ dispatch' = [dispatch EXCEPT !.step = "rejecting"]
  <2>1. /\ \A w \in Slots : w # i => workers'[w] = workers[w] /\ ending'[w] = ending[w]
        /\ workers'[i].socket = Count /\ ending'[i].step = "find"
        /\ \A w \in Slots : /\ workers'[w].state = workers[w].state
                            /\ workers'[w].clientTid = workers[w].clientTid
                            /\ workers'[w].serverTid = workers[w].serverTid
    BY <1>1, <1>3 DEF WorkerType, EndingType
  <2>2. SameTransactions
    BY <1>1, <2>1 DEF SameTransactions, Holding, InTransaction
  <2>3. EndingIsOwn'
    BY <1>1, <1>d, <2>1 DEF EndingIsOwn, RecordsOf, Matches, Searched
  <2>d. dispatch'.step = "rejecting"
    BY <1>3 DEF DispatchType
  <2>4. SocketsHaveHolders'
    BY <1>1, <1>d, <2>2 DEF SocketsHaveHolders, SocketInHand, SameTransactions
  <2>5. DispatchSocket' /\ DispatchRecord' /\ DispatchWorker' /\ SocketAhead' /\ WorkerAhead'
    BY <2>d DEF DispatchSocket, DispatchRecord, DispatchWorker, SocketAhead,
       WorkerAhead, SocketInHand, WorkerInHand, TidWritten
  <2> QED
    BY <2>2, <2>3, <2>4, <2>5, SameTransactionsKeep DEF Tables, Admission
<1> QED
  BY <1>2, <1>3 DEF ProcessRequestMessage

LEMMA WorkerRunsKeeps ==
  ASSUME SInv, NEW w \in Slots, WorkerRuns(w)
  PROVE  Tables' /\ Admission'
<1> USE Types, Indices DEF SInv, IInv
<1>1. /\ workers'[w].state = "WAITING_FOR_REQUEST" /\ workers[w].state = "INACTIVE"
      /\ \A v \in Slots : v # w => workers'[v] = workers[v]
      /\ \A v \in Slots : /\ workers'[v].clientTid = workers[v].clientTid
                          /\ workers'[v].serverTid = workers[v].serverTid
                          /\ workers'[v].socket = workers[v].socket
      /\ UNCHANGED <<sockets, records, ending, dispatch, crashed>>
  BY DEF WorkerRuns, WorkerType
<1>2. SameTransactions
  BY <1>1 DEF SameTransactions, Holding, InTransaction
<1>3. EndingIsOwn'
  BY <1>1 DEF Tables, EndingIsOwn, RecordsOf, Matches, Searched
<1>4. DispatchWorker' /\ WorkerAhead'
  BY <1>1 DEF Admission, DispatchWorker, WorkerAhead, IsBusy, IndicesInRange, WorkerChosen,
     WorkerInHand
<1> QED
  BY <1>1, <1>2, <1>3, <1>4, SameTransactionsKeep DEF Tables, Admission

LEMMA EndTransferKeeps ==
  ASSUME SInv, NEW w \in Slots, EndTransfer(w)
  PROVE  Tables' /\ Admission'
<1> USE Types, Indices DEF SInv, IInv
<1>1. /\ workers[w].state = "TRANSFERRING" /\ ending[w].step = "none"
      /\ \A v \in Slots : v # w => workers'[v] = workers[v] /\ ending'[v] = ending[v]
      /\ workers'[w].socket = Count /\ ending'[w].step = "find"
      /\ \A v \in Slots : /\ workers'[v].state = workers[v].state
                          /\ workers'[v].clientTid = workers[v].clientTid
                          /\ workers'[v].serverTid = workers[v].serverTid
      /\ UNCHANGED <<sockets, records, dispatch, crashed>>
  BY DEF EndTransfer, WorkerType, EndingType
<1>2. SameTransactions
  BY <1>1 DEF SameTransactions, Holding, InTransaction
<1>3. EndingIsOwn'
  BY <1>1 DEF Tables, EndingIsOwn, RecordsOf, Matches, Searched
<1>4. DispatchWorker' /\ WorkerAhead'
  BY <1>1 DEF Admission, DispatchWorker, WorkerAhead, IsBusy, IndicesInRange, WorkerChosen,
     WorkerInHand
<1> QED
  BY <1>1, <1>2, <1>3, <1>4, SameTransactionsKeep DEF Tables, Admission

\* The worker's identifiers lead to its own record: nothing is out of range.
LEMMA FindRecordKeeps ==
  ASSUME SInv, NEW w \in Slots, FindRecord(w)
  PROVE  Tables' /\ Admission'
<1> USE Types, Indices DEF SInv, IInv
<1>1. ending[w].step = "find" /\ Holding(w) /\ InTransaction(w)
  BY DEF FindRecord, Ending, Tables, EndingIsOwn, Holding, InTransaction
<1>2. PICK q \in Slots : q \in RecordsOf(w) /\ \A r \in RecordsOf(w) : r = q
  BY <1>1, RecordOfHolder DEF RecordsOf, Matches
<1>3. UsesSocket(w, records[q].socketId) /\ records[q].isActive
  BY <1>1, <1>2, RecordOfHolder DEF RecordsOf, Matches
<1>4. PICK r \in Slots :
        /\ IsFirst(r, RecordsOf(w))
        /\ ending' = [ending EXCEPT ![w] =
             [step |-> "unbind", record |-> r, socket |-> records[r].socketId]]
        /\ crashed' = (records[r].socketId = Count)
  BY <1>2 DEF FindRecord
<1>5. r = q /\ records[q].socketId \in Slots
  BY <1>2, <1>3, <1>4 DEF IsFirst, UsesSocket
<1>6. /\ \A v \in Slots : v # w => ending'[v] = ending[v]
      /\ ending'[w].step = "unbind" /\ ending'[w].record = q
      /\ ending'[w].socket = records[q].socketId
      /\ ~crashed' /\ UNCHANGED <<sockets, records, workers, dispatch, crashed>>
  BY <1>4, <1>5 DEF FindRecord, Ending
<1>7. SameTransactions
  BY <1>1, <1>6 DEF SameTransactions, Holding, InTransaction
<1>8. EndingIsOwn'
  BY <1>1, <1>2, <1>6 DEF Tables, EndingIsOwn, RecordsOf, Matches, Holding
<1>9. DispatchWorker' /\ WorkerAhead'
  BY <1>1, <1>6 DEF Admission, DispatchWorker, WorkerAhead, IsBusy, IndicesInRange,
     WorkerChosen, WorkerInHand
<1> QED
  BY <1>6, <1>7, <1>8, <1>9, SameTransactionsKeep DEF Tables, Admission

LEMMA BecomeIdleKeeps ==
  ASSUME SInv, NEW w \in Slots, BecomeIdle(w)
  PROVE  Tables' /\ Admission'
<1> USE Types, Indices DEF SInv, IInv
<1>1. /\ ending[w].step = "ready" /\ ending'[w].step = "none"
      /\ workers'[w].state = "WAITING_FOR_REQUEST"
      /\ \A v \in Slots : v # w => workers'[v] = workers[v] /\ ending'[v] = ending[v]
      /\ \A v \in Slots : /\ workers'[v].clientTid = workers[v].clientTid
                          /\ workers'[v].serverTid = workers[v].serverTid
                          /\ workers'[v].socket = workers[v].socket
      /\ UNCHANGED <<sockets, records, dispatch, crashed>>
  BY DEF BecomeIdle, Ending, NotEnding, WorkerType
<1>2. SameTransactions
  BY <1>1 DEF SameTransactions, Holding, InTransaction
<1>3. EndingIsOwn'
  BY <1>1 DEF Tables, EndingIsOwn, RecordsOf, Matches, Searched
<1>4. DispatchWorker' /\ WorkerAhead'
  BY <1>1 DEF Admission, DispatchWorker, WorkerAhead, IsBusy, IndicesInRange, WorkerChosen,
     WorkerInHand
<1> QED
  BY <1>1, <1>2, <1>3, <1>4, SameTransactionsKeep DEF Tables, Admission

-----------------------------------------------------------------------------
\* The socket a termination unbinds is the transaction's own, so it is bound.
LEMMA BeginUnbindKeeps ==
  ASSUME SInv, NEW w \in Slots, BeginUnbind(w)
  PROVE  Tables' /\ Admission'
<1> USE Types, Indices DEF SInv, IInv
<1> DEFINE s == ending[w].socket
<1>d. /\ DispatchSocket /\ DispatchRecord /\ DispatchWorker
      /\ SocketsHaveHolders /\ SocketAhead /\ WorkerAhead
  BY DEF Admission
<1>1. /\ ending[w].step = "unbind" /\ UNCHANGED <<records, workers, dispatch, crashed>>
      /\ Holding(w) /\ s \in Slots
      /\ sockets[s].port = workers[w].serverTid /\ sockets[s].state = "Bound"
      /\ sockets[s].port # 0
  BY RecordOfEnding DEF BeginUnbind, Ending, Searched, UsesSocket
<1>2. /\ \A v \in Slots : v # w => ending'[v] = ending[v]
      /\ ending'[w].step = "unbinding" /\ ending'[w].record = ending[w].record
      /\ ending'[w].socket = s
      /\ \A t \in Slots : t # s => sockets'[t] = sockets[t]
      /\ sockets'[s].state = "Unbinding" /\ sockets'[s].port = sockets[s].port
  BY <1>1 DEF BeginUnbind, GoOn, SocketType, EndingType
<1>3. \A v \in Slots : /\ Holding(v)' <=> Holding(v)
                       /\ InTransaction(v)' <=> InTransaction(v)
  BY <1>1, <1>2 DEF Holding, InTransaction
<1>4. SocketPorts' /\ RecordTids' /\ WorkerTids' /\ ~crashed'
  BY <1>1, <1>2, <1>3 DEF Tables, SocketPorts, RecordTids, WorkerTids
<1>5. HoldersHaveRecords'
  <2>1. ASSUME NEW v \in Slots, Holding(v), NEW t \in Slots,
               InTransaction(v), UsesSocket(v, t)
        PROVE  UsesSocket(v, t)'
    <3>1. CASE v = w
      <4>1. t = s
        BY <1>1, <2>1, <3>1 DEF UsesSocket, Tables, SocketPorts
      <4> QED
        BY <1>1, <1>2, <2>1, <3>1, <4>1 DEF UsesSocket
    <3>2. CASE v # w
      <4>1. t # s
        BY <1>1, <2>1, <3>2 DEF UsesSocket, Tables, WorkerTids
      <4> QED
        BY <1>1, <1>2, <2>1, <3>2, <4>1 DEF UsesSocket
    <3> QED
      BY <3>1, <3>2
  <2>2. \A v \in Slots, t \in Index :
          Holding(v) /\ InTransaction(v) /\ UsesSocket(v, t) => UsesSocket(v, t)'
    BY <2>1 DEF UsesSocket
  <2> QED
    BY <1>1, <1>3, <2>2 DEF Tables, HoldersHaveRecords, RecordsOf, Matches, RecordType
<1>6. EndingIsOwn'
  BY <1>1, <1>2 DEF Tables, EndingIsOwn, RecordsOf, Matches, Searched
<1>7. dispatch.step \in SocketInHand => dispatch.freeSocket # s
  BY <1>1, <1>d DEF DispatchSocket
<1>8. DispatchSocket'
  BY <1>1, <1>2, <1>3, <1>7, <1>d DEF DispatchSocket, IndicesInRange
<1>9. SocketsHaveHolders'
  BY <1>1, <1>2, <1>3, <1>d DEF SocketsHaveHolders
<1>10. DispatchRecord' /\ DispatchWorker' /\ WorkerAhead'
  BY <1>1, <1>2, <1>d DEF DispatchRecord, DispatchWorker, WorkerAhead, IsBusy,
     IndicesInRange, WorkerChosen
<1>11. SocketAhead'
  BY <1>1, <1>2, <1>d DEF SocketAhead
<1> QED
  BY <1>4, <1>5, <1>6, <1>8, <1>9, <1>10, <1>11 DEF Tables, Admission

\* Nobody else uses the socket that becomes Inactive.
LEMMA FinishUnbindKeeps ==
  ASSUME SInv, NEW w \in Slots, FinishUnbind(w)
  PROVE  Tables' /\ Admission'
<1> USE Types, Indices DEF SInv, IInv
<1> DEFINE s == ending[w].socket
<1>d. /\ DispatchSocket /\ DispatchRecord /\ DispatchWorker
      /\ SocketsHaveHolders /\ SocketAhead /\ WorkerAhead
  BY DEF Admission
<1>1. /\ ending[w].step = "unbinding" /\ UNCHANGED <<records, workers, dispatch, crashed>>
      /\ Holding(w) /\ InTransaction(w) /\ s \in Slots
      /\ sockets[s].port = workers[w].serverTid /\ sockets[s].state = "Unbinding"
      /\ sockets[s].port # 0
  BY RecordOfEnding
  DEF FinishUnbind, Ending, Searched, UsesSocket, Holding, InTransaction
<1>2. /\ \A v \in Slots : v # w => ending'[v] = ending[v]
      /\ ending'[w].step = "release" /\ ending'[w].record = ending[w].record
      /\ \A t \in Slots : t # s => sockets'[t] = sockets[t]
      /\ sockets'[s].state = "Inactive" /\ sockets'[s].port = 0
  BY <1>1 DEF FinishUnbind, GoOn, EndingType
<1>3. /\ \A v \in Slots : Holding(v)' <=> Holding(v)
      /\ \A v \in Slots : InTransaction(v)' <=> InTransaction(v) /\ v # w
  BY <1>1, <1>2 DEF Holding, InTransaction
<1>4. SocketPorts' /\ RecordTids' /\ WorkerTids' /\ ~crashed'
  BY <1>1, <1>2, <1>3 DEF Tables, SocketPorts, RecordTids, WorkerTids
<1>5. HoldersHaveRecords'
  <2>1. ASSUME NEW v \in Slots, v # w, Holding(v), NEW t \in Index, UsesSocket(v, t)
        PROVE  UsesSocket(v, t)'
    <3>1. t # s
      BY <1>1, <2>1 DEF UsesSocket, Tables, WorkerTids
    <3> QED
      BY <1>1, <1>2, <2>1, <3>1 DEF UsesSocket
  <2> QED
    BY <1>1, <1>3, <2>1 DEF Tables, HoldersHaveRecords, RecordsOf, Matches, RecordType
<1>6. EndingIsOwn'
  BY <1>1, <1>2 DEF Tables, EndingIsOwn, RecordsOf, Matches, Searched
<1>7. dispatch.step \in SocketInHand \cup {"bind"} => dispatch.freeSocket # s
  BY <1>1, <1>d DEF DispatchSocket
<1>8. DispatchSocket'
  BY <1>1, <1>2, <1>3, <1>7, <1>d DEF DispatchSocket, IndicesInRange
<1>9. SocketsHaveHolders'
  <2>1. ASSUME NEW t \in Slots, t # s, InTransaction(w) /\ workers[w].serverTid = sockets[t].port
        PROVE  FALSE
    BY <1>1, <2>1 DEF Tables, SocketPorts
  <2> QED
    BY <1>1, <1>2, <1>3, <1>d, <2>1 DEF SocketsHaveHolders
<1>10. DispatchRecord' /\ DispatchWorker' /\ WorkerAhead'
  BY <1>1, <1>2, <1>d DEF DispatchRecord, DispatchWorker, WorkerAhead, IsBusy,
     IndicesInRange, WorkerChosen
<1>11. SocketAhead'
  BY <1>1, <1>2, <1>d DEF SocketAhead
<1> QED
  BY <1>4, <1>5, <1>6, <1>8, <1>9, <1>10, <1>11 DEF Tables, Admission

\* The record that is freed is no other transaction's.
LEMMA ReleaseKeeps ==
  ASSUME SInv, NEW w \in Slots, ReleaseRecord(w)
  PROVE  Tables' /\ Admission'
<1> USE Types, Indices DEF SInv, IInv
<1> DEFINE q == ending[w].record
<1>d. /\ DispatchSocket /\ DispatchRecord /\ DispatchWorker
      /\ SocketsHaveHolders /\ SocketAhead /\ WorkerAhead
  BY DEF Admission
<1>1. /\ ending[w].step = "release" /\ UNCHANGED <<sockets, workers, dispatch, crashed>>
      /\ Holding(w) /\ q \in Slots /\ records[q].serverTID = workers[w].serverTid
      /\ workers[w].serverTid # 0 /\ records[q].isActive
  BY RecordOfEnding DEF ReleaseRecord, Ending, Searched
<1>2. /\ \A v \in Slots : v # w => ending'[v] = ending[v]
      /\ ending'[w].step = "ready"
      /\ \A r \in Slots : /\ r # q => records'[r] = records[r]
                          /\ records'[r].socketId = records[r].socketId
                          /\ records'[r].clientTID = records[r].clientTID
                          /\ records'[r].serverTID = records[r].serverTID
  BY <1>1 DEF ReleaseRecord, GoOn, EndingType, RecordType
<1>3. /\ \A v \in Slots : Holding(v)' <=> Holding(v) /\ v # w
      /\ \A v \in Slots : InTransaction(v)' <=> InTransaction(v)
  BY <1>1, <1>2 DEF Holding, InTransaction
<1>4. SocketPorts' /\ RecordTids' /\ WorkerTids' /\ ~crashed'
  BY <1>1, <1>2, <1>3 DEF Tables, SocketPorts, RecordTids, WorkerTids
<1>5. HoldersHaveRecords'
  <2>1. ASSUME NEW v \in Slots, v # w, Holding(v), NEW r \in RecordsOf(v)
        PROVE  r # q
    BY <1>1, <2>1 DEF Tables, WorkerTids, RecordsOf, Matches
  <2>2. ASSUME NEW v \in Slots, v # w, NEW t, InTransaction(v), UsesSocket(v, t)
        PROVE  UsesSocket(v, t)'
    BY <1>1, <1>2, <2>2 DEF UsesSocket
  <2> QED
    BY <1>1, <1>2, <1>3, <2>1, <2>2 DEF Tables, HoldersHaveRecords, RecordsOf, Matches
<1>6. EndingIsOwn'
  BY <1>1, <1>2 DEF Tables, EndingIsOwn, RecordsOf, Matches, Searched
<1>7. DispatchSocket'
  BY <1>1, <1>2, <1>3, <1>d DEF DispatchSocket
<1>8. SocketsHaveHolders'
  BY <1>1, <1>3, <1>d DEF SocketsHaveHolders
<1>9. DispatchRecord'
  <2>1. dispatch.step = "assign" => dispatch.record # q
    <3> SUFFICES ASSUME dispatch.step = "assign", dispatch.record = q PROVE FALSE
      OBVIOUS
    <3>1. workers[w].serverTid = sockets[dispatch.freeSocket].port
      BY <1>1, <1>d DEF DispatchRecord, DispatchSocket, SocketInHand, PortRead, TidWritten
    <3> QED
      BY <1>1, <1>d, <3>1 DEF DispatchSocket, SocketInHand
  <2>2. dispatch.step \in {"setClientTID", "setServerTID", "setActive", "assign"}
          => dispatch.record \in Slots
    BY <1>d DEF IndicesInRange, RecordChosen, DispatchRecord
  <2> QED
    BY <1>1, <1>2, <1>d, <2>1, <2>2 DEF DispatchRecord, TidWritten
<1>10. DispatchWorker' /\ WorkerAhead' /\ SocketAhead'
  BY <1>1, <1>2, <1>d DEF DispatchWorker, WorkerAhead, SocketAhead, IsBusy,
     IndicesInRange, WorkerChosen
<1> QED
  BY <1>4, <1>5, <1>6, <1>7, <1>8, <1>9, <1>10 DEF Tables, Admission

-----------------------------------------------------------------------------
LEMMA InitSInv == Init => SInv
<1> SUFFICES ASSUME Init PROVE SInv
  OBVIOUS
<1>1. Tables
  BY DEF Init, NotEnding, Tables, SocketPorts, RecordTids, WorkerTids, HoldersHaveRecords,
     EndingIsOwn, Holding, Searched
<1>2. Admission
  BY DEF Init, Polling, Admission, DispatchSocket, DispatchRecord, DispatchWorker,
     SocketsHaveHolders, SocketAhead, WorkerAhead, SocketInHand, WorkerInHand, TidWritten
<1> QED
  BY <1>1, <1>2, InitIInv DEF SInv

LEMMA SpacedKeeps ==
  ASSUME ~BindMayFail, SInv, [SpacedNext]_vars
  PROVE  SInv'
<1>0. IInv'
  BY SpacedIInv
<1>1. CASE LookingStep
  BY <1>0, <1>1, LookingKeeps DEF SInv
<1>2. CASE /\ dispatch.freeSocket \in Slots =>
                sockets[dispatch.freeSocket].state # "Unbinding"
           /\ ScanSockets
  BY <1>0, <1>2, ScanSocketsKeeps DEF SInv
<1>3. CASE FinishBind
  BY <1>0, <1>3, FinishBindKeeps DEF SInv
<1>4. CASE FillRecord
  BY <1>0, <1>4, FillRecordKeeps DEF SInv
<1>5. CASE AssignTransaction
  BY <1>0, <1>5, AssignKeeps DEF SInv
<1>6. CASE ProcessRequestMessage
  BY <1>0, <1>6, ProcessKeeps DEF SInv
<1>7. CASE \E w \in Slots :
             \/ WorkerRuns(w) \/ EndTransfer(w) \/ FindRecord(w) \/ BeginUnbind(w)
             \/ FinishUnbind(w) \/ ReleaseRecord(w) \/ BecomeIdle(w)
  BY <1>0, <1>7, WorkerRunsKeeps, EndTransferKeeps, FindRecordKeeps, BeginUnbindKeeps,
     FinishUnbindKeeps, ReleaseKeeps, BecomeIdleKeeps DEF SInv
<1>8. CASE UNCHANGED vars
  <2>1. Tables'
    BY <1>8, TablesAlone DEF vars, SInv
  <2>2. Admission'
    BY <1>8 DEF vars, SInv, Admission, DispatchSocket, DispatchRecord, DispatchWorker,
       SocketsHaveHolders, SocketAhead, WorkerAhead, Holding, InTransaction, IsBusy
  <2> QED
    BY <1>0, <2>1, <2>2 DEF SInv
<1> QED
  BY <1>1, <1>2, <1>3, <1>4, <1>5, <1>6, <1>7, <1>8 DEF SpacedNext, LookingStep

\* The inductive invariant of the bookkeeping holds in every reachable state,
\* when Bind does not fail and no admission meets a half-finished termination.
THEOREM SpacedInvariance == ~BindMayFail /\ SpacedSpec => []SInv
<1> SUFFICES ASSUME ~BindMayFail PROVE SpacedSpec => []SInv
  OBVIOUS
<1>1. SInv /\ [SpacedNext]_vars => SInv'
  BY SpacedKeeps
<1> QED
  BY InitSInv, <1>1, PTL DEF SpacedSpec

\* Every transaction has exactly one active record with its identifiers, and
\* that record leads to its socket: TerminateTransaction (Server.cpp:257)
\* finds what the transaction holds and nothing else.
THEOREM OwnRecordHolds == ~BindMayFail /\ SpacedSpec => []OwnRecord
<1>1. SInv => OwnRecord
  <2> SUFFICES ASSUME SInv, NEW w \in Slots, InTransaction(w)
               PROVE  \E r \in RecordsOf(w) :
                        /\ RecordsOf(w) = {r}
                        /\ records[r].isActive
                        /\ records[r].socketId \in Slots
                        /\ sockets[records[r].socketId].port = workers[w].serverTid
                        /\ workers[w].serverTid # 0
                        /\ workers[w].socket \in {records[r].socketId, Count}
    BY DEF OwnRecord
  <2>1. PICK r \in Slots :
           /\ records[r].clientTID = workers[w].clientTid
           /\ records[r].serverTID = workers[w].serverTid
           /\ workers[w].serverTid # 0
           /\ records[r].isActive
           /\ \A q \in Slots : records[q].serverTID = workers[w].serverTid => q = r
           /\ UsesSocket(w, records[r].socketId)
    BY RecordOfHolder DEF Holding, InTransaction
  <2>2. RecordsOf(w) = {r}
    BY <2>1 DEF RecordsOf, Matches
  <2> QED
    BY <2>1, <2>2 DEF UsesSocket
<1> QED
  BY <1>1, SpacedInvariance, PTL

\* Two transactions never share a socket.
THEOREM SocketExclusiveHolds == ~BindMayFail /\ SpacedSpec => []SocketExclusive
<1>1. SInv => SocketExclusive
  BY DEF SInv, Tables, WorkerTids, SocketExclusive, InTransaction, Holding
<1> QED
  BY <1>1, SpacedInvariance, PTL

\* No socket stays bound that neither an admission nor an active record leads
\* to (AssignWorkerToTransaction, Server.cpp:297).
THEOREM NoSocketLeakHolds == ~BindMayFail /\ SpacedSpec => []NoSocketLeak
<1>1. SInv => NoSocketLeak
  <2> SUFFICES ASSUME SInv, NEW s \in Slots, sockets[s].state = "Bound",
                      ~(/\ dispatch.freeSocket = s
                        /\ dispatch.step \in SocketInHand \ {"assign"})
               PROVE  \E r \in Slots : records[r].isActive /\ records[r].socketId = s
    BY DEF NoSocketLeak, SocketInHand
  <2>1. CASE dispatch.freeSocket = s /\ dispatch.step \in {"assign", "bind"}
    BY <2>1 DEF SInv, Admission, DispatchSocket, DispatchRecord
  <2>2. CASE \E w \in Slots : InTransaction(w) /\ workers[w].serverTid = sockets[s].port
    <3>1. PICK w \in Slots : InTransaction(w) /\ workers[w].serverTid = sockets[s].port
      BY <2>2
    <3>2. PICK r \in Slots : /\ records[r].isActive /\ workers[w].serverTid # 0
                             /\ UsesSocket(w, records[r].socketId)
      BY <3>1, RecordOfHolder DEF Holding, InTransaction
    <3>3. records[r].socketId = s
      BY <3>1, <3>2 DEF UsesSocket, SInv, Tables, SocketPorts
    <3> QED
      BY <3>2, <3>3
  <2> QED
    BY <2>1, <2>2 DEF SInv, Admission, SocketsHaveHolders, SocketInHand
<1> QED
  BY <1>1, SpacedInvariance, PTL

\* In the spaced server no termination reads past the end of the vector of
\* sockets (TerminateTransaction, Server.cpp:268).
THEOREM NeverCrashes == ~BindMayFail /\ SpacedSpec => []~crashed
<1>1. SInv => ~crashed
  BY DEF SInv, Tables
<1> QED
  BY <1>1, SpacedInvariance, PTL
=============================================================================
