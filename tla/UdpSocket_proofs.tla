--------------------------- MODULE UdpSocket_proofs ---------------------------
(***************************************************************************)
(* UdpSocket for any number of workers and of bindings. Os() and Bind keep *)
(* the handle apart because the counter counts the threads inside Os(),    *)
(* and because from the moment Bind has seen it at 0 no thread gets past   *)
(* the look at the state. What goes round this protocol is safe, when the  *)
(* socket is not shared, because the record makes those who bind the       *)
(* socket and those who use and unbind it take turns.                      *)
(***************************************************************************)
EXTENDS UdpSocket, FiniteSetTheorems, TLAPS

Inside(f) == {t \in Threads : f[t] \in {"look", "lock", "leave"}}

\* _activityCounter counts the threads inside Os().
Counted == counter = Cardinality(Inside(pc))

\* Everything TypeOK says but the range of the counter.
Typed ==
  /\ state \in States
  /\ lifeCycle \in Bindings /\ handle \in Bindings /\ binds \in Bindings
  /\ pc \in [Threads -> Places]
  /\ call \in [Threads -> Calls]
  /\ os \in [Threads -> Bindings]
  /\ assigned \subseteq Owners
  /\ active \in BOOLEAN /\ shared \in BOOLEAN
  /\ pc["dispatch"] \in {"quiet", "create"} => binds < MaxBinds

InBind == {"quiet", "create", "swap", "handle", "publish"}
InUnbind == {"drop", "inactive"}

\* The states Binding and Unbinding belong to one thread at a time.
StateHasOwner ==
  /\ pc["dispatch"] \in InBind => state = "Binding"
  /\ \A t \in Threads : pc[t] \in InUnbind => state = "Unbinding"
  /\ \A t, u \in Threads : pc[t] \in InUnbind /\ pc[u] \in InUnbind => t = u

\* Once Bind has seen the counter at 0, no thread is about to read the handle.
QuietIsKept ==
  pc["dispatch"] \in InBind \ {"quiet"} => \A t \in Threads : pc[t] # "lock"

\* The handle is that of the latest binding but while Bind replaces it, and a
\* bound socket is alive.
HandleIsLatest ==
  /\ pc["dispatch"] \notin {"swap", "handle"} => handle = binds
  /\ pc["dispatch"] \in {"swap", "handle", "publish"} => binds # 0
  /\ pc["dispatch"] \in {"handle", "publish"} => lifeCycle = binds
  /\ state = "Bound" => lifeCycle = binds /\ binds # 0

Protocol == StateHasOwner /\ QuietIsKept /\ HandleIsLatest

Holding == {"leave", "use", "pollRead", "portLook", "portLock"}
Using == {"lock", "use", "pollRead", "portLook", "portLock"}
InCall == {"enter", "look", "lock", "leave", "use"}
InTermination == {"unbind", "drop", "inactive", "release"}

\* What calls leave behind: no shared_ptr outlives its call, the dispatch
\* thread neither polls nor receives, and does not bind what it uses. A worker
\* that ends its transaction has dropped the socket.
CallsEnd ==
  /\ \A t \in Threads : os[t] # 0 => pc[t] \in Holding
  /\ \A o \in Owners : call[o] \in {"none", "poll", "receive", "send"}
  /\ \A o \in Owners : pc[o] \notin InBind \cup {"assign"}
  /\ \A t \in Threads : call[t] # "none" <=> pc[t] \in Using \cup InCall
  /\ call["dispatch"] \in {"none", "port", "send", "reject"}
  /\ pc["dispatch"] \notin {"pollRead", "portLook", "portLock"}
  /\ pc["dispatch"] \in Using \/ os["dispatch"] # 0 => state # "Binding"
  /\ \A o \in assigned : pc[o] \notin InTermination

\* The thread has the transaction: it uses or unbinds the socket.
Has(t) ==
  \/ t \in assigned
  \/ pc[t] \in InTermination
  \/ call[t] \in {"poll", "receive", "reject"}
  \/ call[t] = "send" /\ t # "dispatch"

\* The dispatch thread is between the look at the record and the assignment.
Admitting ==
  pc["dispatch"] \in InBind \cup {"assign"} \/ call["dispatch"] = "port"

\* A socket that is not shared: one thread at a time has the transaction, the
\* record is active meanwhile, and no request is admitted. The socket is bound
\* while it is used, except that Ack(0) may be on its way for too long.
TakeTurns ==
  ~shared =>
    /\ \A t \in Threads : Has(t) => active
    /\ \A t, u \in Threads : Has(t) /\ Has(u) => t = u
    /\ Admitting => ~active
    /\ \A t \in Threads :
         (t = "dispatch" => call[t] # "send") /\ (pc[t] \in Using \/ os[t] # 0)
           => state = "Bound"

IInv == Typed /\ Counted /\ Protocol /\ CallsEnd /\ TakeTurns

-----------------------------------------------------------------------------
LEMMA LockedIsHandle == Locked \in {handle, 0}
BY DEF Locked

LEMMA InsideIsFinite ==
  ASSUME NEW f
  PROVE  /\ IsFiniteSet(Inside(f))
         /\ Cardinality(Inside(f)) \in 0 .. Cardinality(Threads)
<1>1. IsFiniteSet(Threads)
  BY OwnersAssumption, FS_AddElement DEF Threads
<1>2. Inside(f) \in SUBSET Threads
  BY DEF Inside
<1>3. IsFiniteSet(Inside(f)) /\ Cardinality(Inside(f)) <= Cardinality(Threads)
  BY <1>1, <1>2, FS_Subset
<1> QED
  BY <1>1, <1>3, FS_CardinalityType

\* When the counter is 0 no thread is inside Os().
LEMMA QuietMeansNobody ==
  ASSUME Counted, counter = 0, NEW t \in Threads
  PROVE  pc[t] # "lock"
<1>1. Inside(pc) = {}
  BY InsideIsFinite, FS_EmptySet DEF Counted
<1> QED
  BY <1>1 DEF Inside

-----------------------------------------------------------------------------
\* Each conjunct of the invariant is kept by every step.
LEMMA TypedNext ==
  ASSUME Typed, [Next]_vars
  PROVE  Typed'
<1> USE OwnersAssumption, MaxBindsAssumption
        DEF Typed, Threads, Bindings, Places, Calls, States, pointers, tables
<1>1. ASSUME NEW t \in Threads, Enter(t) PROVE Typed'
  BY <1>1 DEF Enter, Goto
<1>2. ASSUME NEW t \in Threads, LookAtState(t) PROVE Typed'
  BY <1>2 DEF LookAtState, Goto
<1>3. ASSUME NEW t \in Threads, LockHandle(t) PROVE Typed'
  BY <1>3, LockedIsHandle DEF LockHandle, Goto
<1>4. ASSUME NEW t \in Threads, Leave(t) PROVE Typed'
  BY <1>4 DEF Leave, After, Goto
<1>5. ASSUME NEW t \in Threads, UseSocket(t) PROVE Typed'
  BY <1>5 DEF UseSocket, Return, After, Goto
<1>6. ASSUME NEW o \in Owners, PollRead(o) PROVE Typed'
  BY <1>6 DEF PollRead, Return, After, Goto
<1>7. ASSUME NEW o \in Owners, PortLook(o) PROVE Typed'
  BY <1>7 DEF PortLook, Return, After, Goto
<1>8. ASSUME NEW o \in Owners, PortLock(o) PROVE Typed'
  BY <1>8 DEF PortLock, Return, After, Goto
<1>9. ASSUME NEW o \in Owners, WorkerCalls(o) PROVE Typed'
  BY <1>9 DEF WorkerCalls, Calling, Goto
<1>10. ASSUME NEW o \in Owners, WorkerTerminates(o) PROVE Typed'
  BY <1>10 DEF WorkerTerminates, Goto
<1>11. ASSUME NEW t \in Threads, BeginUnbind(t) PROVE Typed'
  BY <1>11 DEF BeginUnbind, Goto
<1>12. ASSUME NEW t \in Threads, DropLifeCycle(t) PROVE Typed'
  BY <1>12 DEF DropLifeCycle, Goto
<1>13. ASSUME NEW t \in Threads, BecomeInactive(t) PROVE Typed'
  BY <1>13 DEF BecomeInactive, Goto
<1>14. CASE TryBind
  BY <1>14 DEF TryBind, Admits, Calling, Goto
<1>15. CASE TakeBoundSocket
  BY <1>15 DEF TakeBoundSocket, Admits, Calling, Goto
<1>16. CASE WaitForQuiet
  BY <1>16 DEF WaitForQuiet, Goto
<1>17. CASE CreateAndBind
  BY <1>17 DEF CreateAndBind, Calling, Goto
<1>18. CASE SwapLifeCycle
  BY <1>18 DEF SwapLifeCycle, Goto
<1>19. CASE WriteHandle
  BY <1>19 DEF WriteHandle, Goto
<1>20. CASE PublishBound
  BY <1>20 DEF PublishBound, Calling, Goto
<1>21. CASE AssignSocket
  BY <1>21 DEF AssignSocket, Calling, Goto
<1>22. CASE UNCHANGED vars
  BY <1>22 DEF vars, pointers, tables
<1>23. ASSUME NEW t \in Threads, ReleaseRecord(t) PROVE Typed'
  BY <1>23 DEF ReleaseRecord, Goto
<1>24. ASSUME NEW t \in Threads, BecomeIdle(t) PROVE Typed'
  BY <1>24 DEF BecomeIdle, Goto
<1> QED
  BY <1>1, <1>2, <1>3, <1>4, <1>5, <1>6, <1>7, <1>8, <1>9, <1>10, <1>11,
     <1>12, <1>13, <1>14, <1>15, <1>16, <1>17, <1>18, <1>19, <1>20, <1>21,
     <1>22, <1>23, <1>24 DEF Next

LEMMA CountedNext ==
  ASSUME Typed, Counted, [Next]_vars
  PROVE  Counted'
<1> USE OwnersAssumption DEF Typed, Threads, pointers, tables
<1> DEFINE Same == counter' = counter /\ Inside(pc') = Inside(pc)
<1>1. ASSUME NEW t \in Threads, Enter(t) PROVE Counted'
  <2>1. /\ counter' = counter + 1
        /\ t \notin Inside(pc) /\ Inside(pc') = Inside(pc) \cup {t}
    BY <1>1 DEF Enter, Goto, Inside
  <2>2. Cardinality(Inside(pc) \cup {t}) = Cardinality(Inside(pc)) + 1
    BY <2>1, InsideIsFinite, FS_AddElement
  <2> QED
    BY <2>1, <2>2 DEF Counted
<1>2. ASSUME NEW t \in Threads, LookAtState(t) PROVE Same
  BY <1>2 DEF LookAtState, Goto, Inside
<1>3. ASSUME NEW t \in Threads, LockHandle(t) PROVE Same
  BY <1>3 DEF LockHandle, Goto, Inside
<1>4. ASSUME NEW t \in Threads, Leave(t) PROVE Counted'
  <2>1. counter' = counter - 1 /\ t \in Inside(pc) /\ Inside(pc') = Inside(pc) \ {t}
    BY <1>4 DEF Leave, After, Goto, Inside
  <2>2. Cardinality(Inside(pc) \ {t}) = Cardinality(Inside(pc)) - 1
    BY <2>1, InsideIsFinite, FS_RemoveElement
  <2> QED
    BY <2>1, <2>2 DEF Counted
<1>5. ASSUME NEW t \in Threads, UseSocket(t) PROVE Same
  BY <1>5 DEF UseSocket, Return, After, Goto, Inside
<1>6. ASSUME NEW o \in Owners, PollRead(o) PROVE Same
  BY <1>6 DEF PollRead, Return, After, Goto, Inside
<1>7. ASSUME NEW o \in Owners, PortLook(o) PROVE Same
  BY <1>7 DEF PortLook, Return, After, Goto, Inside
<1>8. ASSUME NEW o \in Owners, PortLock(o) PROVE Same
  BY <1>8 DEF PortLock, Return, After, Goto, Inside
<1>9. ASSUME NEW o \in Owners, WorkerCalls(o) PROVE Same
  BY <1>9 DEF WorkerCalls, Calling, Goto, Inside
<1>10. ASSUME NEW o \in Owners, WorkerTerminates(o) PROVE Same
  BY <1>10 DEF WorkerTerminates, Goto, Inside
<1>11. ASSUME NEW t \in Threads, BeginUnbind(t) PROVE Same
  BY <1>11 DEF BeginUnbind, Goto, Inside
<1>12. ASSUME NEW t \in Threads, DropLifeCycle(t) PROVE Same
  BY <1>12 DEF DropLifeCycle, Goto, Inside
<1>13. ASSUME NEW t \in Threads, BecomeInactive(t) PROVE Same
  BY <1>13 DEF BecomeInactive, Goto, Inside
<1>14. ASSUME TryBind PROVE Same
  BY <1>14 DEF TryBind, Admits, Calling, Goto, Inside
<1>15. ASSUME TakeBoundSocket PROVE Same
  BY <1>15 DEF TakeBoundSocket, Admits, Calling, Goto, Inside
<1>16. ASSUME WaitForQuiet PROVE Same
  BY <1>16 DEF WaitForQuiet, Goto, Inside
<1>17. ASSUME CreateAndBind PROVE Same
  BY <1>17 DEF CreateAndBind, Calling, Goto, Inside
<1>18. ASSUME SwapLifeCycle PROVE Same
  BY <1>18 DEF SwapLifeCycle, Goto, Inside
<1>19. ASSUME WriteHandle PROVE Same
  BY <1>19 DEF WriteHandle, Goto, Inside
<1>20. ASSUME PublishBound PROVE Same
  BY <1>20 DEF PublishBound, Calling, Goto, Inside
<1>21. ASSUME AssignSocket PROVE Same
  BY <1>21 DEF AssignSocket, Calling, Goto, Inside
<1>22. Same => Counted'
  BY DEF Counted
<1>23. ASSUME UNCHANGED vars PROVE Same
  BY <1>23 DEF vars, pointers, tables, Inside
<1>24. ASSUME NEW t \in Threads, ReleaseRecord(t) PROVE Same
  BY <1>24 DEF ReleaseRecord, Goto, Inside
<1>25. ASSUME NEW t \in Threads, BecomeIdle(t) PROVE Same
  BY <1>25 DEF BecomeIdle, Goto, Inside
<1> QED
  BY <1>1, <1>2, <1>3, <1>4, <1>5, <1>6, <1>7, <1>8, <1>9, <1>10, <1>11,
     <1>12, <1>13, <1>14, <1>15, <1>16, <1>17, <1>18, <1>19, <1>20, <1>21,
     <1>22, <1>23, <1>24, <1>25 DEF Next

LEMMA ProtocolNext ==
  ASSUME Typed, Counted, Protocol, [Next]_vars
  PROVE  Protocol'
<1> USE OwnersAssumption DEF Typed, Threads, Protocol, StateHasOwner,
        QuietIsKept, HandleIsLatest, InBind, InUnbind, pointers, tables
<1>1. ASSUME NEW t \in Threads, Enter(t) PROVE Protocol'
  BY <1>1 DEF Enter, Goto
<1>2. ASSUME NEW t \in Threads, LookAtState(t) PROVE Protocol'
  BY <1>2 DEF LookAtState, Goto
<1>3. ASSUME NEW t \in Threads, LockHandle(t) PROVE Protocol'
  BY <1>3 DEF LockHandle, Goto
<1>4. ASSUME NEW t \in Threads, Leave(t) PROVE Protocol'
  BY <1>4 DEF Leave, After, Goto
<1>5. ASSUME NEW t \in Threads, UseSocket(t) PROVE Protocol'
  BY <1>5 DEF UseSocket, Return, After, Goto
<1>6. ASSUME NEW o \in Owners, PollRead(o) PROVE Protocol'
  BY <1>6 DEF PollRead, Return, After, Goto
<1>7. ASSUME NEW o \in Owners, PortLook(o) PROVE Protocol'
  BY <1>7 DEF PortLook, Return, After, Goto
<1>8. ASSUME NEW o \in Owners, PortLock(o) PROVE Protocol'
  BY <1>8 DEF PortLock, Return, After, Goto
<1>9. ASSUME NEW o \in Owners, WorkerCalls(o) PROVE Protocol'
  BY <1>9 DEF WorkerCalls, Calling, Goto
<1>10. ASSUME NEW o \in Owners, WorkerTerminates(o) PROVE Protocol'
  BY <1>10 DEF WorkerTerminates, Goto
<1>11. ASSUME NEW t \in Threads, BeginUnbind(t) PROVE Protocol'
  BY <1>11 DEF BeginUnbind, Goto
<1>12. ASSUME NEW t \in Threads, DropLifeCycle(t) PROVE Protocol'
  BY <1>12 DEF DropLifeCycle, Goto
<1>13. ASSUME NEW t \in Threads, BecomeInactive(t) PROVE Protocol'
  BY <1>13 DEF BecomeInactive, Goto
<1>14. CASE TryBind
  BY <1>14 DEF TryBind, Admits, Calling, Goto
<1>15. CASE TakeBoundSocket
  BY <1>15 DEF TakeBoundSocket, Admits, Calling, Goto
<1>16. CASE WaitForQuiet
  BY <1>16, QuietMeansNobody DEF WaitForQuiet, Goto
<1>17. CASE CreateAndBind
  BY <1>17, MaxBindsAssumption DEF Bindings, CreateAndBind, Calling, Goto
<1>18. CASE SwapLifeCycle
  BY <1>18 DEF SwapLifeCycle, Goto
<1>19. CASE WriteHandle
  BY <1>19 DEF WriteHandle, Goto
<1>20. CASE PublishBound
  BY <1>20 DEF PublishBound, Calling, Goto
<1>21. CASE AssignSocket
  BY <1>21 DEF AssignSocket, Calling, Goto
<1>22. CASE UNCHANGED vars
  BY <1>22 DEF vars, pointers, tables
<1>23. ASSUME NEW t \in Threads, ReleaseRecord(t) PROVE Protocol'
  BY <1>23 DEF ReleaseRecord, Goto
<1>24. ASSUME NEW t \in Threads, BecomeIdle(t) PROVE Protocol'
  BY <1>24 DEF BecomeIdle, Goto
<1> QED
  BY <1>1, <1>2, <1>3, <1>4, <1>5, <1>6, <1>7, <1>8, <1>9, <1>10, <1>11,
     <1>12, <1>13, <1>14, <1>15, <1>16, <1>17, <1>18, <1>19, <1>20, <1>21,
     <1>22, <1>23, <1>24 DEF Next

LEMMA CallsEndNext ==
  ASSUME Typed, CallsEnd, [Next]_vars
  PROVE  CallsEnd'
<1> USE OwnersAssumption DEF Typed, Threads, CallsEnd, Holding, Using,
        InCall, InBind, InTermination, Calls, Places, pointers, tables
<1>1. ASSUME NEW t \in Threads, Enter(t) PROVE CallsEnd'
  BY <1>1 DEF Enter, Goto
<1>2. ASSUME NEW t \in Threads, LookAtState(t) PROVE CallsEnd'
  BY <1>2 DEF LookAtState, Goto
<1>3. ASSUME NEW t \in Threads, LockHandle(t) PROVE CallsEnd'
  BY <1>3 DEF LockHandle, Goto
<1>4. ASSUME NEW t \in Threads, Leave(t) PROVE CallsEnd'
  BY <1>4 DEF Leave, After, Goto
<1>5. ASSUME NEW t \in Threads, UseSocket(t) PROVE CallsEnd'
  BY <1>5 DEF UseSocket, Return, After, Goto
<1>6. ASSUME NEW o \in Owners, PollRead(o) PROVE CallsEnd'
  BY <1>6 DEF PollRead, Return, After, Goto
<1>7. ASSUME NEW o \in Owners, PortLook(o) PROVE CallsEnd'
  BY <1>7 DEF PortLook, Return, After, Goto
<1>8. ASSUME NEW o \in Owners, PortLock(o) PROVE CallsEnd'
  BY <1>8 DEF PortLock, Return, After, Goto
<1>9. ASSUME NEW o \in Owners, WorkerCalls(o) PROVE CallsEnd'
  BY <1>9 DEF WorkerCalls, Calling, Goto
<1>10. ASSUME NEW o \in Owners, WorkerTerminates(o) PROVE CallsEnd'
  BY <1>10 DEF WorkerTerminates, Goto
<1>11. ASSUME NEW t \in Threads, BeginUnbind(t) PROVE CallsEnd'
  BY <1>11 DEF BeginUnbind, Goto
<1>12. ASSUME NEW t \in Threads, DropLifeCycle(t) PROVE CallsEnd'
  BY <1>12 DEF DropLifeCycle, Goto
<1>13. ASSUME NEW t \in Threads, BecomeInactive(t) PROVE CallsEnd'
  BY <1>13 DEF BecomeInactive, Goto
<1>14. CASE TryBind
  BY <1>14 DEF TryBind, Admits, Calling, Goto
<1>15. CASE TakeBoundSocket
  BY <1>15 DEF TakeBoundSocket, Admits, Calling, Goto
<1>16. CASE WaitForQuiet
  BY <1>16 DEF WaitForQuiet, Goto
<1>17. CASE CreateAndBind
  BY <1>17 DEF CreateAndBind, Calling, Goto
<1>18. CASE SwapLifeCycle
  BY <1>18 DEF SwapLifeCycle, Goto
<1>19. CASE WriteHandle
  BY <1>19 DEF WriteHandle, Goto
<1>20. CASE PublishBound
  BY <1>20 DEF PublishBound, Calling, Goto
<1>21. CASE AssignSocket
  BY <1>21 DEF AssignSocket, Calling, Goto
<1>22. CASE UNCHANGED vars
  BY <1>22 DEF vars, pointers, tables
<1>23. ASSUME NEW t \in Threads, ReleaseRecord(t) PROVE CallsEnd'
  BY <1>23 DEF ReleaseRecord, Goto
<1>24. ASSUME NEW t \in Threads, BecomeIdle(t) PROVE CallsEnd'
  BY <1>24 DEF BecomeIdle, Goto
<1> QED
  BY <1>1, <1>2, <1>3, <1>4, <1>5, <1>6, <1>7, <1>8, <1>9, <1>10, <1>11,
     <1>12, <1>13, <1>14, <1>15, <1>16, <1>17, <1>18, <1>19, <1>20, <1>21,
     <1>22, <1>23, <1>24 DEF Next

LEMMA TakeTurnsNext ==
  ASSUME Typed, Protocol, CallsEnd, TakeTurns, [Next]_vars
  PROVE  TakeTurns'
<1> USE OwnersAssumption DEF Typed, Threads, TakeTurns, Has, Admitting, Using,
        CallsEnd, Holding, InCall, InTermination, InBind, pointers, tables
<1>1. ASSUME NEW t \in Threads, Enter(t) PROVE TakeTurns'
  BY <1>1 DEF Enter, Goto
<1>2. ASSUME NEW t \in Threads, LookAtState(t) PROVE TakeTurns'
  BY <1>2 DEF LookAtState, Goto
<1>3. ASSUME NEW t \in Threads, LockHandle(t) PROVE TakeTurns'
  BY <1>3 DEF LockHandle, Goto
<1>4. ASSUME NEW t \in Threads, Leave(t) PROVE TakeTurns'
  BY <1>4 DEF Leave, After, Goto
<1>5. ASSUME NEW t \in Threads, UseSocket(t) PROVE TakeTurns'
  BY <1>5 DEF UseSocket, Return, After, Goto
<1>6. ASSUME NEW o \in Owners, PollRead(o) PROVE TakeTurns'
  BY <1>6 DEF PollRead, Return, After, Goto
<1>7. ASSUME NEW o \in Owners, PortLook(o) PROVE TakeTurns'
  BY <1>7 DEF PortLook, Return, After, Goto
<1>8. ASSUME NEW o \in Owners, PortLock(o) PROVE TakeTurns'
  BY <1>8 DEF PortLock, Return, After, Goto
<1>9. ASSUME NEW o \in Owners, WorkerCalls(o) PROVE TakeTurns'
  BY <1>9 DEF WorkerCalls, Calling, Goto
<1>10. ASSUME NEW o \in Owners, WorkerTerminates(o) PROVE TakeTurns'
  BY <1>10 DEF WorkerTerminates, Goto
<1>11. ASSUME NEW t \in Threads, BeginUnbind(t) PROVE TakeTurns'
  BY <1>11 DEF BeginUnbind, Goto
<1>12. ASSUME NEW t \in Threads, DropLifeCycle(t) PROVE TakeTurns'
  BY <1>12 DEF DropLifeCycle, Goto
<1>13. ASSUME NEW t \in Threads, BecomeInactive(t) PROVE TakeTurns'
  BY <1>13 DEF BecomeInactive, Goto
<1>14. CASE TryBind
  BY <1>14 DEF TryBind, Admits, Calling, Goto
<1>15. CASE TakeBoundSocket
  BY <1>15 DEF TakeBoundSocket, Admits, Calling, Goto
<1>16. CASE WaitForQuiet
  BY <1>16 DEF WaitForQuiet, Goto
<1>17. CASE CreateAndBind
  BY <1>17 DEF CreateAndBind, Calling, Goto
<1>18. CASE SwapLifeCycle
  BY <1>18 DEF SwapLifeCycle, Goto
<1>19. CASE WriteHandle
  BY <1>19 DEF WriteHandle, Goto
<1>20. CASE PublishBound
  BY <1>20 DEF PublishBound, Calling, Goto
<1>21. CASE AssignSocket
  BY <1>21 DEF AssignSocket, Calling, Goto
<1>22. CASE UNCHANGED vars
  BY <1>22 DEF vars, pointers, tables
<1>23. ASSUME NEW t \in Threads, ReleaseRecord(t) PROVE TakeTurns'
  BY <1>23 DEF ReleaseRecord, Goto
<1>24. ASSUME NEW t \in Threads, BecomeIdle(t) PROVE TakeTurns'
  BY <1>24 DEF BecomeIdle, Goto
<1> QED
  BY <1>1, <1>2, <1>3, <1>4, <1>5, <1>6, <1>7, <1>8, <1>9, <1>10, <1>11,
     <1>12, <1>13, <1>14, <1>15, <1>16, <1>17, <1>18, <1>19, <1>20, <1>21,
     <1>22, <1>23, <1>24 DEF Next

-----------------------------------------------------------------------------
LEMMA InitIInv == Init => IInv
<1> SUFFICES ASSUME Init PROVE IInv
  OBVIOUS
<1>1. Typed
  <2>1. 0 \in Bindings /\ pc["dispatch"] = "idle"
    BY MaxBindsAssumption DEF Init, Threads, Bindings
  <2>2. /\ pc \in [Threads -> Places] /\ call \in [Threads -> Calls]
        /\ os \in [Threads -> Bindings]
    BY <2>1 DEF Init, Places, Calls
  <2> QED
    BY <2>1, <2>2 DEF Init, Typed, States
<1>2. Counted
  <2>1. Inside(pc) = {}
    BY DEF Init, Inside
  <2> QED
    BY <2>1, FS_EmptySet DEF Init, Counted
<1>3. Protocol
  BY DEF Init, Protocol, StateHasOwner, QuietIsKept, HandleIsLatest, InBind,
         InUnbind, Threads
<1>4. CallsEnd /\ TakeTurns
  BY OwnersAssumption
  DEF Init, CallsEnd, TakeTurns, Has, Admitting, Using, InCall, InTermination,
      InBind, Threads
<1> QED
  BY <1>1, <1>2, <1>3, <1>4 DEF IInv

\* The inductive invariant holds in every reachable state.
THEOREM Invariance == Spec => []IInv
<1>1. IInv /\ [Next]_vars => IInv'
  BY TypedNext, CountedNext, ProtocolNext, CallsEndNext, TakeTurnsNext DEF IInv
<1> QED
  BY InitIInv, <1>1, PTL DEF Spec

\* Types, and a counter that is at most the number of threads.
THEOREM TypeCorrect == Spec => []TypeOK
<1>1. IInv => TypeOK
  BY InsideIsFinite DEF IInv, Typed, Counted, TypeOK
<1> QED
  BY <1>1, Invariance, PTL

\* Os() (UdpSocketWindows.cpp:644) never reads the handle while Bind writes
\* it, whether the socket is shared or not.
THEOREM HandleReadHolds == Spec => []HandleReadIsSafe
<1>1. IInv => HandleReadIsSafe
  BY DEF IInv, Protocol, QuietIsKept, InBind, HandleReadIsSafe
<1> QED
  BY <1>1, Invariance, PTL

\* Os() gives its caller the latest binding or none.
THEOREM LatestHolds == Spec => OsGivesLatest
<1>1. IInv /\ [Next]_vars => [GivenLatest]_vars
  <2> SUFFICES ASSUME IInv, Next, NEW t \in Threads, os'[t] # os[t]
               PROVE  os'[t] \in {0, binds}
    BY DEF GivenLatest
  <2> USE DEF IInv, Typed, Threads
  <2>1. ASSUME NEW u \in Threads, LockHandle(u) PROVE os'[t] \in {0, binds}
    <3>1. handle = binds
      BY <2>1 DEF LockHandle, Protocol, QuietIsKept, HandleIsLatest, InBind
    <3> QED
      BY <2>1, <3>1, LockedIsHandle DEF LockHandle
  <2>2. ASSUME NEW u \in Threads, Return(u)
        PROVE  os'[t] \in {0, binds}
    BY <2>2 DEF Return
  <2>3. CASE UNCHANGED os
    BY <2>3
  <2>4. ASSUME NEW u \in Threads,
               UseSocket(u) \/ PollRead(u) \/ PortLook(u) \/ PortLock(u)
        PROVE  UNCHANGED os \/ Return(u)
    BY <2>4 DEF UseSocket, PollRead, PortLook, PortLock
  <2> QED
    BY <2>1, <2>2, <2>3, <2>4
    DEF Next, Enter, LookAtState, Leave, WorkerCalls, WorkerTerminates,
        BeginUnbind, DropLifeCycle, BecomeInactive, ReleaseRecord, BecomeIdle,
        TryBind, TakeBoundSocket,
        WaitForQuiet, CreateAndBind, SwapLifeCycle, WriteHandle, PublishBound,
        AssignSocket
<1> QED
  BY <1>1, Invariance, PTL DEF Spec, OsGivesLatest

\* A socket that is not shared: Poll (UdpSocketWindows.cpp:399) reads a
\* pointer that nobody is about to replace.
THEOREM PollReadHolds == Spec => []PollReadsLiveSocket
<1>1. IInv => PollReadsLiveSocket
  <2> SUFFICES ASSUME IInv, ~shared, NEW t \in Threads, pc[t] = "pollRead"
               PROVE  /\ lifeCycle # 0
                      /\ pc["dispatch"] # "swap"
                      /\ \A u \in Threads : pc[u] # "drop"
    BY DEF PollReadsLiveSocket
  <2> USE DEF IInv
  <2>1. t # "dispatch"
    BY DEF CallsEnd
  <2>2. state = "Bound"
    BY <2>1 DEF TakeTurns, Using
  <2>3. lifeCycle # 0
    BY <2>2 DEF Protocol, HandleIsLatest
  <2>4. pc["dispatch"] # "swap"
    BY <2>2 DEF Protocol, StateHasOwner, InBind
  <2>5. \A u \in Threads : pc[u] # "drop"
    BY <2>2 DEF Protocol, StateHasOwner, InUnbind
  <2> QED
    BY <2>3, <2>4, <2>5
<1> QED
  BY <1>1, Invariance, PTL

\* A socket that is not shared: once Unbind made it Inactive nobody but an
\* Ack(0) holds the system's socket, and nobody at all when Bind makes a new one.
THEOREM UnbindClosesHolds == Spec => []UnbindCloses
<1>1. IInv => UnbindCloses
  <2> SUFFICES ASSUME IInv, ~shared, NEW t \in Threads, os[t] # 0
               PROVE  /\ state = "Inactive" => t = "dispatch" /\ call[t] = "send"
                      /\ state # "Binding"
    BY DEF UnbindCloses
  <2>1. CASE t = "dispatch"
    BY <2>1 DEF IInv, CallsEnd, TakeTurns
  <2>2. CASE t # "dispatch"
    BY <2>2 DEF IInv, TakeTurns
  <2> QED
    BY <2>1, <2>2
<1> QED
  BY <1>1, Invariance, PTL
=============================================================================
