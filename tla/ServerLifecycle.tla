--------------------------- MODULE ServerLifecycle ---------------------------
(***************************************************************************)
(* Starting and stopping tftplib's Server (Server.cpp:34-189), the life of *)
(* its threads, and the Signal a worker sleeps at (Signal.cpp,             *)
(* ServerWorker.cpp:40-81 and 148-216).                                    *)
(*                                                                         *)
(* Any thread of the application may call Start and Stop. The three flags  *)
(* _running, _starting and _stopping are atomic, each by itself; a call    *)
(* looks at one and then at another. _running is set and cleared by the    *)
(* dispatch thread. What the dispatch thread and the workers do for a      *)
(* request is in TransactionDispatch; here only what wakes a worker and    *)
(* what keeps it busy matters, and whether its socket can be unbound: a    *)
(* socket whose Bind has failed stays in the state Binding, in which       *)
(* Unbind waits, for ever (UdpSocketWindows.cpp:413-474). No receive of a  *)
(* worker fails here: that would end the process (ReadTransfer).           *)
(***************************************************************************)
EXTENDS Integers

CONSTANTS
  Callers,    \* threads of the application
  Count       \* _threadCount

ASSUME CountAssumption == Count \in Nat \ {0}

Workers == 1 .. Count

VARIABLES
  running, starting, stopping,   \* the flags of the server
  call,          \* where each caller is in Start or Stop
  dispatch,      \* where the dispatch thread is
  thread,        \* where each worker's thread is
  activity,      \* ServerWorker::_activity
  state,         \* ServerWorker::_state
  bell, mallet,  \* the two binary semaphores of ServerWorker::_signal
  crashed,       \* std::terminate, or an exception out of Stop
  stuck,         \* sockets whose Bind has failed: 0 is the control socket, w the
                 \* one worker w's transaction has
  careful        \* how the application calls, see Welcome; never changes

flags == <<running, starting, stopping>>
workerVars == <<thread, activity, state, bell, mallet>>
vars == <<flags, call, dispatch, workerVars, crashed, stuck, careful>>

\* A caller outside both functions is "out". A step that is about a worker
\* carries its number, 0 otherwise.
StartSteps == {"starting?", "stopping?", "claimStart", "stoppingNow?", "giveUp",
               "bind", "build", "spawn", "started"}
StopSteps == {"claimStop", "startingNow?", "join", "requestStop", "emit", "ring",
              "stopWorker", "clear", "stopped"}
DispatchSteps == {"none", "spawned", "poll", "request", "emit", "ring", "unbind",
                  "leave", "ended"}

\* "bell20" and "bell50" are the waits of 20 and 50 ms in
\* ProcessTransactionState and ProcessActivityStateChange.
Bells == {"bell", "bell20", "bell50"}
Mallets == {"mallet", "mallet20", "mallet50"}
ThreadSteps == Bells \cup Mallets
  \cup {"none", "spawned", "loop", "wait", "change", "work", "unbind", "leave",
        "left", "ended"}

Step(s, w) == [step |-> s, worker |-> w]
Out == Step("out", 0)

TypeOK ==
  /\ running \in BOOLEAN /\ starting \in BOOLEAN /\ stopping \in BOOLEAN
  /\ call \in [Callers -> [step : StartSteps \cup StopSteps \cup {"out"},
                           worker : 0 .. Count]]
  /\ dispatch \in [step : DispatchSteps, worker : 0 .. Count]
  /\ thread \in [Workers -> ThreadSteps]
  /\ activity \in [Workers -> {"INACTIVE", "ACTIVE", "TERMINATING"}]
  /\ state \in [Workers -> {"INACTIVE", "WAITING_FOR_REQUEST", "PROCESSING",
                            "TRANSFERRING", "TERMINATING"}]
  /\ bell \in [Workers -> 0 .. 1] /\ mallet \in [Workers -> 0 .. 1]
  /\ crashed \in BOOLEAN /\ careful \in BOOLEAN
  /\ stuck \subseteq 0 .. Count

Init ==
  /\ running = FALSE /\ starting = FALSE /\ stopping = FALSE
  /\ call = [c \in Callers |-> Out]
  /\ dispatch = Step("none", 0)
  /\ thread = [w \in Workers |-> "none"]
  /\ activity = [w \in Workers |-> "INACTIVE"]
  /\ state = [w \in Workers |-> "INACTIVE"]
  /\ bell = [w \in Workers |-> 0]
  /\ mallet = [w \in Workers |-> 1]
  /\ crashed = FALSE /\ stuck = {}
  /\ careful \in BOOLEAN

-----------------------------------------------------------------------------
(***************************************************************************)
(* Signal. EmitSignal takes the mallet, if it is there, and rings the      *)
(* bell; the one who was waiting for the bell gives the mallet back.       *)
(***************************************************************************)
\* _mallet.try_acquire(): whether the bell is to be rung.
HasMallet(w) == mallet[w] = 1

TryTakeMallet(w) == mallet' = [mallet EXCEPT ![w] = 0]

\* _bell.release()
Ring(w) == bell' = [bell EXCEPT ![w] = 1]

\* Reset, of a signal nobody uses any more.
ResetSignal(w) ==
  /\ bell' = [bell EXCEPT ![w] = 0]
  /\ mallet' = [mallet EXCEPT ![w] = 1]

-----------------------------------------------------------------------------
(***************************************************************************)
(* Server::Start, in any thread of the application.                        *)
(***************************************************************************)
At(c, s) == call[c].step = s /\ ~crashed
Goto(c, s, w) == call' = [call EXCEPT ![c] = Step(s, w)]

In(c, steps) == call[c].step \in steps

\* A careful application has at most one Start and one Stop under way at a
\* time, and after Start has returned it calls again only when the dispatch
\* thread has set _running. Any other may call whenever it likes.
Welcome(c, steps) ==
  careful => /\ \A d \in Callers : ~In(d, steps)
             /\ dispatch.step # "spawned"

\* The call, and its look at _running.
CallStart(c) ==
  /\ At(c, "out") /\ Welcome(c, StartSteps)
  /\ ~running
  /\ Goto(c, "starting?", 0)
  /\ UNCHANGED <<flags, dispatch, workerVars, crashed, stuck, careful>>

LookAtStarting(c) ==
  /\ At(c, "starting?")
  /\ call' = [call EXCEPT ![c] = IF starting THEN Out ELSE Step("stopping?", 0)]
  /\ UNCHANGED <<flags, dispatch, workerVars, crashed, stuck, careful>>

\* while (_stopping) sleep
WaitWhileStopping(c) ==
  /\ At(c, "stopping?") /\ ~stopping
  /\ Goto(c, "claimStart", 0)
  /\ UNCHANGED <<flags, dispatch, workerVars, crashed, stuck, careful>>

\* _starting.exchange(true)
ClaimStart(c) ==
  /\ At(c, "claimStart")
  /\ starting' = TRUE
  /\ call' = [call EXCEPT ![c] = IF starting THEN Out ELSE Step("stoppingNow?", 0)]
  /\ UNCHANGED <<running, stopping, dispatch, workerVars, crashed, stuck, careful>>

\* (Definitions named Bug_... are plausible mistakes in the definition that
\* follows them. They are in no specification.)
Bug_NoSecondLook(c) ==
  /\ At(c, "stoppingNow?")
  /\ \/ Goto(c, "bind", 0)
     \/ call' = [call EXCEPT ![c] = Out]
  /\ UNCHANGED <<flags, dispatch, workerVars, crashed, stuck, careful>>

\* Give up while another thread stops the server. Otherwise the configuration
\* is looked at; if it is invalid Start throws, and _starting stays as it is.
LookAtStopping(c) ==
  /\ At(c, "stoppingNow?")
  /\ IF stopping THEN Goto(c, "giveUp", 0)
     ELSE \/ Goto(c, "bind", 0)
          \/ call' = [call EXCEPT ![c] = Out]
  /\ UNCHANGED <<flags, dispatch, workerVars, crashed, stuck, careful>>

GiveUp(c) ==
  /\ At(c, "giveUp")
  /\ starting' = FALSE
  /\ call' = [call EXCEPT ![c] = Out]
  /\ UNCHANGED <<running, stopping, dispatch, workerVars, crashed, stuck, careful>>

\* _controlSocket.Bind, whose result is not looked at. (A socket that is bound
\* already is left alone.)
BindControlSocket(c) ==
  /\ At(c, "bind")
  /\ stuck' \in (IF dispatch.step = "none" THEN {stuck, stuck \cup {0}} ELSE {stuck})
  /\ Goto(c, "build", 1)
  /\ UNCHANGED <<flags, dispatch, workerVars, crashed, careful>>

\* A new worker, its thread spawned by ServerWorker::Start. (Over a server
\* that is already there the loop makes workers that do not live longer than
\* the assignment in SpawnDispatch: they are left out.)
BuildWorker(c) ==
  LET w == call[c].worker
  IN  /\ At(c, "build")
      /\ Goto(c, IF w = Count THEN "spawn" ELSE "build", IF w = Count THEN 0 ELSE w + 1)
      /\ IF dispatch.step = "none"
         THEN /\ thread' = [thread EXCEPT ![w] = "spawned"]
              /\ activity' = [activity EXCEPT ![w] = "ACTIVE"]
              /\ state' = [state EXCEPT ![w] = "INACTIVE"]
         ELSE UNCHANGED <<thread, activity, state>>
      /\ UNCHANGED <<flags, dispatch, bell, mallet, crashed, stuck, careful>>

\* _dispatchThread = std::thread(...): over a thread that was not joined this
\* ends the process.
SpawnDispatch(c) ==
  /\ At(c, "spawn")
  /\ IF dispatch.step = "none"
     THEN dispatch' = Step("spawned", 0) /\ UNCHANGED crashed
     ELSE crashed' = TRUE /\ UNCHANGED dispatch
  /\ Goto(c, "started", 0)
  /\ UNCHANGED <<flags, workerVars, stuck, careful>>

Bug_StaysStarting(c) ==
  /\ At(c, "started")
  /\ Goto(c, "out", 0)
  /\ UNCHANGED <<flags, dispatch, workerVars, crashed, stuck, careful>>

Started(c) ==
  /\ At(c, "started")
  /\ starting' = FALSE
  /\ call' = [call EXCEPT ![c] = Out]
  /\ UNCHANGED <<running, stopping, dispatch, workerVars, crashed, stuck, careful>>

-----------------------------------------------------------------------------
(***************************************************************************)
(* Server::Stop.                                                           *)
(***************************************************************************)
\* The call, and its look at _running.
CallStop(c) ==
  /\ At(c, "out") /\ Welcome(c, StopSteps)
  /\ running
  /\ Goto(c, "claimStop", 0)
  /\ UNCHANGED <<flags, dispatch, workerVars, crashed, stuck, careful>>

\* _stopping.exchange(true)
ClaimStop(c) ==
  /\ At(c, "claimStop")
  /\ stopping' = TRUE
  /\ call' = [call EXCEPT ![c] = IF stopping THEN Out ELSE Step("startingNow?", 0)]
  /\ UNCHANGED <<running, starting, dispatch, workerVars, crashed, stuck, careful>>

\* while (_starting) sleep
WaitWhileStarting(c) ==
  /\ At(c, "startingNow?") /\ ~starting
  /\ Goto(c, "join", 0)
  /\ UNCHANGED <<flags, dispatch, workerVars, crashed, stuck, careful>>

\* _dispatchThread.join() waits for the thread. Without one it throws.
JoinDispatch(c) ==
  /\ At(c, "join") /\ dispatch.step \in {"none", "ended"}
  /\ crashed' = (dispatch.step = "none")
  /\ dispatch' = Step("none", 0)
  /\ Goto(c, "requestStop", 1)
  /\ UNCHANGED <<flags, workerVars, stuck, careful>>

\* After the last worker the loop over the workers is followed by the next one.
NextWorker(c, s, next) ==
  LET w == call[c].worker
  IN  IF w < Count THEN Goto(c, s, w + 1)
      ELSE Goto(c, next, IF next = "clear" THEN 0 ELSE 1)

\* ServerWorker::RequestStop: a worker that is active is told, and woken.
RequestStop(c) ==
  LET w == call[c].worker
  IN  /\ At(c, "requestStop")
      /\ IF activity[w] = "ACTIVE"
         THEN /\ activity' = [activity EXCEPT ![w] = "TERMINATING"]
              /\ Goto(c, "emit", w)
         ELSE UNCHANGED activity /\ NextWorker(c, "requestStop", "stopWorker")
      /\ UNCHANGED <<flags, dispatch, thread, state, bell, mallet, crashed, stuck, careful>>

StopEmits(c) ==
  LET w == call[c].worker
  IN  /\ At(c, "emit")
      /\ IF HasMallet(w) THEN TryTakeMallet(w) /\ Goto(c, "ring", w)
         ELSE UNCHANGED mallet /\ NextWorker(c, "requestStop", "stopWorker")
      /\ UNCHANGED <<flags, dispatch, thread, activity, state, bell, crashed, stuck, careful>>

StopRings(c) ==
  LET w == call[c].worker
  IN  /\ At(c, "ring")
      /\ Ring(w)
      /\ NextWorker(c, "requestStop", "stopWorker")
      /\ UNCHANGED <<flags, dispatch, thread, activity, state, mallet, crashed, stuck, careful>>

Bug_StopDoesNotJoin(c) ==
  /\ At(c, "stopWorker")
  /\ ResetSignal(call[c].worker)
  /\ NextWorker(c, "stopWorker", "clear")
  /\ UNCHANGED <<flags, dispatch, thread, activity, state, crashed, stuck, careful>>

\* ServerWorker::Stop. Its RequestStop finds no worker active: all have been
\* told, and only Start makes one active.
JoinWorker(c) ==
  LET w == call[c].worker
  IN  /\ At(c, "stopWorker") /\ activity[w] # "ACTIVE"
      /\ thread[w] \in {"none", "ended"}
      /\ thread' = [thread EXCEPT ![w] = "none"]
      /\ ResetSignal(w)
      /\ NextWorker(c, "stopWorker", "clear")
      /\ UNCHANGED <<flags, dispatch, activity, state, crashed, stuck, careful>>

\* The sockets are unbound, the control socket too, and the tables deleted.
\* Unbind waits for a socket that is Binding, and nobody is left to finish
\* that Bind. A worker that is destroyed with a thread that was not joined
\* ends the process.
ClearTables(c) ==
  /\ At(c, "clear") /\ stuck = {}
  /\ crashed' = (\E w \in Workers : thread[w] # "none")
  /\ Goto(c, "stopped", 0)
  /\ UNCHANGED <<flags, dispatch, workerVars, stuck, careful>>

Stopped(c) ==
  /\ At(c, "stopped")
  /\ stopping' = FALSE
  /\ call' = [call EXCEPT ![c] = Out]
  /\ UNCHANGED <<running, starting, dispatch, workerVars, crashed, stuck, careful>>

-----------------------------------------------------------------------------
(***************************************************************************)
(* The dispatch thread, MainServerThread.                                  *)
(***************************************************************************)
DispatchAt(s) == dispatch.step = s /\ ~crashed

BeginDispatch ==
  /\ DispatchAt("spawned")
  /\ running' = TRUE
  /\ dispatch' = Step("poll", 0)
  /\ UNCHANGED <<starting, stopping, call, workerVars, crashed, stuck, careful>>

\* A request comes, and finds worker w idle (AssignTransaction). Poll finds
\* none at a control socket that is not bound. The result of the Bind of the
\* transaction's socket is not looked at.
AssignTransaction(w) ==
  /\ DispatchAt("poll") /\ ~stopping /\ 0 \notin stuck
  /\ state[w] = "WAITING_FOR_REQUEST"
  /\ state' = [state EXCEPT ![w] = "PROCESSING"]
  /\ stuck' \in {stuck, stuck \cup {w}}
  /\ dispatch' = Step("request", w)
  /\ UNCHANGED <<flags, call, thread, activity, bell, mallet, crashed, careful>>

\* The request is rejected: TerminateTransaction unbinds the socket, which may
\* take for ever, and then makes the worker idle.
RejectRequest ==
  /\ DispatchAt("request")
  /\ \/ /\ dispatch.worker \notin stuck
        /\ state' = [state EXCEPT ![dispatch.worker] = "WAITING_FOR_REQUEST"]
        /\ dispatch' = Step("poll", 0)
     \/ /\ dispatch.worker \in stuck
        /\ dispatch' = Step("unbind", dispatch.worker)
        /\ UNCHANGED state
  /\ UNCHANGED <<flags, call, thread, activity, bell, mallet, crashed, stuck, careful>>

Bug_RingsFirst ==
  /\ DispatchAt("request")
  /\ HasMallet(dispatch.worker)
  /\ state' = [state EXCEPT ![dispatch.worker] = "TRANSFERRING"]
  /\ dispatch' = Step("poll", 0)
  /\ UNCHANGED <<flags, call, thread, activity, bell, mallet, crashed, stuck, careful>>

\* The transfer is up to the worker (ProcessRequestMessage), who is woken.
AcceptRequest ==
  /\ DispatchAt("request")
  /\ state' = [state EXCEPT ![dispatch.worker] = "TRANSFERRING"]
  /\ dispatch' = Step("emit", dispatch.worker)
  /\ UNCHANGED <<flags, call, thread, activity, bell, mallet, crashed, stuck, careful>>

DispatchEmits ==
  LET w == dispatch.worker
  IN  /\ DispatchAt("emit")
      /\ IF HasMallet(w) THEN TryTakeMallet(w) /\ dispatch' = Step("ring", w)
         ELSE UNCHANGED mallet /\ dispatch' = Step("poll", 0)
      /\ UNCHANGED <<flags, call, thread, activity, state, bell, crashed, stuck, careful>>

DispatchRings ==
  /\ DispatchAt("ring")
  /\ Ring(dispatch.worker)
  /\ dispatch' = Step("poll", 0)
  /\ UNCHANGED <<flags, call, thread, activity, state, mallet, crashed, stuck, careful>>

\* while (!_stopping)
SeeStopping ==
  /\ DispatchAt("poll") /\ stopping
  /\ dispatch' = Step("leave", 0)
  /\ UNCHANGED <<flags, call, workerVars, crashed, stuck, careful>>

EndDispatch ==
  /\ DispatchAt("leave")
  /\ running' = FALSE
  /\ dispatch' = Step("ended", 0)
  /\ UNCHANGED <<starting, stopping, call, workerVars, crashed, stuck, careful>>

-----------------------------------------------------------------------------
(***************************************************************************)
(* A worker's thread, ServerWorker::Run.                                   *)
(***************************************************************************)
ThreadAt(w, s) == thread[w] = s /\ ~crashed
Move(w, s) == thread' = [thread EXCEPT ![w] = s]

BeginRun(w) ==
  /\ ThreadAt(w, "spawned")
  /\ state' = [state EXCEPT ![w] = "WAITING_FOR_REQUEST"]
  /\ Move(w, "loop")
  /\ UNCHANGED <<flags, call, dispatch, activity, bell, mallet, crashed, stuck, careful>>

\* The condition of the outer loop, and that of the inner one.
LoopWhileActive(w) ==
  /\ ThreadAt(w, "loop")
  /\ Move(w, IF activity[w] = "ACTIVE" THEN "wait" ELSE "leave")
  /\ UNCHANGED <<flags, call, dispatch, activity, state, bell, mallet, crashed, stuck, careful>>

LoopWhileIdle(w) ==
  /\ ThreadAt(w, "wait")
  /\ Move(w, IF activity[w] = "ACTIVE" /\ state[w] = "WAITING_FOR_REQUEST"
             THEN "bell" ELSE "change")
  /\ UNCHANGED <<flags, call, dispatch, activity, state, bell, mallet, crashed, stuck, careful>>

MalletOf == [bell |-> "mallet", bell20 |-> "mallet20", bell50 |-> "mallet50"]

\* WaitForSignal: the bell within the time, then the mallet is given back.
HearBell(w) ==
  /\ thread[w] \in Bells /\ ~crashed /\ bell[w] = 1
  /\ bell' = [bell EXCEPT ![w] = 0]
  /\ Move(w, MalletOf[thread[w]])
  /\ UNCHANGED <<flags, call, dispatch, activity, state, mallet, crashed, stuck, careful>>

\* Where each of the three waits goes on.
AfterWait == [bell |-> "wait", bell20 |-> "loop", bell50 |-> "change",
              mallet |-> "wait", mallet20 |-> "loop", mallet50 |-> "change"]

GiveMalletBack(w) ==
  /\ thread[w] \in Mallets /\ ~crashed
  /\ mallet' = [mallet EXCEPT ![w] = 1]
  /\ Move(w, AfterWait[thread[w]])
  /\ UNCHANGED <<flags, call, dispatch, activity, state, bell, crashed, stuck, careful>>

WaitTimesOut(w) ==
  /\ thread[w] \in Bells /\ ~crashed /\ bell[w] = 0
  /\ Move(w, AfterWait[thread[w]])
  /\ UNCHANGED <<flags, call, dispatch, activity, state, bell, mallet, crashed, stuck, careful>>

\* ProcessActivityStateChange
ProcessActivityStateChange(w) ==
  /\ ThreadAt(w, "change")
  /\ IF activity[w] # "TERMINATING"
     THEN Move(w, "work") /\ UNCHANGED state
     ELSE IF state[w] = "PROCESSING"
     THEN Move(w, "bell50") /\ UNCHANGED state
     ELSE Move(w, "work") /\ state' = [state EXCEPT ![w] = "TERMINATING"]
  /\ UNCHANGED <<flags, call, dispatch, activity, bell, mallet, crashed, stuck, careful>>

\* ProcessTransactionState: a part of the transfer, which may end with it:
\* TerminateTransaction unbinds the socket, which may take for ever. A worker
\* that is to stop leaves the transfer where it is, or aborts it.
ProcessTransactionState(w) ==
  /\ ThreadAt(w, "work")
  /\ \/ /\ Move(w, IF state[w] = "PROCESSING" THEN "bell20" ELSE "loop")
        /\ UNCHANGED state
     \/ /\ state[w] = "TRANSFERRING" /\ w \notin stuck
        /\ state' = [state EXCEPT ![w] = "WAITING_FOR_REQUEST"]
        /\ Move(w, "loop")
     \/ /\ state[w] = "TRANSFERRING" /\ w \in stuck
        /\ Move(w, "unbind")
        /\ UNCHANGED state
  /\ UNCHANGED <<flags, call, dispatch, activity, bell, mallet, crashed, stuck, careful>>

LeaveRun(w) ==
  /\ ThreadAt(w, "leave")
  /\ state' = [state EXCEPT ![w] = "INACTIVE"]
  /\ Move(w, "left")
  /\ UNCHANGED <<flags, call, dispatch, activity, bell, mallet, crashed, stuck, careful>>

EndRun(w) ==
  /\ ThreadAt(w, "left")
  /\ activity' = [activity EXCEPT ![w] = "INACTIVE"]
  /\ Move(w, "ended")
  /\ UNCHANGED <<flags, call, dispatch, state, bell, mallet, crashed, stuck, careful>>

-----------------------------------------------------------------------------
StartStep(c) ==
  \/ LookAtStarting(c) \/ WaitWhileStopping(c) \/ ClaimStart(c)
  \/ LookAtStopping(c) \/ GiveUp(c) \/ BindControlSocket(c) \/ BuildWorker(c)
  \/ SpawnDispatch(c) \/ Started(c)

StopStep(c) ==
  \/ ClaimStop(c) \/ WaitWhileStarting(c) \/ JoinDispatch(c)
  \/ RequestStop(c) \/ StopEmits(c) \/ StopRings(c)
  \/ JoinWorker(c) \/ ClearTables(c) \/ Stopped(c)

DispatchStep ==
  \/ BeginDispatch \/ (\E w \in Workers : AssignTransaction(w))
  \/ RejectRequest \/ AcceptRequest \/ DispatchEmits \/ DispatchRings
  \/ SeeStopping \/ EndDispatch

\* A step of the worker's thread that does not need the time to pass.
ThreadStep(w) ==
  \/ BeginRun(w) \/ LoopWhileActive(w) \/ LoopWhileIdle(w)
  \/ HearBell(w) \/ GiveMalletBack(w)
  \/ ProcessActivityStateChange(w) \/ ProcessTransactionState(w)
  \/ LeaveRun(w) \/ EndRun(w)

Next ==
  \/ \E c \in Callers : CallStart(c) \/ CallStop(c) \/ StartStep(c) \/ StopStep(c)
  \/ DispatchStep
  \/ \E w \in Workers : ThreadStep(w) \/ WaitTimesOut(w)

Spec == Init /\ [][Next]_vars

\* The threads run, a call that was made goes on, and requests need not come.
\* No wait needs to time out.
Fairness ==
  /\ \A c \in Callers : WF_vars(StartStep(c)) /\ WF_vars(StopStep(c))
  /\ WF_vars(BeginDispatch) /\ WF_vars(RejectRequest \/ AcceptRequest)
  /\ WF_vars(DispatchEmits \/ DispatchRings) /\ WF_vars(SeeStopping \/ EndDispatch)
  /\ \A w \in Workers : WF_vars(ThreadStep(w))

FairSpec == Spec /\ Fairness

-----------------------------------------------------------------------------
\* Between the claims and the end of the set-up, and of the clean-up.
SetUpSteps == {"bind", "build", "spawn", "started"}
CleanUpSteps == {"join", "requestStop", "emit", "ring", "stopWorker",
                 "clear", "stopped"}

\* However many threads call Start and Stop, and whenever they do: one of them
\* at a time sets the server up or cleans it up. Start sets _starting and then
\* looks at _stopping, Stop sets _stopping and then looks at _starting.
OneAtATime ==
  \A c, d \in Callers :
    In(c, SetUpSteps \cup CleanUpSteps) /\ In(d, SetUpSteps \cup CleanUpSteps) => c = d

\* If the application is careful, no thread is started over another one, none
\* is joined that is not there, and none outlives the tables it works on.
NoThreadLost == careful => ~crashed

\* Who is about to ring the bell of worker w, or to try it.
Emitting(w) ==
  \/ dispatch.step \in {"emit", "ring"} /\ dispatch.worker = w
  \/ \E c \in Callers : In(c, {"emit", "ring"}) /\ call[c].worker = w

\* A worker that sleeps while there is something to do will hear the bell,
\* although EmitSignal gives up when the mallet is not there and although the
\* worker looks at its state before it goes to sleep: it never needs the
\* timeout of its wait.
NoLostWakeup ==
  \A w \in Workers :
    thread[w] \in Bells /\ (state[w] = "TRANSFERRING" \/ activity[w] = "TERMINATING")
      => bell[w] = 1 \/ Emitting(w)

\* A Stop that never returns: it waits for the dispatch thread, for a worker or
\* in Unbind of its own, and one of these in the end for a socket whose Bind
\* has failed (Server.cpp:67 and 307 do not look).
StopHangs == stuck # {} /\ \E c \in Callers : In(c, CleanUpSteps)

\* Every call of a careful application returns, Stop with all threads gone,
\* unless a Bind has failed and the application calls Stop. That needs no
\* timeout: no wake-up is lost, and nobody waits on a caller.
CallsReturn ==
  \A c \in Callers : (careful /\ call[c] # Out) ~> (call[c] = Out \/ StopHangs)
=============================================================================
