------------------------ MODULE ServerLifecycle_proofs ------------------------
(***************************************************************************)
(* ServerLifecycle for every number of callers and of workers: one call at *)
(* a time sets up or cleans up, no wake-up is lost, and a careful          *)
(* application loses no thread.                                            *)
(*                                                                         *)
(* The argument has four parts. The flags: who owns _starting and who owns *)
(* _stopping, and why no two of them go on. The threads: what is running   *)
(* at each step of a set-up and a clean-up. The signal: the mallet is      *)
(* either there or on its way back. The application: what it has to do so  *)
(* that a thread is there to be joined and none is in the way.             *)
(***************************************************************************)
EXTENDS ServerLifecycle, TLAPS

-----------------------------------------------------------------------------
(***************************************************************************)
(* The flags.                                                              *)
(***************************************************************************)
StartOwner(c) == In(c, {"stoppingNow?", "giveUp"} \cup SetUpSteps)
StopOwner(c) == In(c, {"startingNow?"} \cup CleanUpSteps)

\* A flag that is set by the exchange has one owner at most. _stopping has one
\* as long as it is set; _starting stays set when Start throws.
FlagsAreOwned ==
  /\ \A c \in Callers : StartOwner(c) => starting
  /\ \A c \in Callers : StopOwner(c) => stopping
  /\ \A c, d \in Callers : StartOwner(c) /\ StartOwner(d) => c = d
  /\ \A c, d \in Callers : StopOwner(c) /\ StopOwner(d) => c = d
  /\ stopping => \E c \in Callers : StopOwner(c)

\* Who set a flag and then saw the other one clear has ruled out the other.
SetUpExcludesCleanUp ==
  \A c, d \in Callers : ~(In(c, SetUpSteps) /\ In(d, CleanUpSteps))

\* A step that is about a worker carries its number.
Indexed ==
  /\ \A c \in Callers :
       In(c, {"build", "requestStop", "emit", "ring", "stopWorker"}) =>
         call[c].worker \in Workers
  /\ dispatch.step \in {"request", "emit", "ring", "unbind"} => dispatch.worker \in Workers

FlagInv == TypeOK /\ Indexed /\ FlagsAreOwned /\ SetUpExcludesCleanUp

-----------------------------------------------------------------------------
(***************************************************************************)
(* The threads.                                                            *)
(***************************************************************************)
Joined == {"requestStop", "emit", "ring", "stopWorker", "clear", "stopped"}
Stopping == {"requestStop", "emit", "ring", "stopWorker"}

DispatchIsJoined == \A c \in Callers : In(c, Joined) => dispatch.step = "none"

\* A worker's activity tells whether its thread is there.
ActivityIsTrue ==
  \A w \in Workers :
    /\ activity[w] # "INACTIVE" => thread[w] \notin {"none", "ended"}
    /\ activity[w] = "ACTIVE" => thread[w] \notin {"leave", "left"}

WorkersAreJoined ==
  \A c \in Callers, w \in Workers :
    \/ In(c, {"stopWorker"}) /\ w < call[c].worker
    \/ In(c, {"clear", "stopped"})
    => thread[w] = "none"

\* Only a clean-up tells a worker to stop, and it waits until it has.
TerminatingIsAwaited ==
  \A w \in Workers : activity[w] = "TERMINATING" => \E c \in Callers : In(c, Stopping)

\* Without a dispatch thread there are threads of workers only while they are
\* made, or joined.
ThreadsAreMade ==
  dispatch.step = "none" => \A w \in Workers : thread[w] # "none" =>
    \E c \in Callers : \/ In(c, Stopping) \/ In(c, {"spawn"})
                       \/ In(c, {"build"}) /\ w < call[c].worker

\* A worker is processing only while the dispatch thread is at its request, or
\* is kept there by a socket it cannot unbind.
ProcessingIsDispatched ==
  \A w \in Workers : state[w] = "PROCESSING" =>
    dispatch.step \in {"request", "unbind"} /\ dispatch.worker = w

ThreadInv ==
  /\ DispatchIsJoined /\ ActivityIsTrue /\ WorkersAreJoined
  /\ TerminatingIsAwaited /\ ThreadsAreMade /\ ProcessingIsDispatched

-----------------------------------------------------------------------------
(***************************************************************************)
(* The signal.                                                             *)
(***************************************************************************)
Ringing(w) ==
  \/ dispatch.step = "ring" /\ dispatch.worker = w
  \/ \E c \in Callers : In(c, {"ring"}) /\ call[c].worker = w

\* A mallet that was taken has rung the bell, or is about to, or is on its way
\* back.
MalletIsSomewhere ==
  \A w \in Workers : mallet[w] = 0 => bell[w] = 1 \/ Ringing(w) \/ thread[w] \in Mallets

SignalInv == MalletIsSomewhere /\ NoLostWakeup

-----------------------------------------------------------------------------
(***************************************************************************)
(* The application.                                                        *)
(***************************************************************************)
\* _running is what the dispatch thread has made it.
RunningIsTrue ==
  running <=> dispatch.step \in {"poll", "request", "emit", "ring", "unbind", "leave"}

\* The dispatch thread leaves only for a clean-up, which has yet to join it.
LeavingIsAwaited ==
  dispatch.step \in {"leave", "ended"} => \E c \in Callers : In(c, {"startingNow?", "join"})

OneCallOfEach ==
  careful => \A c, d \in Callers :
    /\ In(c, StartSteps) /\ In(d, StartSteps) => c = d
    /\ In(c, StopSteps) /\ In(d, StopSteps) => c = d

\* Stop finds a thread to join, and Start none in its way.
ThreadToJoin ==
  careful => \A c \in Callers :
    In(c, {"claimStop", "startingNow?", "join"}) => dispatch.step # "none"

NoThreadInTheWay ==
  careful => \A c \in Callers :
    /\ In(c, {"starting?", "stopping?"}) => dispatch.step \in {"none", "ended"}
    /\ In(c, {"claimStart", "stoppingNow?", "giveUp", "bind", "build", "spawn"}) =>
         dispatch.step = "none"

CarefulInv ==
  /\ RunningIsTrue /\ LeavingIsAwaited /\ OneCallOfEach /\ ThreadToJoin /\ NoThreadInTheWay
  /\ NoThreadLost

IInv == FlagInv /\ ThreadInv /\ SignalInv /\ CarefulInv

-----------------------------------------------------------------------------
(***************************************************************************)
(* Types and indices are kept.                                             *)
(***************************************************************************)
CallSteps == StartSteps \cup StopSteps \cup {"out"}
WithWorker == {"build", "requestStop", "emit", "ring", "stopWorker"}

CallsTyped == call \in [Callers -> [step : CallSteps, worker : 0 .. Count]]
CallsIndexed == \A c \in Callers : In(c, WithWorker) => call[c].worker \in Workers

\* A caller goes on to step q, about worker k.
LEMMA CallMoves ==
  ASSUME CallsTyped, CallsIndexed, NEW c \in Callers, NEW q \in CallSteps, NEW k \in 0 .. Count,
         Goto(c, q, k), q \in WithWorker => k \in Workers
  PROVE  CallsTyped' /\ CallsIndexed'
<1>1. call'[c].step = q /\ call'[c].worker = k /\ \A d \in Callers \ {c} : call'[d] = call[d]
  BY DEF CallsTyped, Goto, Step
<1>2. CallsTyped'
  BY DEF CallsTyped, Goto, Step
<1>3. \A d \in Callers : In(d, WithWorker)' => call'[d].worker \in Workers
  BY <1>1 DEF CallsIndexed, In
<1> QED
  BY <1>2, <1>3 DEF CallsIndexed

\* The loops over the workers go on to the next worker, or to the next loop.
LEMMA LoopMoves ==
  ASSUME CallsTyped, NEW c \in Callers, call[c].worker \in Workers,
         NEW s \in CallSteps, NEW next \in CallSteps, NextWorker(c, s, next),
         s # "clear"
  PROVE  \E q \in {s, next}, k \in 0 .. Count :
           Goto(c, q, k) /\ (q # "clear" => k \in Workers)
BY CountAssumption DEF NextWorker, Workers

LEMMA TypedCalls == TypeOK /\ Indexed => CallsTyped /\ CallsIndexed
BY DEF TypeOK, Indexed, CallsTyped, CallsIndexed, CallSteps, WithWorker

LEMMA TypedNext == TypeOK /\ Indexed /\ [Next]_vars => TypeOK' /\ Indexed'
<1> SUFFICES ASSUME TypeOK, Indexed, [Next]_vars PROVE TypeOK' /\ Indexed'
  OBVIOUS
<1>1. ASSUME NEW c \in Callers, LookAtStopping(c) PROVE TypeOK' /\ Indexed'
  <2>1. \/ Goto(c, "giveUp", 0) \/ Goto(c, "bind", 0) \/ Goto(c, "out", 0)
    BY <1>1 DEF LookAtStopping, Goto, Out
  <2>2. CallsTyped' /\ CallsIndexed'
    BY <2>1, CallMoves, TypedCalls, CountAssumption DEF CallSteps, StartSteps, StopSteps,
       WithWorker, Workers
  <2>3. /\ dispatch' \in [step : DispatchSteps, worker : 0 .. Count]
        /\ dispatch'.step \in {"request", "emit", "ring", "unbind"} => dispatch'.worker \in Workers
    BY <1>1, CountAssumption DEF LookAtStopping, TypeOK, Indexed
  <2>4. /\ running' \in BOOLEAN /\ starting' \in BOOLEAN /\ stopping' \in BOOLEAN
        /\ crashed' \in BOOLEAN /\ careful' \in BOOLEAN /\ stuck' \subseteq 0 .. Count
    BY <1>1 DEF LookAtStopping, TypeOK, flags
  <2>5. /\ thread' \in [Workers -> ThreadSteps]
        /\ activity' \in [Workers -> {"INACTIVE", "ACTIVE", "TERMINATING"}]
        /\ state' \in [Workers -> {"INACTIVE", "WAITING_FOR_REQUEST", "PROCESSING",
                                   "TRANSFERRING", "TERMINATING"}]
        /\ mallet' \in [Workers -> 0 .. 1]
    BY <1>1 DEF LookAtStopping, TypeOK, workerVars
  <2>6. bell' \in [Workers -> 0 .. 1]
    BY <1>1 DEF LookAtStopping, TypeOK, workerVars
  <2> QED
    BY <2>2, <2>3, <2>4, <2>5, <2>6 DEF TypeOK, Indexed, CallsTyped, CallsIndexed, CallSteps,
       WithWorker
<1>2. ASSUME NEW c \in Callers, GiveUp(c) PROVE TypeOK' /\ Indexed'
  <2>1. Goto(c, "out", 0)
    BY <1>2 DEF GiveUp, Goto, Out
  <2>2. CallsTyped' /\ CallsIndexed'
    BY <2>1, CallMoves, TypedCalls, CountAssumption DEF CallSteps, StartSteps, StopSteps, WithWorker
  <2>3. /\ dispatch' \in [step : DispatchSteps, worker : 0 .. Count]
        /\ dispatch'.step \in {"request", "emit", "ring", "unbind"} => dispatch'.worker \in Workers
    BY <1>2, CountAssumption DEF GiveUp, TypeOK, Indexed
  <2>4. /\ running' \in BOOLEAN /\ starting' \in BOOLEAN /\ stopping' \in BOOLEAN
        /\ crashed' \in BOOLEAN /\ careful' \in BOOLEAN /\ stuck' \subseteq 0 .. Count
    BY <1>2 DEF GiveUp, TypeOK, flags
  <2>5. /\ thread' \in [Workers -> ThreadSteps]
        /\ activity' \in [Workers -> {"INACTIVE", "ACTIVE", "TERMINATING"}]
        /\ state' \in [Workers -> {"INACTIVE", "WAITING_FOR_REQUEST", "PROCESSING",
                                   "TRANSFERRING", "TERMINATING"}]
        /\ mallet' \in [Workers -> 0 .. 1]
    BY <1>2 DEF GiveUp, TypeOK, workerVars
  <2>6. bell' \in [Workers -> 0 .. 1]
    BY <1>2 DEF GiveUp, TypeOK, workerVars
  <2> QED
    BY <2>2, <2>3, <2>4, <2>5, <2>6 DEF TypeOK, Indexed, CallsTyped, CallsIndexed, CallSteps,
       WithWorker
<1>3. ASSUME NEW c \in Callers, BuildWorker(c) PROVE TypeOK' /\ Indexed'
  <2>1. call[c].worker \in Workers
    BY <1>3 DEF BuildWorker, At, In, Indexed
  <2>2. Goto(c, "spawn", 0) \/ \E k \in Workers : Goto(c, "build", k)
    <3>1. CASE call[c].worker = Count
      BY <1>3, <3>1 DEF BuildWorker
    <3>2. CASE call[c].worker # Count
      <4>1. call[c].worker + 1 \in Workers
        BY <2>1, <3>2, CountAssumption DEF Workers
      <4> QED
        BY <1>3, <3>2, <4>1 DEF BuildWorker
    <3> QED
      BY <3>1, <3>2
  <2>3. CallsTyped' /\ CallsIndexed'
    BY <2>2, CallMoves, TypedCalls, CountAssumption DEF CallSteps, StartSteps, StopSteps,
       WithWorker, Workers
  <2>4. /\ dispatch' \in [step : DispatchSteps, worker : 0 .. Count]
        /\ dispatch'.step \in {"request", "emit", "ring", "unbind"} => dispatch'.worker \in Workers
    BY <1>3, CountAssumption DEF BuildWorker, TypeOK, Indexed
  <2>5. /\ running' \in BOOLEAN /\ starting' \in BOOLEAN /\ stopping' \in BOOLEAN
        /\ crashed' \in BOOLEAN /\ careful' \in BOOLEAN /\ stuck' \subseteq 0 .. Count
    BY <1>3 DEF BuildWorker, TypeOK, flags
  <2>6. /\ thread' \in [Workers -> ThreadSteps]
        /\ activity' \in [Workers -> {"INACTIVE", "ACTIVE", "TERMINATING"}]
        /\ state' \in [Workers -> {"INACTIVE", "WAITING_FOR_REQUEST", "PROCESSING",
                                   "TRANSFERRING", "TERMINATING"}]
        /\ mallet' \in [Workers -> 0 .. 1]
    BY <1>3 DEF BuildWorker, TypeOK, workerVars, ThreadSteps
  <2>7. bell' \in [Workers -> 0 .. 1]
    BY <1>3 DEF BuildWorker, TypeOK, workerVars, ThreadSteps
  <2> QED
    BY <2>3, <2>4, <2>5, <2>6, <2>7 DEF TypeOK, Indexed, CallsTyped, CallsIndexed, CallSteps,
       WithWorker
<1>4. ASSUME NEW c \in Callers, SpawnDispatch(c) PROVE TypeOK' /\ Indexed'
  <2>2. CallsTyped' /\ CallsIndexed'
    BY <1>4, CallMoves, TypedCalls, CountAssumption DEF SpawnDispatch, CallSteps, StartSteps,
       StopSteps, WithWorker
  <2>3. /\ dispatch' \in [step : DispatchSteps, worker : 0 .. Count]
        /\ dispatch'.step \in {"request", "emit", "ring", "unbind"} => dispatch'.worker \in Workers
    BY <1>4, CountAssumption DEF SpawnDispatch, TypeOK, Indexed, Step, DispatchSteps
  <2>4. /\ running' \in BOOLEAN /\ starting' \in BOOLEAN /\ stopping' \in BOOLEAN
        /\ crashed' \in BOOLEAN /\ careful' \in BOOLEAN /\ stuck' \subseteq 0 .. Count
    BY <1>4 DEF SpawnDispatch, TypeOK, flags
  <2>5. /\ thread' \in [Workers -> ThreadSteps]
        /\ activity' \in [Workers -> {"INACTIVE", "ACTIVE", "TERMINATING"}]
        /\ state' \in [Workers -> {"INACTIVE", "WAITING_FOR_REQUEST", "PROCESSING",
                                   "TRANSFERRING", "TERMINATING"}]
        /\ mallet' \in [Workers -> 0 .. 1]
    BY <1>4 DEF SpawnDispatch, TypeOK, workerVars, Step, DispatchSteps
  <2>6. bell' \in [Workers -> 0 .. 1]
    BY <1>4 DEF SpawnDispatch, TypeOK, workerVars, Step, DispatchSteps
  <2> QED
    BY <2>2, <2>3, <2>4, <2>5, <2>6 DEF TypeOK, Indexed, CallsTyped, CallsIndexed, CallSteps,
       WithWorker
<1>5. ASSUME NEW c \in Callers, Started(c) PROVE TypeOK' /\ Indexed'
  <2>1. Goto(c, "out", 0)
    BY <1>5 DEF Started, Goto, Out
  <2>2. CallsTyped' /\ CallsIndexed'
    BY <2>1, CallMoves, TypedCalls, CountAssumption DEF CallSteps, StartSteps, StopSteps, WithWorker
  <2>3. /\ dispatch' \in [step : DispatchSteps, worker : 0 .. Count]
        /\ dispatch'.step \in {"request", "emit", "ring", "unbind"} => dispatch'.worker \in Workers
    BY <1>5, CountAssumption DEF Started, TypeOK, Indexed
  <2>4. /\ running' \in BOOLEAN /\ starting' \in BOOLEAN /\ stopping' \in BOOLEAN
        /\ crashed' \in BOOLEAN /\ careful' \in BOOLEAN /\ stuck' \subseteq 0 .. Count
    BY <1>5 DEF Started, TypeOK, flags
  <2>5. /\ thread' \in [Workers -> ThreadSteps]
        /\ activity' \in [Workers -> {"INACTIVE", "ACTIVE", "TERMINATING"}]
        /\ state' \in [Workers -> {"INACTIVE", "WAITING_FOR_REQUEST", "PROCESSING",
                                   "TRANSFERRING", "TERMINATING"}]
        /\ mallet' \in [Workers -> 0 .. 1]
    BY <1>5 DEF Started, TypeOK, workerVars
  <2>6. bell' \in [Workers -> 0 .. 1]
    BY <1>5 DEF Started, TypeOK, workerVars
  <2> QED
    BY <2>2, <2>3, <2>4, <2>5, <2>6 DEF TypeOK, Indexed, CallsTyped, CallsIndexed, CallSteps,
       WithWorker
<1>6. ASSUME NEW c \in Callers, RequestStop(c) PROVE TypeOK' /\ Indexed'
  <2>1. call[c].worker \in Workers
    BY <1>6 DEF RequestStop, At, In, Indexed
  <2>2. Goto(c, "emit", call[c].worker) \/ NextWorker(c, "requestStop", "stopWorker")
    BY <1>6 DEF RequestStop
  <2>3. ASSUME NextWorker(c, "requestStop", "stopWorker") PROVE CallsTyped' /\ CallsIndexed'
    <3>1. PICK q \in {"requestStop", "stopWorker"}, k \in 0 .. Count : Goto(c, q,
       k) /\ (q # "clear" => k \in Workers)
      BY <2>1, <2>3, LoopMoves, TypedCalls DEF CallSteps, StartSteps, StopSteps, WithWorker
    <3>2. CallsTyped' /\ CallsIndexed'
      BY <3>1, CallMoves, TypedCalls DEF CallSteps, StartSteps, StopSteps, WithWorker
    <3> QED
      BY <3>2
  <2>4. ASSUME Goto(c, "emit", call[c].worker) PROVE CallsTyped' /\ CallsIndexed'
    BY <2>1, <2>4, CallMoves, TypedCalls, CountAssumption DEF CallSteps, StartSteps, StopSteps,
       WithWorker, Workers
  <2>5. CallsTyped' /\ CallsIndexed'
    BY <2>2, <2>3, <2>4
  <2>6. /\ dispatch' \in [step : DispatchSteps, worker : 0 .. Count]
        /\ dispatch'.step \in {"request", "emit", "ring", "unbind"} => dispatch'.worker \in Workers
    BY <1>6, CountAssumption DEF RequestStop, TypeOK, Indexed
  <2>7. /\ running' \in BOOLEAN /\ starting' \in BOOLEAN /\ stopping' \in BOOLEAN
        /\ crashed' \in BOOLEAN /\ careful' \in BOOLEAN /\ stuck' \subseteq 0 .. Count
    BY <1>6 DEF RequestStop, TypeOK, flags
  <2>8. /\ thread' \in [Workers -> ThreadSteps]
        /\ activity' \in [Workers -> {"INACTIVE", "ACTIVE", "TERMINATING"}]
        /\ state' \in [Workers -> {"INACTIVE", "WAITING_FOR_REQUEST", "PROCESSING",
                                   "TRANSFERRING", "TERMINATING"}]
        /\ mallet' \in [Workers -> 0 .. 1]
    BY <1>6 DEF RequestStop, TypeOK, workerVars
  <2>9. bell' \in [Workers -> 0 .. 1]
    BY <1>6 DEF RequestStop, TypeOK, workerVars
  <2> QED
    BY <2>5, <2>6, <2>7, <2>8, <2>9 DEF TypeOK, Indexed, CallsTyped, CallsIndexed, CallSteps,
       WithWorker
<1>7. ASSUME NEW c \in Callers, StopEmits(c) PROVE TypeOK' /\ Indexed'
  <2>1. call[c].worker \in Workers
    BY <1>7 DEF StopEmits, At, In, Indexed
  <2>2. Goto(c, "ring", call[c].worker) \/ NextWorker(c, "requestStop", "stopWorker")
    BY <1>7 DEF StopEmits
  <2>3. ASSUME NextWorker(c, "requestStop", "stopWorker") PROVE CallsTyped' /\ CallsIndexed'
    <3>1. PICK q \in {"requestStop", "stopWorker"}, k \in 0 .. Count : Goto(c, q,
       k) /\ (q # "clear" => k \in Workers)
      BY <2>1, <2>3, LoopMoves, TypedCalls DEF CallSteps, StartSteps, StopSteps, WithWorker
    <3>2. CallsTyped' /\ CallsIndexed'
      BY <3>1, CallMoves, TypedCalls DEF CallSteps, StartSteps, StopSteps, WithWorker
    <3> QED
      BY <3>2
  <2>4. ASSUME Goto(c, "ring", call[c].worker) PROVE CallsTyped' /\ CallsIndexed'
    BY <2>1, <2>4, CallMoves, TypedCalls, CountAssumption DEF CallSteps, StartSteps, StopSteps,
       WithWorker, Workers
  <2>5. CallsTyped' /\ CallsIndexed'
    BY <2>2, <2>3, <2>4
  <2>6. /\ dispatch' \in [step : DispatchSteps, worker : 0 .. Count]
        /\ dispatch'.step \in {"request", "emit", "ring", "unbind"} => dispatch'.worker \in Workers
    BY <1>7, CountAssumption DEF StopEmits, TypeOK, Indexed
  <2>7. /\ running' \in BOOLEAN /\ starting' \in BOOLEAN /\ stopping' \in BOOLEAN
        /\ crashed' \in BOOLEAN /\ careful' \in BOOLEAN /\ stuck' \subseteq 0 .. Count
    BY <1>7 DEF StopEmits, TypeOK, flags
  <2>8. /\ thread' \in [Workers -> ThreadSteps]
        /\ activity' \in [Workers -> {"INACTIVE", "ACTIVE", "TERMINATING"}]
        /\ state' \in [Workers -> {"INACTIVE", "WAITING_FOR_REQUEST", "PROCESSING",
                                   "TRANSFERRING", "TERMINATING"}]
        /\ mallet' \in [Workers -> 0 .. 1]
    BY <1>7 DEF StopEmits, TypeOK, workerVars, HasMallet, TryTakeMallet
  <2>9. bell' \in [Workers -> 0 .. 1]
    BY <1>7 DEF StopEmits, TypeOK, workerVars, HasMallet, TryTakeMallet
  <2> QED
    BY <2>5, <2>6, <2>7, <2>8, <2>9 DEF TypeOK, Indexed, CallsTyped, CallsIndexed, CallSteps,
       WithWorker
<1>8. ASSUME NEW c \in Callers, StopRings(c) PROVE TypeOK' /\ Indexed'
  <2>1. call[c].worker \in Workers
    BY <1>8 DEF StopRings, At, In, Indexed
  <2>2. NextWorker(c, "requestStop", "stopWorker")
    BY <1>8 DEF StopRings
  <2>3. ASSUME NextWorker(c, "requestStop", "stopWorker") PROVE CallsTyped' /\ CallsIndexed'
    <3>1. PICK q \in {"requestStop", "stopWorker"}, k \in 0 .. Count : Goto(c, q,
       k) /\ (q # "clear" => k \in Workers)
      BY <2>1, <2>3, LoopMoves, TypedCalls DEF CallSteps, StartSteps, StopSteps, WithWorker
    <3>2. CallsTyped' /\ CallsIndexed'
      BY <3>1, CallMoves, TypedCalls DEF CallSteps, StartSteps, StopSteps, WithWorker
    <3> QED
      BY <3>2
  <2>5. CallsTyped' /\ CallsIndexed'
    BY <2>2, <2>3
  <2>6. /\ dispatch' \in [step : DispatchSteps, worker : 0 .. Count]
        /\ dispatch'.step \in {"request", "emit", "ring", "unbind"} => dispatch'.worker \in Workers
    BY <1>8, CountAssumption DEF StopRings, TypeOK, Indexed
  <2>7. /\ running' \in BOOLEAN /\ starting' \in BOOLEAN /\ stopping' \in BOOLEAN
        /\ crashed' \in BOOLEAN /\ careful' \in BOOLEAN /\ stuck' \subseteq 0 .. Count
    BY <1>8 DEF StopRings, TypeOK, flags
  <2>8. /\ thread' \in [Workers -> ThreadSteps]
        /\ activity' \in [Workers -> {"INACTIVE", "ACTIVE", "TERMINATING"}]
        /\ state' \in [Workers -> {"INACTIVE", "WAITING_FOR_REQUEST", "PROCESSING",
                                   "TRANSFERRING", "TERMINATING"}]
        /\ mallet' \in [Workers -> 0 .. 1]
    BY <1>8 DEF StopRings, TypeOK, workerVars, Ring
  <2>9. bell' \in [Workers -> 0 .. 1]
    <3>1. bell' = [bell EXCEPT ![call[c].worker] = 1]
      BY <1>8 DEF StopRings, Ring
    <3>2. bell \in [Workers -> 0 .. 1]
      BY DEF TypeOK
    <3> QED
      BY <2>1, <3>1, <3>2, 0 \in 0 .. 1, 1 \in 0 .. 1
  <2> QED
    BY <2>5, <2>6, <2>7, <2>8, <2>9 DEF TypeOK, Indexed, CallsTyped, CallsIndexed, CallSteps,
       WithWorker
<1>9. ASSUME NEW c \in Callers, JoinWorker(c) PROVE TypeOK' /\ Indexed'
  <2>1. call[c].worker \in Workers
    BY <1>9 DEF JoinWorker, At, In, Indexed
  <2>2. NextWorker(c, "stopWorker", "clear")
    BY <1>9 DEF JoinWorker
  <2>3. ASSUME NextWorker(c, "stopWorker", "clear") PROVE CallsTyped' /\ CallsIndexed'
    <3>1. PICK q \in {"stopWorker", "clear"}, k \in 0 .. Count : Goto(c, q,
       k) /\ (q # "clear" => k \in Workers)
      BY <2>1, <2>3, LoopMoves, TypedCalls DEF CallSteps, StartSteps, StopSteps, WithWorker
    <3>2. CallsTyped' /\ CallsIndexed'
      BY <3>1, CallMoves, TypedCalls DEF CallSteps, StartSteps, StopSteps, WithWorker
    <3> QED
      BY <3>2
  <2>5. CallsTyped' /\ CallsIndexed'
    BY <2>2, <2>3
  <2>6. /\ dispatch' \in [step : DispatchSteps, worker : 0 .. Count]
        /\ dispatch'.step \in {"request", "emit", "ring", "unbind"} => dispatch'.worker \in Workers
    BY <1>9, CountAssumption DEF JoinWorker, TypeOK, Indexed
  <2>7. /\ running' \in BOOLEAN /\ starting' \in BOOLEAN /\ stopping' \in BOOLEAN
        /\ crashed' \in BOOLEAN /\ careful' \in BOOLEAN /\ stuck' \subseteq 0 .. Count
    BY <1>9 DEF JoinWorker, TypeOK, flags
  <2>8. /\ thread' \in [Workers -> ThreadSteps]
        /\ activity' \in [Workers -> {"INACTIVE", "ACTIVE", "TERMINATING"}]
        /\ state' \in [Workers -> {"INACTIVE", "WAITING_FOR_REQUEST", "PROCESSING",
                                   "TRANSFERRING", "TERMINATING"}]
        /\ mallet' \in [Workers -> 0 .. 1]
    BY <1>9, <2>1, 1 \in 0 .. 1 DEF JoinWorker, TypeOK, workerVars, ResetSignal, ThreadSteps
  <2>9. bell' \in [Workers -> 0 .. 1]
    <3>1. bell' = [bell EXCEPT ![call[c].worker] = 0]
      BY <1>9 DEF JoinWorker, ResetSignal
    <3>2. bell \in [Workers -> 0 .. 1]
      BY DEF TypeOK
    <3> QED
      BY <2>1, <3>1, <3>2, 0 \in 0 .. 1, 1 \in 0 .. 1
  <2> QED
    BY <2>5, <2>6, <2>7, <2>8, <2>9 DEF TypeOK, Indexed, CallsTyped, CallsIndexed, CallSteps,
       WithWorker
<1>10. ASSUME NEW c \in Callers, Stopped(c) PROVE TypeOK' /\ Indexed'
  <2>1. Goto(c, "out", 0)
    BY <1>10 DEF Stopped, Goto, Out
  <2>2. CallsTyped' /\ CallsIndexed'
    BY <2>1, CallMoves, TypedCalls, CountAssumption DEF CallSteps, StartSteps, StopSteps, WithWorker
  <2>3. /\ dispatch' \in [step : DispatchSteps, worker : 0 .. Count]
        /\ dispatch'.step \in {"request", "emit", "ring", "unbind"} => dispatch'.worker \in Workers
    BY <1>10, CountAssumption DEF Stopped, TypeOK, Indexed
  <2>4. /\ running' \in BOOLEAN /\ starting' \in BOOLEAN /\ stopping' \in BOOLEAN
        /\ crashed' \in BOOLEAN /\ careful' \in BOOLEAN /\ stuck' \subseteq 0 .. Count
    BY <1>10 DEF Stopped, TypeOK, flags
  <2>5. /\ thread' \in [Workers -> ThreadSteps]
        /\ activity' \in [Workers -> {"INACTIVE", "ACTIVE", "TERMINATING"}]
        /\ state' \in [Workers -> {"INACTIVE", "WAITING_FOR_REQUEST", "PROCESSING",
                                   "TRANSFERRING", "TERMINATING"}]
        /\ mallet' \in [Workers -> 0 .. 1]
    BY <1>10 DEF Stopped, TypeOK, workerVars
  <2>6. bell' \in [Workers -> 0 .. 1]
    BY <1>10 DEF Stopped, TypeOK, workerVars
  <2> QED
    BY <2>2, <2>3, <2>4, <2>5, <2>6 DEF TypeOK, Indexed, CallsTyped, CallsIndexed, CallSteps,
       WithWorker
<1>11. ASSUME EndDispatch PROVE TypeOK' /\ Indexed'
  <2>1. dispatch' = Step("ended", 0) /\ running' = FALSE
    BY <1>11 DEF EndDispatch
  <2>0. /\ dispatch' \in [step : DispatchSteps, worker : 0 .. Count]
        /\ dispatch'.step = "ended"
    BY <2>1, CountAssumption DEF Step, DispatchSteps
  <2>2. TypeOK'
    BY <1>11, <2>0, <2>1 DEF EndDispatch, TypeOK, workerVars
  <2>3. Indexed'
    BY <1>11, <2>0 DEF EndDispatch, Indexed, In
  <2> QED
    BY <2>2, <2>3
<1>12. CASE UNCHANGED vars
  BY <1>12, CountAssumption DEF vars, TypeOK, Indexed, In, Step, Out, StartSteps, StopSteps,
     DispatchSteps, Workers, flags, workerVars,
     TryTakeMallet, Ring, ResetSignal, HasMallet, ThreadSteps, Bells, Mallets, MalletOf, AfterWait
<1> USE CountAssumption DEF TypeOK, Indexed, In, Step, Out, StartSteps, StopSteps,
   DispatchSteps, Workers, flags, workerVars, TryTakeMallet, Ring, ResetSignal, HasMallet,
   ThreadSteps, Bells, Mallets, MalletOf, AfterWait
<1>13. ASSUME NEW c \in Callers, LookAtStarting(c) PROVE TypeOK' /\ Indexed'
  BY <1>13 DEF LookAtStarting, At, Goto, NextWorker
<1>14. ASSUME NEW c \in Callers, WaitWhileStopping(c) PROVE TypeOK' /\ Indexed'
  BY <1>14 DEF WaitWhileStopping, At, Goto, NextWorker
<1>15. ASSUME NEW c \in Callers, ClaimStart(c) PROVE TypeOK' /\ Indexed'
  BY <1>15 DEF ClaimStart, At, Goto, NextWorker
<1>16. ASSUME NEW c \in Callers, ClaimStop(c) PROVE TypeOK' /\ Indexed'
  BY <1>16 DEF ClaimStop, At, Goto, NextWorker
<1>17. ASSUME NEW c \in Callers, WaitWhileStarting(c) PROVE TypeOK' /\ Indexed'
  BY <1>17 DEF WaitWhileStarting, At, Goto, NextWorker
<1>18. ASSUME NEW c \in Callers, JoinDispatch(c) PROVE TypeOK' /\ Indexed'
  BY <1>18 DEF JoinDispatch, At, Goto, NextWorker
<1>19. ASSUME NEW c \in Callers, ClearTables(c) PROVE TypeOK' /\ Indexed'
  BY <1>19 DEF ClearTables, At, Goto, NextWorker
<1>20. ASSUME NEW c \in Callers, CallStart(c) PROVE TypeOK' /\ Indexed'
  BY <1>20 DEF CallStart, At, Goto, NextWorker
<1>21. ASSUME NEW c \in Callers, CallStop(c) PROVE TypeOK' /\ Indexed'
  BY <1>21 DEF CallStop, At, Goto, NextWorker
<1>22. ASSUME BeginDispatch PROVE TypeOK' /\ Indexed'
  BY <1>22 DEF BeginDispatch, DispatchAt
<1>23. ASSUME RejectRequest PROVE TypeOK' /\ Indexed'
  BY <1>23 DEF RejectRequest, DispatchAt
<1>24. ASSUME AcceptRequest PROVE TypeOK' /\ Indexed'
  BY <1>24 DEF AcceptRequest, DispatchAt
<1>25. ASSUME DispatchEmits PROVE TypeOK' /\ Indexed'
  <2>1. dispatch.worker \in Workers
    BY <1>25 DEF DispatchEmits, DispatchAt
  <2>2. dispatch' = Step("ring", dispatch.worker) \/ dispatch' = Step("poll", 0)
    BY <1>25 DEF DispatchEmits
  <2>3. /\ dispatch' \in [step : DispatchSteps, worker : 0 .. Count]
        /\ dispatch'.step \in {"request", "emit", "ring", "unbind"} => dispatch'.worker \in Workers
    BY <2>1, <2>2
  <2>4. mallet' \in [Workers -> 0 .. 1]
    BY <1>25 DEF DispatchEmits
  <2>5. UNCHANGED <<running, starting, stopping, call, thread, activity, state, bell,
                    crashed, stuck, careful>>
    BY <1>25 DEF DispatchEmits
  <2> QED
    BY <2>3, <2>4, <2>5
<1>26. ASSUME DispatchRings PROVE TypeOK' /\ Indexed'
  BY <1>26 DEF DispatchRings, DispatchAt
<1>27. ASSUME SeeStopping PROVE TypeOK' /\ Indexed'
  BY <1>27 DEF SeeStopping, DispatchAt
<1>28. ASSUME NEW w \in Workers, AssignTransaction(w) PROVE TypeOK' /\ Indexed'
  BY <1>28 DEF AssignTransaction, DispatchAt
<1>29. ASSUME NEW w \in Workers, BeginRun(w) PROVE TypeOK' /\ Indexed'
  BY <1>29 DEF BeginRun, ThreadAt, Move
<1>30. ASSUME NEW w \in Workers, LoopWhileActive(w) PROVE TypeOK' /\ Indexed'
  BY <1>30 DEF LoopWhileActive, ThreadAt, Move
<1>31. ASSUME NEW w \in Workers, LoopWhileIdle(w) PROVE TypeOK' /\ Indexed'
  BY <1>31 DEF LoopWhileIdle, ThreadAt, Move
<1>32. ASSUME NEW w \in Workers, HearBell(w) PROVE TypeOK' /\ Indexed'
  BY <1>32 DEF HearBell, ThreadAt, Move
<1>33. ASSUME NEW w \in Workers, GiveMalletBack(w) PROVE TypeOK' /\ Indexed'
  BY <1>33 DEF GiveMalletBack, ThreadAt, Move
<1>34. ASSUME NEW w \in Workers, WaitTimesOut(w) PROVE TypeOK' /\ Indexed'
  BY <1>34 DEF WaitTimesOut, ThreadAt, Move
<1>35. ASSUME NEW w \in Workers, ProcessActivityStateChange(w) PROVE TypeOK' /\ Indexed'
  BY <1>35 DEF ProcessActivityStateChange, ThreadAt, Move
<1>36. ASSUME NEW w \in Workers, ProcessTransactionState(w) PROVE TypeOK' /\ Indexed'
  BY <1>36 DEF ProcessTransactionState, ThreadAt, Move
<1>37. ASSUME NEW w \in Workers, LeaveRun(w) PROVE TypeOK' /\ Indexed'
  BY <1>37 DEF LeaveRun, ThreadAt, Move
<1>38. ASSUME NEW w \in Workers, EndRun(w) PROVE TypeOK' /\ Indexed'
  BY <1>38 DEF EndRun, ThreadAt, Move
<1>39. ASSUME NEW c \in Callers, BindControlSocket(c) PROVE TypeOK' /\ Indexed'
  BY <1>39 DEF BindControlSocket, At, Goto, NextWorker
<1> QED
  BY <1>1, <1>2, <1>3, <1>4, <1>5, <1>6, <1>7, <1>8, <1>9, <1>10, <1>11, <1>12, <1>13, <1>14,
     <1>15, <1>16, <1>17, <1>18, <1>19, <1>20, <1>21, <1>22, <1>23, <1>24, <1>25, <1>26, <1>27,
     <1>28, <1>29, <1>30, <1>31, <1>32, <1>33, <1>34, <1>35, <1>36, <1>37, <1>38, <1>39
  DEF Next, StartStep, StopStep, DispatchStep, ThreadStep

-----------------------------------------------------------------------------
(***************************************************************************)
(* The flags stay owned.                                                   *)
(***************************************************************************)
LEMMA FlagsNext == FlagInv /\ [Next]_vars => FlagsAreOwned' /\ SetUpExcludesCleanUp'
<1> SUFFICES ASSUME FlagInv, [Next]_vars PROVE FlagsAreOwned' /\ SetUpExcludesCleanUp'
  OBVIOUS
<1> USE CountAssumption DEF FlagsAreOwned, SetUpExcludesCleanUp, StartOwner, StopOwner, In,
   Step, Out, SetUpSteps, CleanUpSteps, Workers, flags, workerVars
<1>0. /\ FlagsAreOwned /\ SetUpExcludesCleanUp /\ Indexed
      /\ call \in [Callers -> [step : StartSteps \cup StopSteps \cup {"out"}, worker : 0 .. Count]]
  BY DEF FlagInv, TypeOK
<1>1. ASSUME NEW c \in Callers, LookAtStarting(c) PROVE FlagsAreOwned' /\ SetUpExcludesCleanUp'
  BY <1>1, <1>0 DEF LookAtStarting, At, Goto, NextWorker
<1>2. ASSUME NEW c \in Callers, WaitWhileStopping(c) PROVE FlagsAreOwned' /\ SetUpExcludesCleanUp'
  BY <1>2, <1>0 DEF WaitWhileStopping, At, Goto, NextWorker
<1>3. ASSUME NEW c \in Callers, ClaimStart(c) PROVE FlagsAreOwned' /\ SetUpExcludesCleanUp'
  BY <1>3, <1>0 DEF ClaimStart, At, Goto, NextWorker
<1>4. ASSUME NEW c \in Callers, LookAtStopping(c) PROVE FlagsAreOwned' /\ SetUpExcludesCleanUp'
  BY <1>4, <1>0 DEF LookAtStopping, At, Goto, NextWorker
<1>5. ASSUME NEW c \in Callers, GiveUp(c) PROVE FlagsAreOwned' /\ SetUpExcludesCleanUp'
  BY <1>5, <1>0 DEF GiveUp, At, Goto, NextWorker
<1>6. ASSUME NEW c \in Callers, BuildWorker(c) PROVE FlagsAreOwned' /\ SetUpExcludesCleanUp'
  BY <1>6, <1>0 DEF BuildWorker, At, Goto, NextWorker
<1>7. ASSUME NEW c \in Callers, SpawnDispatch(c) PROVE FlagsAreOwned' /\ SetUpExcludesCleanUp'
  BY <1>7, <1>0 DEF SpawnDispatch, At, Goto, NextWorker
<1>8. ASSUME NEW c \in Callers, Started(c) PROVE FlagsAreOwned' /\ SetUpExcludesCleanUp'
  BY <1>8, <1>0 DEF Started, At, Goto, NextWorker
<1>9. ASSUME NEW c \in Callers, ClaimStop(c) PROVE FlagsAreOwned' /\ SetUpExcludesCleanUp'
  BY <1>9, <1>0 DEF ClaimStop, At, Goto, NextWorker
<1>10. ASSUME NEW c \in Callers, WaitWhileStarting(c) PROVE FlagsAreOwned' /\ SetUpExcludesCleanUp'
  BY <1>10, <1>0 DEF WaitWhileStarting, At, Goto, NextWorker
<1>11. ASSUME NEW c \in Callers, JoinDispatch(c) PROVE FlagsAreOwned' /\ SetUpExcludesCleanUp'
  BY <1>11, <1>0 DEF JoinDispatch, At, Goto, NextWorker
<1>12. ASSUME NEW c \in Callers, RequestStop(c) PROVE FlagsAreOwned' /\ SetUpExcludesCleanUp'
  BY <1>12, <1>0 DEF RequestStop, At, Goto, NextWorker
<1>13. ASSUME NEW c \in Callers, StopEmits(c) PROVE FlagsAreOwned' /\ SetUpExcludesCleanUp'
  BY <1>13, <1>0 DEF StopEmits, At, Goto, NextWorker
<1>14. ASSUME NEW c \in Callers, StopRings(c) PROVE FlagsAreOwned' /\ SetUpExcludesCleanUp'
  BY <1>14, <1>0 DEF StopRings, At, Goto, NextWorker
<1>15. ASSUME NEW c \in Callers, JoinWorker(c) PROVE FlagsAreOwned' /\ SetUpExcludesCleanUp'
  BY <1>15, <1>0 DEF JoinWorker, At, Goto, NextWorker
<1>16. ASSUME NEW c \in Callers, ClearTables(c) PROVE FlagsAreOwned' /\ SetUpExcludesCleanUp'
  BY <1>16, <1>0 DEF ClearTables, At, Goto, NextWorker
<1>17. ASSUME NEW c \in Callers, Stopped(c) PROVE FlagsAreOwned' /\ SetUpExcludesCleanUp'
  BY <1>17, <1>0 DEF Stopped, At, Goto, NextWorker
<1>18. ASSUME NEW c \in Callers, CallStart(c) PROVE FlagsAreOwned' /\ SetUpExcludesCleanUp'
  BY <1>18, <1>0 DEF CallStart, At, Goto, NextWorker
<1>19. ASSUME NEW c \in Callers, CallStop(c) PROVE FlagsAreOwned' /\ SetUpExcludesCleanUp'
  BY <1>19, <1>0 DEF CallStop, At, Goto, NextWorker
<1>20. ASSUME BeginDispatch PROVE FlagsAreOwned' /\ SetUpExcludesCleanUp'
  BY <1>20, <1>0 DEF BeginDispatch, DispatchAt
<1>21. ASSUME RejectRequest PROVE FlagsAreOwned' /\ SetUpExcludesCleanUp'
  BY <1>21, <1>0 DEF RejectRequest, DispatchAt
<1>22. ASSUME AcceptRequest PROVE FlagsAreOwned' /\ SetUpExcludesCleanUp'
  BY <1>22, <1>0 DEF AcceptRequest, DispatchAt
<1>23. ASSUME DispatchEmits PROVE FlagsAreOwned' /\ SetUpExcludesCleanUp'
  BY <1>23, <1>0 DEF DispatchEmits, DispatchAt
<1>24. ASSUME DispatchRings PROVE FlagsAreOwned' /\ SetUpExcludesCleanUp'
  BY <1>24, <1>0 DEF DispatchRings, DispatchAt
<1>25. ASSUME SeeStopping PROVE FlagsAreOwned' /\ SetUpExcludesCleanUp'
  BY <1>25, <1>0 DEF SeeStopping, DispatchAt
<1>26. ASSUME EndDispatch PROVE FlagsAreOwned' /\ SetUpExcludesCleanUp'
  BY <1>26, <1>0 DEF EndDispatch, DispatchAt
<1>27. ASSUME NEW w \in Workers, AssignTransaction(w) PROVE FlagsAreOwned' /\ SetUpExcludesCleanUp'
  BY <1>27, <1>0 DEF AssignTransaction, DispatchAt
<1>28. ASSUME NEW w \in Workers, BeginRun(w) PROVE FlagsAreOwned' /\ SetUpExcludesCleanUp'
  BY <1>28, <1>0 DEF BeginRun, ThreadAt, Move
<1>29. ASSUME NEW w \in Workers, LoopWhileActive(w) PROVE FlagsAreOwned' /\ SetUpExcludesCleanUp'
  BY <1>29, <1>0 DEF LoopWhileActive, ThreadAt, Move
<1>30. ASSUME NEW w \in Workers, LoopWhileIdle(w) PROVE FlagsAreOwned' /\ SetUpExcludesCleanUp'
  BY <1>30, <1>0 DEF LoopWhileIdle, ThreadAt, Move
<1>31. ASSUME NEW w \in Workers, HearBell(w) PROVE FlagsAreOwned' /\ SetUpExcludesCleanUp'
  BY <1>31, <1>0 DEF HearBell, ThreadAt, Move
<1>32. ASSUME NEW w \in Workers, GiveMalletBack(w) PROVE FlagsAreOwned' /\ SetUpExcludesCleanUp'
  BY <1>32, <1>0 DEF GiveMalletBack, ThreadAt, Move
<1>33. ASSUME NEW w \in Workers, WaitTimesOut(w) PROVE FlagsAreOwned' /\ SetUpExcludesCleanUp'
  BY <1>33, <1>0 DEF WaitTimesOut, ThreadAt, Move
<1>34. ASSUME NEW w \in Workers,
   ProcessActivityStateChange(w) PROVE FlagsAreOwned' /\ SetUpExcludesCleanUp'
  BY <1>34, <1>0 DEF ProcessActivityStateChange, ThreadAt, Move
<1>35. ASSUME NEW w \in Workers,
   ProcessTransactionState(w) PROVE FlagsAreOwned' /\ SetUpExcludesCleanUp'
  BY <1>35, <1>0 DEF ProcessTransactionState, ThreadAt, Move
<1>36. ASSUME NEW w \in Workers, LeaveRun(w) PROVE FlagsAreOwned' /\ SetUpExcludesCleanUp'
  BY <1>36, <1>0 DEF LeaveRun, ThreadAt, Move
<1>37. ASSUME NEW w \in Workers, EndRun(w) PROVE FlagsAreOwned' /\ SetUpExcludesCleanUp'
  BY <1>37, <1>0 DEF EndRun, ThreadAt, Move
<1>38. CASE UNCHANGED vars
  BY <1>38, <1>0 DEF vars
<1>39. ASSUME NEW c \in Callers, BindControlSocket(c) PROVE FlagsAreOwned' /\ SetUpExcludesCleanUp'
  BY <1>39, <1>0 DEF BindControlSocket, At, Goto, NextWorker
<1> QED
  BY <1>1, <1>2, <1>3, <1>4, <1>5, <1>6, <1>7, <1>8, <1>9, <1>10, <1>11, <1>12, <1>13, <1>14,
     <1>15, <1>16, <1>17, <1>18, <1>19, <1>20, <1>21, <1>22, <1>23, <1>24, <1>25, <1>26, <1>27,
     <1>28, <1>29, <1>30, <1>31, <1>32, <1>33, <1>34, <1>35, <1>36, <1>37, <1>38, <1>39
  DEF Next, StartStep, StopStep, DispatchStep, ThreadStep

LEMMA FlagInvNext == FlagInv /\ [Next]_vars => FlagInv'
BY TypedNext, FlagsNext DEF FlagInv

-----------------------------------------------------------------------------
(***************************************************************************)
(* The threads stay what the invariant says they are.                      *)
(***************************************************************************)
LEMMA ThreadNext == FlagInv /\ ThreadInv /\ [Next]_vars => ThreadInv'
<1> SUFFICES ASSUME FlagInv, ThreadInv, [Next]_vars PROVE ThreadInv'
  OBVIOUS
<1> USE CountAssumption DEF Joined, Stopping, DispatchIsJoined, ActivityIsTrue,
   WorkersAreJoined, TerminatingIsAwaited, ThreadsAreMade, ProcessingIsDispatched, In, Step,
   Out, Workers, flags, workerVars, Bells, Mallets, MalletOf, AfterWait, TypeOK, StartSteps,
   StopSteps, DispatchSteps, ThreadSteps, FlagsAreOwned, StopOwner, StartOwner,
   SetUpExcludesCleanUp, SetUpSteps, CleanUpSteps, Indexed, ThreadInv
<1>0. TypeOK /\ Indexed /\ FlagsAreOwned /\ SetUpExcludesCleanUp
  BY DEF FlagInv
<1>1. ASSUME NEW c \in Callers, LookAtStarting(c) PROVE ThreadInv'
  BY <1>1, <1>0 DEF LookAtStarting, At, Goto, NextWorker
<1>2. ASSUME NEW c \in Callers, WaitWhileStopping(c) PROVE ThreadInv'
  BY <1>2, <1>0 DEF WaitWhileStopping, At, Goto, NextWorker
<1>3. ASSUME NEW c \in Callers, ClaimStart(c) PROVE ThreadInv'
  BY <1>3, <1>0 DEF ClaimStart, At, Goto, NextWorker
<1>4. ASSUME NEW c \in Callers, LookAtStopping(c) PROVE ThreadInv'
  <2>1. DispatchIsJoined'
    <3>1. \/ Goto(c, "giveUp", 0) \/ Goto(c, "bind", 0) \/ Goto(c, "out", 0)
      BY <1>4 DEF LookAtStopping, Goto, Out
    <3>2. CASE Goto(c, "giveUp", 0)
      BY <1>4, <3>2, <1>0 DEF LookAtStopping, At, Goto
    <3>3. CASE Goto(c, "bind", 0)
      BY <1>4, <3>3, <1>0 DEF LookAtStopping, At, Goto
    <3>4. CASE Goto(c, "out", 0)
      BY <1>4, <3>4, <1>0 DEF LookAtStopping, At, Goto
    <3> QED
      BY <3>1, <3>2, <3>3, <3>4
  <2>2. ActivityIsTrue'
    BY <1>4, <1>0 DEF LookAtStopping, At, Goto, NextWorker
  <2>3. WorkersAreJoined'
    <3>1. \/ Goto(c, "giveUp", 0) \/ Goto(c, "bind", 0) \/ Goto(c, "out", 0)
      BY <1>4 DEF LookAtStopping, Goto, Out
    <3>2. CASE Goto(c, "giveUp", 0)
      BY <1>4, <3>2, <1>0 DEF LookAtStopping, At, Goto
    <3>3. CASE Goto(c, "bind", 0)
      BY <1>4, <3>3, <1>0 DEF LookAtStopping, At, Goto
    <3>4. CASE Goto(c, "out", 0)
      BY <1>4, <3>4, <1>0 DEF LookAtStopping, At, Goto
    <3> QED
      BY <3>1, <3>2, <3>3, <3>4
  <2>4. TerminatingIsAwaited'
    <3>1. \/ Goto(c, "giveUp", 0) \/ Goto(c, "bind", 0) \/ Goto(c, "out", 0)
      BY <1>4 DEF LookAtStopping, Goto, Out
    <3>2. CASE Goto(c, "giveUp", 0)
      BY <1>4, <3>2, <1>0 DEF LookAtStopping, At, Goto
    <3>3. CASE Goto(c, "bind", 0)
      BY <1>4, <3>3, <1>0 DEF LookAtStopping, At, Goto
    <3>4. CASE Goto(c, "out", 0)
      BY <1>4, <3>4, <1>0 DEF LookAtStopping, At, Goto
    <3> QED
      BY <3>1, <3>2, <3>3, <3>4
  <2>5. ThreadsAreMade'
    <3>1. \/ Goto(c, "giveUp", 0) \/ Goto(c, "bind", 0) \/ Goto(c, "out", 0)
      BY <1>4 DEF LookAtStopping, Goto, Out
    <3>2. CASE Goto(c, "giveUp", 0)
      BY <1>4, <3>2, <1>0 DEF LookAtStopping, At, Goto
    <3>3. CASE Goto(c, "bind", 0)
      BY <1>4, <3>3, <1>0 DEF LookAtStopping, At, Goto
    <3>4. CASE Goto(c, "out", 0)
      BY <1>4, <3>4, <1>0 DEF LookAtStopping, At, Goto
    <3> QED
      BY <3>1, <3>2, <3>3, <3>4
  <2>6. ProcessingIsDispatched'
    BY <1>4, <1>0 DEF LookAtStopping, At, Goto, NextWorker
  <2> QED
    BY <2>1, <2>2, <2>3, <2>4, <2>5, <2>6 DEF ThreadInv
<1>5. ASSUME NEW c \in Callers, GiveUp(c) PROVE ThreadInv'
  BY <1>5, <1>0 DEF GiveUp, At, Goto, NextWorker
<1>6. ASSUME NEW c \in Callers, BuildWorker(c) PROVE ThreadInv'
  <2>1. DispatchIsJoined'
    BY <1>6, <1>0 DEF BuildWorker, At, Goto, NextWorker
  <2>2. ActivityIsTrue'
    <3>1. \A v \in Workers :
            \/ thread'[v] = thread[v] /\ activity'[v] = activity[v]
            \/ thread'[v] = "spawned" /\ activity'[v] = "ACTIVE"
      BY <1>6, <1>0 DEF BuildWorker
    <3> QED
      BY <3>1
  <2>3. WorkersAreJoined'
    BY <1>6, <1>0 DEF BuildWorker, At, Goto, NextWorker
  <2>4. TerminatingIsAwaited'
    BY <1>6, <1>0 DEF BuildWorker, At, Goto, NextWorker
  <2>5. ThreadsAreMade'
    <3>1. /\ call[c].worker \in Workers /\ In(c, {"build"})
          /\ \A d \in Callers : In(d, SetUpSteps) => d = c
          /\ \A d \in Callers : ~In(d, CleanUpSteps)
      BY <1>6, <1>0 DEF BuildWorker, At
    <3>2. \/ In(c, {"spawn"})'
          \/ In(c, {"build"})' /\ call'[c].worker = call[c].worker + 1
      BY <1>6, <3>1, <1>0 DEF BuildWorker, Goto
    <3>3. call[c].worker = Count \/ In(c, {"build"})'
      BY <1>6, <3>1, <1>0 DEF BuildWorker, Goto
    <3>4. ASSUME dispatch'.step = "none", NEW v \in Workers, thread'[v] # "none"
          PROVE  v <= call[c].worker
      <4>1. CASE v # call[c].worker
        <5>1. dispatch.step = "none" /\ thread[v] # "none"
          BY <1>6, <3>1, <3>4, <4>1, <1>0 DEF BuildWorker
        <5> QED
          BY <5>1, <3>1
      <4> QED
        BY <3>1, <4>1
    <3>5. ASSUME NEW v \in Workers, v <= call[c].worker, ~In(c, {"spawn"})'
          PROVE  In(c, {"build"})' /\ v < call'[c].worker
      <4>1. call[c].worker \in Int /\ v \in Int
        BY <3>1, <3>5
      <4>2. In(c, {"build"})' /\ call'[c].worker = call[c].worker + 1
        BY <3>2, <3>5
      <4>3. v < call'[c].worker
        BY <3>5, <4>1, <4>2
      <4> QED
        BY <4>2, <4>3
    <3> QED
      BY <3>4, <3>5
  <2>6. ProcessingIsDispatched'
    BY <1>6, <1>0 DEF BuildWorker, At, Goto, NextWorker
  <2> QED
    BY <2>1, <2>2, <2>3, <2>4, <2>5, <2>6 DEF ThreadInv
<1>7. ASSUME NEW c \in Callers, SpawnDispatch(c) PROVE ThreadInv'
  BY <1>7, <1>0 DEF SpawnDispatch, At, Goto, NextWorker
<1>8. ASSUME NEW c \in Callers, Started(c) PROVE ThreadInv'
  BY <1>8, <1>0 DEF Started, At, Goto, NextWorker
<1>9. ASSUME NEW c \in Callers, ClaimStop(c) PROVE ThreadInv'
  BY <1>9, <1>0 DEF ClaimStop, At, Goto, NextWorker
<1>10. ASSUME NEW c \in Callers, WaitWhileStarting(c) PROVE ThreadInv'
  BY <1>10, <1>0 DEF WaitWhileStarting, At, Goto, NextWorker
<1>11. ASSUME NEW c \in Callers, JoinDispatch(c) PROVE ThreadInv'
  BY <1>11, <1>0 DEF JoinDispatch, At, Goto, NextWorker
<1>12. ASSUME NEW c \in Callers, RequestStop(c) PROVE ThreadInv'
  <2>1. DispatchIsJoined'
    BY <1>12, <1>0 DEF RequestStop, At, Goto, NextWorker
  <2>2. ActivityIsTrue'
    BY <1>12, <1>0 DEF RequestStop, At, Goto, NextWorker
  <2>3. WorkersAreJoined'
    <3>1. call[c].worker \in Workers /\ \A d \in Callers : In(d, CleanUpSteps) => d = c
      BY <1>12, <1>0 DEF RequestStop, At
    <3>2. \A d \in Callers \ {c} : call'[d] = call[d]
      BY <1>12, <1>0 DEF RequestStop, Goto, NextWorker
    <3>3. call'[c].step \notin {"clear",
       "stopped"} /\ (call'[c].step = "stopWorker" => call'[c].worker = 1)
      BY <1>12, <3>1, <1>0 DEF RequestStop, Goto, NextWorker, At
    <3>4. ASSUME NEW d \in Callers, NEW v \in Workers,
                 (In(d, {"stopWorker"})' /\ v < call'[d].worker) \/ In(d, {"clear", "stopped"})'
          PROVE  FALSE
      BY <3>1, <3>2, <3>3, <3>4
    <3> QED
      BY <3>4
  <2>4. TerminatingIsAwaited'
    BY <1>12, <1>0 DEF RequestStop, At, Goto, NextWorker
  <2>5. ThreadsAreMade'
    BY <1>12, <1>0 DEF RequestStop, At, Goto, NextWorker
  <2>6. ProcessingIsDispatched'
    BY <1>12, <1>0 DEF RequestStop, At, Goto, NextWorker
  <2> QED
    BY <2>1, <2>2, <2>3, <2>4, <2>5, <2>6 DEF ThreadInv
<1>13. ASSUME NEW c \in Callers, StopEmits(c) PROVE ThreadInv'
  <2>1. DispatchIsJoined'
    BY <1>13, <1>0 DEF StopEmits, At, Goto, NextWorker
  <2>2. ActivityIsTrue'
    BY <1>13, <1>0 DEF StopEmits, At, Goto, NextWorker
  <2>3. WorkersAreJoined'
    <3>1. call[c].worker \in Workers /\ \A d \in Callers : In(d, CleanUpSteps) => d = c
      BY <1>13, <1>0 DEF StopEmits, At
    <3>2. \A d \in Callers \ {c} : call'[d] = call[d]
      BY <1>13, <1>0 DEF StopEmits, Goto, NextWorker
    <3>3. call'[c].step \notin {"clear",
       "stopped"} /\ (call'[c].step = "stopWorker" => call'[c].worker = 1)
      BY <1>13, <3>1, <1>0 DEF StopEmits, Goto, NextWorker, At
    <3>4. ASSUME NEW d \in Callers, NEW v \in Workers,
                 (In(d, {"stopWorker"})' /\ v < call'[d].worker) \/ In(d, {"clear", "stopped"})'
          PROVE  FALSE
      BY <3>1, <3>2, <3>3, <3>4
    <3> QED
      BY <3>4
  <2>4. TerminatingIsAwaited'
    BY <1>13, <1>0 DEF StopEmits, At, Goto, NextWorker
  <2>5. ThreadsAreMade'
    BY <1>13, <1>0 DEF StopEmits, At, Goto, NextWorker
  <2>6. ProcessingIsDispatched'
    BY <1>13, <1>0 DEF StopEmits, At, Goto, NextWorker
  <2> QED
    BY <2>1, <2>2, <2>3, <2>4, <2>5, <2>6 DEF ThreadInv
<1>14. ASSUME NEW c \in Callers, StopRings(c) PROVE ThreadInv'
  <2>1. DispatchIsJoined'
    BY <1>14, <1>0 DEF StopRings, At, Goto, NextWorker
  <2>2. ActivityIsTrue'
    BY <1>14, <1>0 DEF StopRings, At, Goto, NextWorker
  <2>3. WorkersAreJoined'
    <3>1. call[c].worker \in Workers /\ \A d \in Callers : In(d, CleanUpSteps) => d = c
      BY <1>14, <1>0 DEF StopRings, At
    <3>2. \A d \in Callers \ {c} : call'[d] = call[d]
      BY <1>14, <1>0 DEF StopRings, Goto, NextWorker
    <3>3. call'[c].step \notin {"clear",
       "stopped"} /\ (call'[c].step = "stopWorker" => call'[c].worker = 1)
      BY <1>14, <3>1, <1>0 DEF StopRings, Goto, NextWorker, At
    <3>4. ASSUME NEW d \in Callers, NEW v \in Workers,
                 (In(d, {"stopWorker"})' /\ v < call'[d].worker) \/ In(d, {"clear", "stopped"})'
          PROVE  FALSE
      BY <3>1, <3>2, <3>3, <3>4
    <3> QED
      BY <3>4
  <2>4. TerminatingIsAwaited'
    BY <1>14, <1>0 DEF StopRings, At, Goto, NextWorker
  <2>5. ThreadsAreMade'
    BY <1>14, <1>0 DEF StopRings, At, Goto, NextWorker
  <2>6. ProcessingIsDispatched'
    BY <1>14, <1>0 DEF StopRings, At, Goto, NextWorker
  <2> QED
    BY <2>1, <2>2, <2>3, <2>4, <2>5, <2>6 DEF ThreadInv
<1>15. ASSUME NEW c \in Callers, JoinWorker(c) PROVE ThreadInv'
  <2>1. DispatchIsJoined'
    BY <1>15, <1>0 DEF JoinWorker, At, Goto, NextWorker
  <2>2. ActivityIsTrue'
    BY <1>15, <1>0 DEF JoinWorker, At, Goto, NextWorker
  <2>3. WorkersAreJoined'
    <3>1. call[c].worker \in Workers /\ \A d \in Callers : In(d, CleanUpSteps) => d = c
      BY <1>15, <1>0 DEF JoinWorker, At
    <3>2. \A d \in Callers \ {c} : call'[d] = call[d]
      BY <1>15, <1>0 DEF JoinWorker, Goto, NextWorker
    <3>3. \A v \in Workers : v <= call[c].worker => thread'[v] = "none"
      BY <1>15, <3>1, <1>0 DEF JoinWorker, At
    <3>4. \/ call'[c].step = "stopWorker" /\ call'[c].worker = call[c].worker + 1
          \/ call'[c].step = "clear" /\ call[c].worker = Count
      BY <1>15, <3>1, <1>0 DEF JoinWorker, NextWorker, Goto
    <3>5. \A d \in Callers : In(d, {"stopWorker", "clear", "stopped"})' => d = c
      BY <3>1, <3>2
    <3>6. CASE call'[c].step = "stopWorker"
      BY <3>1, <3>3, <3>4, <3>5, <3>6
    <3>7. CASE call'[c].step = "clear"
      BY <3>1, <3>3, <3>4, <3>5, <3>7
    <3> QED
      BY <3>4, <3>6, <3>7
  <2>4. TerminatingIsAwaited'
    <3>1. call[c].worker \in Workers /\ \A d \in Callers : In(d, CleanUpSteps) => d = c
      BY <1>15, <1>0 DEF JoinWorker, At
    <3>2. \A d \in Callers \ {c} : call'[d] = call[d]
      BY <1>15, <1>0 DEF JoinWorker, Goto, NextWorker
    <3>3. \A v \in Workers : v <= call[c].worker => thread'[v] = "none"
      BY <1>15, <3>1, <1>0 DEF JoinWorker, At
    <3>4. \/ call'[c].step = "stopWorker" /\ call'[c].worker = call[c].worker + 1
          \/ call'[c].step = "clear" /\ call[c].worker = Count
      BY <1>15, <3>1, <1>0 DEF JoinWorker, NextWorker, Goto
    <3>5. CASE call'[c].step = "stopWorker"
      BY <3>5
    <3>6. CASE call[c].worker = Count
      <4>1. \A v \in Workers : thread'[v] = "none"
        BY <3>3, <3>6
      <4> QED
        BY <2>2, <4>1
    <3> QED
      BY <3>4, <3>5, <3>6
  <2>5. ThreadsAreMade'
    BY <1>15, <1>0 DEF JoinWorker, At, Goto, NextWorker
  <2>6. ProcessingIsDispatched'
    BY <1>15, <1>0 DEF JoinWorker, At, Goto, NextWorker
  <2> QED
    BY <2>1, <2>2, <2>3, <2>4, <2>5, <2>6 DEF ThreadInv
<1>16. ASSUME NEW c \in Callers, ClearTables(c) PROVE ThreadInv'
  BY <1>16, <1>0 DEF ClearTables, At, Goto, NextWorker
<1>17. ASSUME NEW c \in Callers, Stopped(c) PROVE ThreadInv'
  BY <1>17, <1>0 DEF Stopped, At, Goto, NextWorker
<1>18. ASSUME NEW c \in Callers, CallStart(c) PROVE ThreadInv'
  BY <1>18, <1>0 DEF CallStart, At, Goto, NextWorker
<1>19. ASSUME NEW c \in Callers, CallStop(c) PROVE ThreadInv'
  BY <1>19, <1>0 DEF CallStop, At, Goto, NextWorker
<1>20. ASSUME BeginDispatch PROVE ThreadInv'
  BY <1>20, <1>0 DEF BeginDispatch, DispatchAt
<1>21. ASSUME RejectRequest PROVE ThreadInv'
  BY <1>21, <1>0 DEF RejectRequest, DispatchAt
<1>22. ASSUME AcceptRequest PROVE ThreadInv'
  BY <1>22, <1>0 DEF AcceptRequest, DispatchAt
<1>23. ASSUME DispatchEmits PROVE ThreadInv'
  BY <1>23, <1>0 DEF DispatchEmits, DispatchAt
<1>24. ASSUME DispatchRings PROVE ThreadInv'
  BY <1>24, <1>0 DEF DispatchRings, DispatchAt
<1>25. ASSUME SeeStopping PROVE ThreadInv'
  BY <1>25, <1>0 DEF SeeStopping, DispatchAt
<1>26. ASSUME EndDispatch PROVE ThreadInv'
  BY <1>26, <1>0 DEF EndDispatch, DispatchAt
<1>27. ASSUME NEW w \in Workers, AssignTransaction(w) PROVE ThreadInv'
  BY <1>27, <1>0 DEF AssignTransaction, DispatchAt
<1>28. ASSUME NEW w \in Workers, BeginRun(w) PROVE ThreadInv'
  BY <1>28, <1>0 DEF BeginRun, ThreadAt, Move
<1>29. ASSUME NEW w \in Workers, LoopWhileActive(w) PROVE ThreadInv'
  BY <1>29, <1>0 DEF LoopWhileActive, ThreadAt, Move
<1>30. ASSUME NEW w \in Workers, LoopWhileIdle(w) PROVE ThreadInv'
  BY <1>30, <1>0 DEF LoopWhileIdle, ThreadAt, Move
<1>31. ASSUME NEW w \in Workers, HearBell(w) PROVE ThreadInv'
  BY <1>31, <1>0 DEF HearBell, ThreadAt, Move
<1>32. ASSUME NEW w \in Workers, GiveMalletBack(w) PROVE ThreadInv'
  BY <1>32, <1>0 DEF GiveMalletBack, ThreadAt, Move
<1>33. ASSUME NEW w \in Workers, WaitTimesOut(w) PROVE ThreadInv'
  BY <1>33, <1>0 DEF WaitTimesOut, ThreadAt, Move
<1>34. ASSUME NEW w \in Workers, ProcessActivityStateChange(w) PROVE ThreadInv'
  BY <1>34, <1>0 DEF ProcessActivityStateChange, ThreadAt, Move
<1>35. ASSUME NEW w \in Workers, ProcessTransactionState(w) PROVE ThreadInv'
  BY <1>35, <1>0 DEF ProcessTransactionState, ThreadAt, Move
<1>36. ASSUME NEW w \in Workers, LeaveRun(w) PROVE ThreadInv'
  BY <1>36, <1>0 DEF LeaveRun, ThreadAt, Move
<1>37. ASSUME NEW w \in Workers, EndRun(w) PROVE ThreadInv'
  BY <1>37, <1>0 DEF EndRun, ThreadAt, Move
<1>38. CASE UNCHANGED vars
  BY <1>38, <1>0 DEF vars
<1>39. ASSUME NEW c \in Callers, BindControlSocket(c) PROVE ThreadInv'
  BY <1>39, <1>0 DEF BindControlSocket, At, Goto, NextWorker
<1> QED
  BY <1>1, <1>2, <1>3, <1>4, <1>5, <1>6, <1>7, <1>8, <1>9, <1>10, <1>11, <1>12, <1>13, <1>14,
     <1>15, <1>16, <1>17, <1>18, <1>19, <1>20, <1>21, <1>22, <1>23, <1>24, <1>25, <1>26, <1>27,
     <1>28, <1>29, <1>30, <1>31, <1>32, <1>33, <1>34, <1>35, <1>36, <1>37, <1>38, <1>39
  DEF Next, StartStep, StopStep, DispatchStep, ThreadStep

-----------------------------------------------------------------------------
(***************************************************************************)
(* The mallet stays in sight.                                              *)
(***************************************************************************)
LEMMA SignalNext == FlagInv /\ ThreadInv /\ SignalInv /\ [Next]_vars => SignalInv'
<1> SUFFICES ASSUME FlagInv, ThreadInv, SignalInv, [Next]_vars PROVE SignalInv'
  OBVIOUS
<1> USE CountAssumption DEF Joined, Stopping, DispatchIsJoined, ActivityIsTrue,
   WorkersAreJoined, TerminatingIsAwaited, ThreadsAreMade, ProcessingIsDispatched, In, Step,
   Out, Workers, flags, workerVars, Bells, Mallets, MalletOf, AfterWait, TypeOK, StartSteps,
   StopSteps, DispatchSteps, ThreadSteps, FlagsAreOwned, StopOwner, StartOwner,
   SetUpExcludesCleanUp, SetUpSteps, CleanUpSteps, Indexed, ThreadInv, Ringing,
   MalletIsSomewhere, NoLostWakeup, Emitting, SignalInv, HasMallet, TryTakeMallet, Ring,
   ResetSignal
<1>0. TypeOK /\ Indexed /\ FlagsAreOwned /\ SetUpExcludesCleanUp
  BY DEF FlagInv
<1>1. ASSUME NEW c \in Callers, LookAtStarting(c) PROVE SignalInv'
  BY <1>1, <1>0 DEF LookAtStarting, At, Goto, NextWorker
<1>2. ASSUME NEW c \in Callers, WaitWhileStopping(c) PROVE SignalInv'
  BY <1>2, <1>0 DEF WaitWhileStopping, At, Goto, NextWorker
<1>3. ASSUME NEW c \in Callers, ClaimStart(c) PROVE SignalInv'
  BY <1>3, <1>0 DEF ClaimStart, At, Goto, NextWorker
<1>4. ASSUME NEW c \in Callers, LookAtStopping(c) PROVE SignalInv'
  <2>1. MalletIsSomewhere'
    <3>1. \/ Goto(c, "giveUp", 0) \/ Goto(c, "bind", 0) \/ Goto(c, "out", 0)
      BY <1>4 DEF LookAtStopping, Goto, Out
    <3>2. CASE Goto(c, "giveUp", 0)
      BY <1>4, <3>2, <1>0 DEF LookAtStopping, At, Goto
    <3>3. CASE Goto(c, "bind", 0)
      BY <1>4, <3>3, <1>0 DEF LookAtStopping, At, Goto
    <3>4. CASE Goto(c, "out", 0)
      BY <1>4, <3>4, <1>0 DEF LookAtStopping, At, Goto
    <3> QED
      BY <3>1, <3>2, <3>3, <3>4
  <2>2. NoLostWakeup'
    <3>1. \/ Goto(c, "giveUp", 0) \/ Goto(c, "bind", 0) \/ Goto(c, "out", 0)
      BY <1>4 DEF LookAtStopping, Goto, Out
    <3>2. CASE Goto(c, "giveUp", 0)
      BY <1>4, <3>2, <1>0 DEF LookAtStopping, At, Goto
    <3>3. CASE Goto(c, "bind", 0)
      BY <1>4, <3>3, <1>0 DEF LookAtStopping, At, Goto
    <3>4. CASE Goto(c, "out", 0)
      BY <1>4, <3>4, <1>0 DEF LookAtStopping, At, Goto
    <3> QED
      BY <3>1, <3>2, <3>3, <3>4
  <2> QED
    BY <2>1, <2>2 DEF SignalInv
<1>5. ASSUME NEW c \in Callers, GiveUp(c) PROVE SignalInv'
  BY <1>5, <1>0 DEF GiveUp, At, Goto, NextWorker
<1>6. ASSUME NEW c \in Callers, BuildWorker(c) PROVE SignalInv'
  <2>1. MalletIsSomewhere'
    <3>1. call[c].worker \in Workers /\ In(c, {"build"})
      BY <1>6, <1>0 DEF BuildWorker, At
    <3>2. dispatch.step = "none" => thread[call[c].worker] = "none"
      <4>1. \A d \in Callers : ~In(d, Stopping) /\ (In(d, {"spawn", "build"}) => d = c)
        BY <3>1, <1>0
      <4> QED
        BY <3>1, <4>1
    <3>3. \A v \in Workers : thread[v] \in Mallets => thread'[v] \in Mallets
      BY <1>6, <3>1, <3>2, <1>0 DEF BuildWorker
    <3>4. UNCHANGED <<dispatch, bell, mallet>> /\ \A d \in Callers \ {c} : call'[d] = call[d]
      BY <1>6, <1>0 DEF BuildWorker, Goto
    <3>5. \A v \in Workers : Ringing(v) => Ringing(v)'
      BY <3>1, <3>4
    <3> QED
      BY <3>3, <3>4, <3>5
  <2>2. NoLostWakeup'
    BY <1>6, <1>0 DEF BuildWorker, At, Goto, NextWorker
  <2> QED
    BY <2>1, <2>2 DEF SignalInv
<1>7. ASSUME NEW c \in Callers, SpawnDispatch(c) PROVE SignalInv'
  BY <1>7, <1>0 DEF SpawnDispatch, At, Goto, NextWorker
<1>8. ASSUME NEW c \in Callers, Started(c) PROVE SignalInv'
  BY <1>8, <1>0 DEF Started, At, Goto, NextWorker
<1>9. ASSUME NEW c \in Callers, ClaimStop(c) PROVE SignalInv'
  BY <1>9, <1>0 DEF ClaimStop, At, Goto, NextWorker
<1>10. ASSUME NEW c \in Callers, WaitWhileStarting(c) PROVE SignalInv'
  BY <1>10, <1>0 DEF WaitWhileStarting, At, Goto, NextWorker
<1>11. ASSUME NEW c \in Callers, JoinDispatch(c) PROVE SignalInv'
  BY <1>11, <1>0 DEF JoinDispatch, At, Goto, NextWorker
<1>12. ASSUME NEW c \in Callers, RequestStop(c) PROVE SignalInv'
  BY <1>12, <1>0 DEF RequestStop, At, Goto, NextWorker
<1>13. ASSUME NEW c \in Callers, StopEmits(c) PROVE SignalInv'
  <2>1. MalletIsSomewhere'
    BY <1>13, <1>0 DEF StopEmits, At, Goto, NextWorker
  <2>2. NoLostWakeup'
    <3>1. call[c].worker \in Workers /\ In(c, {"emit"})
      BY <1>13, <1>0 DEF StopEmits, At
    <3>2. UNCHANGED <<dispatch, thread, activity, state,
       bell>> /\ \A d \in Callers \ {c} : call'[d] = call[d]
      BY <1>13, <1>0 DEF StopEmits, Goto, NextWorker
    <3>3. \A v \in Workers \ {call[c].worker} : Emitting(v) => Emitting(v)'
      BY <3>1, <3>2
    <3>4. CASE mallet[call[c].worker] = 1
      <4>1. call'[c].step = "ring" /\ call'[c].worker = call[c].worker
        BY <1>13, <3>1, <3>4, <1>0 DEF StopEmits, Goto
      <4>2. \A v \in Workers : v = call[c].worker => Emitting(v)'
        BY <4>1
      <4>3. \A v \in Workers : Emitting(v) => Emitting(v)'
        BY <3>3, <4>2
      <4> QED
        BY <3>2, <4>2, <4>3
    <3>5. CASE mallet[call[c].worker] # 1
      <4>1. \A v \in Workers : Ringing(v) => Emitting(v)'
        BY <3>1, <3>2
      <4>2. \/ bell[call[c].worker] = 1 \/ Ringing(call[c].worker)
            \/ thread[call[c].worker] \in Mallets
        BY <3>1, <3>5, <1>0
      <4> QED
        BY <3>1, <3>2, <3>3, <4>1, <4>2
    <3> QED
      BY <3>4, <3>5
  <2> QED
    BY <2>1, <2>2 DEF SignalInv
<1>14. ASSUME NEW c \in Callers, StopRings(c) PROVE SignalInv'
  <2>1. MalletIsSomewhere'
    BY <1>14, <1>0 DEF StopRings, At, Goto, NextWorker
  <2>2. NoLostWakeup'
    <3>1. call[c].worker \in Workers /\ bell' = [bell EXCEPT ![call[c].worker] = 1]
      BY <1>14, <1>0 DEF StopRings, At
    <3>2. UNCHANGED <<dispatch, thread, activity,
       state>> /\ \A d \in Callers \ {c} : call'[d] = call[d]
      BY <1>14, <1>0 DEF StopRings, Goto, NextWorker
    <3>3. \A v \in Workers \ {call[c].worker} : Emitting(v) => Emitting(v)'
      BY <3>1, <3>2
    <3>4. bell'[call[c].worker] = 1 /\ \A v \in Workers \ {call[c].worker} : bell'[v] = bell[v]
      BY <3>1, <1>0
    <3> QED
      BY <3>1, <3>2, <3>3, <3>4
  <2> QED
    BY <2>1, <2>2 DEF SignalInv
<1>15. ASSUME NEW c \in Callers, JoinWorker(c) PROVE SignalInv'
  <2>1. MalletIsSomewhere'
    BY <1>15, <1>0 DEF JoinWorker, At, Goto, NextWorker
  <2>2. NoLostWakeup'
    <3>1. call[c].worker \in Workers /\ thread'[call[c].worker] = "none"
      BY <1>15, <1>0 DEF JoinWorker, At
    <3>2. UNCHANGED <<dispatch, activity, state>> /\ \A d \in Callers \ {c} : call'[d] = call[d]
      BY <1>15, <1>0 DEF JoinWorker, Goto, NextWorker
    <3>3. \A v \in Workers \ {call[c].worker} : thread'[v] = thread[v] /\ bell'[v] = bell[v]
      BY <1>15, <1>0 DEF JoinWorker
    <3>4. \A v \in Workers : Emitting(v) => Emitting(v)'
      BY <1>15, <3>2 DEF JoinWorker, At
    <3> QED
      BY <3>1, <3>2, <3>3, <3>4
  <2> QED
    BY <2>1, <2>2 DEF SignalInv
<1>16. ASSUME NEW c \in Callers, ClearTables(c) PROVE SignalInv'
  BY <1>16, <1>0 DEF ClearTables, At, Goto, NextWorker
<1>17. ASSUME NEW c \in Callers, Stopped(c) PROVE SignalInv'
  BY <1>17, <1>0 DEF Stopped, At, Goto, NextWorker
<1>18. ASSUME NEW c \in Callers, CallStart(c) PROVE SignalInv'
  BY <1>18, <1>0 DEF CallStart, At, Goto, NextWorker
<1>19. ASSUME NEW c \in Callers, CallStop(c) PROVE SignalInv'
  BY <1>19, <1>0 DEF CallStop, At, Goto, NextWorker
<1>20. ASSUME BeginDispatch PROVE SignalInv'
  BY <1>20, <1>0 DEF BeginDispatch, DispatchAt
<1>21. ASSUME RejectRequest PROVE SignalInv'
  BY <1>21, <1>0 DEF RejectRequest, DispatchAt
<1>22. ASSUME AcceptRequest PROVE SignalInv'
  BY <1>22, <1>0 DEF AcceptRequest, DispatchAt
<1>23. ASSUME DispatchEmits PROVE SignalInv'
  <2>1. MalletIsSomewhere'
    BY <1>23, <1>0 DEF DispatchEmits, DispatchAt
  <2>2. NoLostWakeup'
    <3>1. dispatch.worker \in Workers /\ dispatch.step = "emit"
      BY <1>23, <1>0 DEF DispatchEmits, DispatchAt
    <3>2. UNCHANGED <<call, thread, activity, state, bell>>
      BY <1>23 DEF DispatchEmits
    <3>3. \A v \in Workers \ {dispatch.worker} : Emitting(v) => Emitting(v)'
      BY <3>1, <3>2
    <3>4. CASE mallet[dispatch.worker] = 1
      <4>1. dispatch' = Step("ring", dispatch.worker)
        BY <1>23, <3>4 DEF DispatchEmits
      <4>2. \A v \in Workers : v = dispatch.worker => Emitting(v)'
        BY <4>1
      <4>3. \A v \in Workers : Emitting(v) => Emitting(v)'
        BY <3>3, <4>2
      <4> QED
        BY <3>2, <4>2, <4>3
    <3>5. CASE mallet[dispatch.worker] # 1
      <4>1. \A v \in Workers : Ringing(v) => Emitting(v)'
        BY <3>1, <3>2
      <4>2. \/ bell[dispatch.worker] = 1 \/ Ringing(dispatch.worker)
            \/ thread[dispatch.worker] \in Mallets
        BY <3>1, <3>5, <1>0
      <4> QED
        BY <3>1, <3>2, <3>3, <4>1, <4>2
    <3> QED
      BY <3>4, <3>5
  <2> QED
    BY <2>1, <2>2 DEF SignalInv
<1>24. ASSUME DispatchRings PROVE SignalInv'
  BY <1>24, <1>0 DEF DispatchRings, DispatchAt
<1>25. ASSUME SeeStopping PROVE SignalInv'
  BY <1>25, <1>0 DEF SeeStopping, DispatchAt
<1>26. ASSUME EndDispatch PROVE SignalInv'
  BY <1>26, <1>0 DEF EndDispatch, DispatchAt
<1>27. ASSUME NEW w \in Workers, AssignTransaction(w) PROVE SignalInv'
  BY <1>27, <1>0 DEF AssignTransaction, DispatchAt
<1>28. ASSUME NEW w \in Workers, BeginRun(w) PROVE SignalInv'
  BY <1>28, <1>0 DEF BeginRun, ThreadAt, Move
<1>29. ASSUME NEW w \in Workers, LoopWhileActive(w) PROVE SignalInv'
  BY <1>29, <1>0 DEF LoopWhileActive, ThreadAt, Move
<1>30. ASSUME NEW w \in Workers, LoopWhileIdle(w) PROVE SignalInv'
  BY <1>30, <1>0 DEF LoopWhileIdle, ThreadAt, Move
<1>31. ASSUME NEW w \in Workers, HearBell(w) PROVE SignalInv'
  BY <1>31, <1>0 DEF HearBell, ThreadAt, Move
<1>32. ASSUME NEW w \in Workers, GiveMalletBack(w) PROVE SignalInv'
  BY <1>32, <1>0 DEF GiveMalletBack, ThreadAt, Move
<1>33. ASSUME NEW w \in Workers, WaitTimesOut(w) PROVE SignalInv'
  BY <1>33, <1>0 DEF WaitTimesOut, ThreadAt, Move
<1>34. ASSUME NEW w \in Workers, ProcessActivityStateChange(w) PROVE SignalInv'
  <2>1. MalletIsSomewhere'
    <3>1. \A v \in Workers : thread[v] \in Mallets => thread'[v] \in Mallets
      BY <1>34, <1>0 DEF ProcessActivityStateChange, ThreadAt, Move
    <3>2. UNCHANGED <<call, dispatch, bell, mallet>>
      BY <1>34 DEF ProcessActivityStateChange
    <3> QED
      BY <3>1, <3>2
  <2>2. NoLostWakeup'
    BY <1>34, <1>0 DEF ProcessActivityStateChange, ThreadAt, Move
  <2> QED
    BY <2>1, <2>2 DEF SignalInv
<1>35. ASSUME NEW w \in Workers, ProcessTransactionState(w) PROVE SignalInv'
  <2>1. MalletIsSomewhere'
    <3>1. \A v \in Workers : thread[v] \in Mallets => thread'[v] \in Mallets
      BY <1>35, <1>0 DEF ProcessTransactionState, ThreadAt, Move
    <3>2. UNCHANGED <<call, dispatch, bell, mallet>>
      BY <1>35 DEF ProcessTransactionState
    <3> QED
      BY <3>1, <3>2
  <2>2. NoLostWakeup'
    BY <1>35, <1>0 DEF ProcessTransactionState, ThreadAt, Move
  <2> QED
    BY <2>1, <2>2 DEF SignalInv
<1>36. ASSUME NEW w \in Workers, LeaveRun(w) PROVE SignalInv'
  BY <1>36, <1>0 DEF LeaveRun, ThreadAt, Move
<1>37. ASSUME NEW w \in Workers, EndRun(w) PROVE SignalInv'
  BY <1>37, <1>0 DEF EndRun, ThreadAt, Move
<1>38. CASE UNCHANGED vars
  BY <1>38, <1>0 DEF vars
<1>39. ASSUME NEW c \in Callers, BindControlSocket(c) PROVE SignalInv'
  BY <1>39, <1>0 DEF BindControlSocket, At, Goto, NextWorker
<1> QED
  BY <1>1, <1>2, <1>3, <1>4, <1>5, <1>6, <1>7, <1>8, <1>9, <1>10, <1>11, <1>12, <1>13, <1>14,
     <1>15, <1>16, <1>17, <1>18, <1>19, <1>20, <1>21, <1>22, <1>23, <1>24, <1>25, <1>26, <1>27,
     <1>28, <1>29, <1>30, <1>31, <1>32, <1>33, <1>34, <1>35, <1>36, <1>37, <1>38, <1>39
  DEF Next, StartStep, StopStep, DispatchStep, ThreadStep

-----------------------------------------------------------------------------
(***************************************************************************)
(* A careful application stays out of trouble.                             *)
(***************************************************************************)
LEMMA SameCalls ==
  ASSUME OneCallOfEach, UNCHANGED careful,
         \A c \in Callers : /\ In(c, StartSteps)' => In(c, StartSteps)
                            /\ In(c, StopSteps)' => In(c, StopSteps)
  PROVE  OneCallOfEach'
BY DEF OneCallOfEach

LEMMA CarefulNext == FlagInv /\ ThreadInv /\ CarefulInv /\ [Next]_vars => CarefulInv'
<1> SUFFICES ASSUME FlagInv, ThreadInv, CarefulInv, [Next]_vars PROVE CarefulInv'
  OBVIOUS
<1> USE CountAssumption DEF Joined, Stopping, DispatchIsJoined, ActivityIsTrue,
   WorkersAreJoined, TerminatingIsAwaited, ThreadsAreMade, ProcessingIsDispatched, In, Step,
   Out, Workers, flags, workerVars, Bells, Mallets, MalletOf, AfterWait, TypeOK, StartSteps,
   StopSteps, DispatchSteps, ThreadSteps, FlagsAreOwned, StopOwner, StartOwner,
   SetUpExcludesCleanUp, SetUpSteps, CleanUpSteps, Indexed, ThreadInv, RunningIsTrue,
   LeavingIsAwaited, OneCallOfEach, ThreadToJoin, NoThreadInTheWay, NoThreadLost, CarefulInv,
   Welcome
<1>0. TypeOK /\ Indexed /\ FlagsAreOwned /\ SetUpExcludesCleanUp
  BY DEF FlagInv
<1>1. ASSUME NEW c \in Callers, LookAtStarting(c) PROVE CarefulInv'
  BY <1>1, <1>0 DEF LookAtStarting, At, Goto, NextWorker
<1>2. ASSUME NEW c \in Callers, WaitWhileStopping(c) PROVE CarefulInv'
  BY <1>2, <1>0 DEF WaitWhileStopping, At, Goto, NextWorker
<1>3. ASSUME NEW c \in Callers, ClaimStart(c) PROVE CarefulInv'
  BY <1>3, <1>0 DEF ClaimStart, At, Goto, NextWorker
<1>4. ASSUME NEW c \in Callers, LookAtStopping(c) PROVE CarefulInv'
  <2>1. RunningIsTrue'
    BY <1>4, <1>0 DEF LookAtStopping, At, Goto, NextWorker
  <2>2. LeavingIsAwaited'
    <3>1. \/ Goto(c, "giveUp", 0) \/ Goto(c, "bind", 0) \/ Goto(c, "out", 0)
      BY <1>4 DEF LookAtStopping, Goto, Out
    <3>2. CASE Goto(c, "giveUp", 0)
      BY <1>4, <3>2, <1>0 DEF LookAtStopping, At, Goto
    <3>3. CASE Goto(c, "bind", 0)
      BY <1>4, <3>3, <1>0 DEF LookAtStopping, At, Goto
    <3>4. CASE Goto(c, "out", 0)
      BY <1>4, <3>4, <1>0 DEF LookAtStopping, At, Goto
    <3> QED
      BY <3>1, <3>2, <3>3, <3>4
  <2>3. OneCallOfEach'
    <3>1. \/ Goto(c, "giveUp", 0) \/ Goto(c, "bind", 0) \/ Goto(c, "out", 0)
      BY <1>4 DEF LookAtStopping, Goto, Out
    <3>2. CASE Goto(c, "giveUp", 0)
      BY <1>4, <3>2, <1>0 DEF LookAtStopping, At, Goto
    <3>3. CASE Goto(c, "bind", 0)
      BY <1>4, <3>3, <1>0 DEF LookAtStopping, At, Goto
    <3>4. CASE Goto(c, "out", 0)
      BY <1>4, <3>4, <1>0 DEF LookAtStopping, At, Goto
    <3> QED
      BY <3>1, <3>2, <3>3, <3>4
  <2>4. ThreadToJoin'
    <3>1. \/ Goto(c, "giveUp", 0) \/ Goto(c, "bind", 0) \/ Goto(c, "out", 0)
      BY <1>4 DEF LookAtStopping, Goto, Out
    <3>2. CASE Goto(c, "giveUp", 0)
      BY <1>4, <3>2, <1>0 DEF LookAtStopping, At, Goto
    <3>3. CASE Goto(c, "bind", 0)
      BY <1>4, <3>3, <1>0 DEF LookAtStopping, At, Goto
    <3>4. CASE Goto(c, "out", 0)
      BY <1>4, <3>4, <1>0 DEF LookAtStopping, At, Goto
    <3> QED
      BY <3>1, <3>2, <3>3, <3>4
  <2>5. NoThreadInTheWay'
    BY <1>4, <1>0 DEF LookAtStopping, At, Goto, NextWorker
  <2>6. NoThreadLost'
    BY <1>4, <1>0 DEF LookAtStopping, At, Goto, NextWorker
  <2> QED
    BY <2>1, <2>2, <2>3, <2>4, <2>5, <2>6 DEF CarefulInv
<1>5. ASSUME NEW c \in Callers, GiveUp(c) PROVE CarefulInv'
  BY <1>5, <1>0 DEF GiveUp, At, Goto, NextWorker
<1>6. ASSUME NEW c \in Callers, BuildWorker(c) PROVE CarefulInv'
  BY <1>6, <1>0 DEF BuildWorker, At, Goto, NextWorker
<1>7. ASSUME NEW c \in Callers, SpawnDispatch(c) PROVE CarefulInv'
  BY <1>7, <1>0 DEF SpawnDispatch, At, Goto, NextWorker
<1>8. ASSUME NEW c \in Callers, Started(c) PROVE CarefulInv'
  BY <1>8, <1>0 DEF Started, At, Goto, NextWorker
<1>9. ASSUME NEW c \in Callers, ClaimStop(c) PROVE CarefulInv'
  BY <1>9, <1>0 DEF ClaimStop, At, Goto, NextWorker
<1>10. ASSUME NEW c \in Callers, WaitWhileStarting(c) PROVE CarefulInv'
  BY <1>10, <1>0 DEF WaitWhileStarting, At, Goto, NextWorker
<1>11. ASSUME NEW c \in Callers, JoinDispatch(c) PROVE CarefulInv'
  BY <1>11, <1>0 DEF JoinDispatch, At, Goto, NextWorker
<1>12. ASSUME NEW c \in Callers, RequestStop(c) PROVE CarefulInv'
  <2>1. RunningIsTrue'
    BY <1>12, <1>0 DEF RequestStop, At, Goto, NextWorker
  <2>2. LeavingIsAwaited'
    BY <1>12, <1>0 DEF RequestStop, At, Goto, NextWorker
  <2>3. OneCallOfEach'
    <3>1. \A d \in Callers \ {c} : call'[d] = call[d]
      BY <1>12, <1>0 DEF RequestStop, Goto, NextWorker
    <3>2. call'[c].step \in Stopping /\ call[c].step \in Stopping
      BY <1>12, <1>0 DEF RequestStop, At, Goto, NextWorker
    <3>3. \A d \in Callers : /\ In(d, StartSteps)' => In(d, StartSteps)
                             /\ In(d, StopSteps)' => In(d, StopSteps)
      BY <3>1, <3>2
    <3>4. UNCHANGED careful
      BY <1>12 DEF RequestStop
    <3> QED
      BY <3>3, <3>4, SameCalls
  <2>4. ThreadToJoin'
    <3>1. \A d \in Callers \ {c} : call'[d] = call[d]
      BY <1>12, <1>0 DEF RequestStop, Goto, NextWorker
    <3>2. call'[c].step \in Stopping
      BY <1>12, <1>0 DEF RequestStop, At, Goto, NextWorker
    <3>3. UNCHANGED <<dispatch, careful>>
      BY <1>12 DEF RequestStop
    <3> QED
      BY <3>1, <3>2, <3>3
  <2>5. NoThreadInTheWay'
    BY <1>12, <1>0 DEF RequestStop, At, Goto, NextWorker
  <2>6. NoThreadLost'
    BY <1>12, <1>0 DEF RequestStop, At, Goto, NextWorker
  <2> QED
    BY <2>1, <2>2, <2>3, <2>4, <2>5, <2>6 DEF CarefulInv
<1>13. ASSUME NEW c \in Callers, StopEmits(c) PROVE CarefulInv'
  <2>1. RunningIsTrue'
    BY <1>13, <1>0 DEF StopEmits, At, Goto, NextWorker
  <2>2. LeavingIsAwaited'
    BY <1>13, <1>0 DEF StopEmits, At, Goto, NextWorker
  <2>3. OneCallOfEach'
    <3>1. \A d \in Callers \ {c} : call'[d] = call[d]
      BY <1>13, <1>0 DEF StopEmits, Goto, NextWorker
    <3>2. call'[c].step \in Stopping /\ call[c].step \in Stopping
      BY <1>13, <1>0 DEF StopEmits, At, Goto, NextWorker
    <3>3. \A d \in Callers : /\ In(d, StartSteps)' => In(d, StartSteps)
                             /\ In(d, StopSteps)' => In(d, StopSteps)
      BY <3>1, <3>2
    <3>4. UNCHANGED careful
      BY <1>13 DEF StopEmits
    <3> QED
      BY <3>3, <3>4, SameCalls
  <2>4. ThreadToJoin'
    <3>1. \A d \in Callers \ {c} : call'[d] = call[d]
      BY <1>13, <1>0 DEF StopEmits, Goto, NextWorker
    <3>2. call'[c].step \in Stopping
      BY <1>13, <1>0 DEF StopEmits, At, Goto, NextWorker
    <3>3. UNCHANGED <<dispatch, careful>>
      BY <1>13 DEF StopEmits
    <3> QED
      BY <3>1, <3>2, <3>3
  <2>5. NoThreadInTheWay'
    BY <1>13, <1>0 DEF StopEmits, At, Goto, NextWorker
  <2>6. NoThreadLost'
    BY <1>13, <1>0 DEF StopEmits, At, Goto, NextWorker
  <2> QED
    BY <2>1, <2>2, <2>3, <2>4, <2>5, <2>6 DEF CarefulInv
<1>14. ASSUME NEW c \in Callers, StopRings(c) PROVE CarefulInv'
  <2>1. RunningIsTrue'
    BY <1>14, <1>0 DEF StopRings, At, Goto, NextWorker
  <2>2. LeavingIsAwaited'
    BY <1>14, <1>0 DEF StopRings, At, Goto, NextWorker
  <2>3. OneCallOfEach'
    <3>1. \A d \in Callers \ {c} : call'[d] = call[d]
      BY <1>14, <1>0 DEF StopRings, Goto, NextWorker
    <3>2. call'[c].step \in Stopping /\ call[c].step \in Stopping
      BY <1>14, <1>0 DEF StopRings, At, Goto, NextWorker
    <3>3. \A d \in Callers : /\ In(d, StartSteps)' => In(d, StartSteps)
                             /\ In(d, StopSteps)' => In(d, StopSteps)
      BY <3>1, <3>2
    <3>4. UNCHANGED careful
      BY <1>14 DEF StopRings
    <3> QED
      BY <3>3, <3>4, SameCalls
  <2>4. ThreadToJoin'
    <3>1. \A d \in Callers \ {c} : call'[d] = call[d]
      BY <1>14, <1>0 DEF StopRings, Goto, NextWorker
    <3>2. call'[c].step \in Stopping
      BY <1>14, <1>0 DEF StopRings, At, Goto, NextWorker
    <3>3. UNCHANGED <<dispatch, careful>>
      BY <1>14 DEF StopRings
    <3> QED
      BY <3>1, <3>2, <3>3
  <2>5. NoThreadInTheWay'
    BY <1>14, <1>0 DEF StopRings, At, Goto, NextWorker
  <2>6. NoThreadLost'
    BY <1>14, <1>0 DEF StopRings, At, Goto, NextWorker
  <2> QED
    BY <2>1, <2>2, <2>3, <2>4, <2>5, <2>6 DEF CarefulInv
<1>15. ASSUME NEW c \in Callers, JoinWorker(c) PROVE CarefulInv'
  <2>1. RunningIsTrue'
    BY <1>15, <1>0 DEF JoinWorker, At, Goto, NextWorker
  <2>2. LeavingIsAwaited'
    BY <1>15, <1>0 DEF JoinWorker, At, Goto, NextWorker
  <2>3. OneCallOfEach'
    <3>1. \A d \in Callers \ {c} : call'[d] = call[d]
      BY <1>15, <1>0 DEF JoinWorker, Goto, NextWorker
    <3>2. call'[c].step \in {"stopWorker", "clear"} /\ call[c].step = "stopWorker"
      BY <1>15, <1>0 DEF JoinWorker, At, Goto, NextWorker
    <3>3. \A d \in Callers : /\ In(d, StartSteps)' => In(d, StartSteps)
                             /\ In(d, StopSteps)' => In(d, StopSteps)
      BY <3>1, <3>2
    <3>4. UNCHANGED careful
      BY <1>15 DEF JoinWorker
    <3> QED
      BY <3>3, <3>4, SameCalls
  <2>4. ThreadToJoin'
    <3>1. \A d \in Callers \ {c} : call'[d] = call[d]
      BY <1>15, <1>0 DEF JoinWorker, Goto, NextWorker
    <3>2. call'[c].step \in {"stopWorker", "clear"}
      BY <1>15, <1>0 DEF JoinWorker, At, Goto, NextWorker
    <3>3. UNCHANGED <<dispatch, careful>>
      BY <1>15 DEF JoinWorker
    <3> QED
      BY <3>1, <3>2, <3>3
  <2>5. NoThreadInTheWay'
    BY <1>15, <1>0 DEF JoinWorker, At, Goto, NextWorker
  <2>6. NoThreadLost'
    BY <1>15, <1>0 DEF JoinWorker, At, Goto, NextWorker
  <2> QED
    BY <2>1, <2>2, <2>3, <2>4, <2>5, <2>6 DEF CarefulInv
<1>16. ASSUME NEW c \in Callers, ClearTables(c) PROVE CarefulInv'
  BY <1>16, <1>0 DEF ClearTables, At, Goto, NextWorker
<1>17. ASSUME NEW c \in Callers, Stopped(c) PROVE CarefulInv'
  BY <1>17, <1>0 DEF Stopped, At, Goto, NextWorker
<1>18. ASSUME NEW c \in Callers, CallStart(c) PROVE CarefulInv'
  BY <1>18, <1>0 DEF CallStart, At, Goto, NextWorker
<1>19. ASSUME NEW c \in Callers, CallStop(c) PROVE CarefulInv'
  BY <1>19, <1>0 DEF CallStop, At, Goto, NextWorker
<1>20. ASSUME BeginDispatch PROVE CarefulInv'
  BY <1>20, <1>0 DEF BeginDispatch, DispatchAt
<1>21. ASSUME RejectRequest PROVE CarefulInv'
  BY <1>21, <1>0 DEF RejectRequest, DispatchAt
<1>22. ASSUME AcceptRequest PROVE CarefulInv'
  BY <1>22, <1>0 DEF AcceptRequest, DispatchAt
<1>23. ASSUME DispatchEmits PROVE CarefulInv'
  BY <1>23, <1>0 DEF DispatchEmits, DispatchAt
<1>24. ASSUME DispatchRings PROVE CarefulInv'
  BY <1>24, <1>0 DEF DispatchRings, DispatchAt
<1>25. ASSUME SeeStopping PROVE CarefulInv'
  BY <1>25, <1>0 DEF SeeStopping, DispatchAt
<1>26. ASSUME EndDispatch PROVE CarefulInv'
  BY <1>26, <1>0 DEF EndDispatch, DispatchAt
<1>27. ASSUME NEW w \in Workers, AssignTransaction(w) PROVE CarefulInv'
  BY <1>27, <1>0 DEF AssignTransaction, DispatchAt
<1>28. ASSUME NEW w \in Workers, BeginRun(w) PROVE CarefulInv'
  BY <1>28, <1>0 DEF BeginRun, ThreadAt, Move
<1>29. ASSUME NEW w \in Workers, LoopWhileActive(w) PROVE CarefulInv'
  BY <1>29, <1>0 DEF LoopWhileActive, ThreadAt, Move
<1>30. ASSUME NEW w \in Workers, LoopWhileIdle(w) PROVE CarefulInv'
  BY <1>30, <1>0 DEF LoopWhileIdle, ThreadAt, Move
<1>31. ASSUME NEW w \in Workers, HearBell(w) PROVE CarefulInv'
  BY <1>31, <1>0 DEF HearBell, ThreadAt, Move
<1>32. ASSUME NEW w \in Workers, GiveMalletBack(w) PROVE CarefulInv'
  BY <1>32, <1>0 DEF GiveMalletBack, ThreadAt, Move
<1>33. ASSUME NEW w \in Workers, WaitTimesOut(w) PROVE CarefulInv'
  BY <1>33, <1>0 DEF WaitTimesOut, ThreadAt, Move
<1>34. ASSUME NEW w \in Workers, ProcessActivityStateChange(w) PROVE CarefulInv'
  BY <1>34, <1>0 DEF ProcessActivityStateChange, ThreadAt, Move
<1>35. ASSUME NEW w \in Workers, ProcessTransactionState(w) PROVE CarefulInv'
  BY <1>35, <1>0 DEF ProcessTransactionState, ThreadAt, Move
<1>36. ASSUME NEW w \in Workers, LeaveRun(w) PROVE CarefulInv'
  BY <1>36, <1>0 DEF LeaveRun, ThreadAt, Move
<1>37. ASSUME NEW w \in Workers, EndRun(w) PROVE CarefulInv'
  BY <1>37, <1>0 DEF EndRun, ThreadAt, Move
<1>38. CASE UNCHANGED vars
  BY <1>38, <1>0 DEF vars
<1>39. ASSUME NEW c \in Callers, BindControlSocket(c) PROVE CarefulInv'
  BY <1>39, <1>0 DEF BindControlSocket, At, Goto, NextWorker
<1> QED
  BY <1>1, <1>2, <1>3, <1>4, <1>5, <1>6, <1>7, <1>8, <1>9, <1>10, <1>11, <1>12, <1>13, <1>14,
     <1>15, <1>16, <1>17, <1>18, <1>19, <1>20, <1>21, <1>22, <1>23, <1>24, <1>25, <1>26, <1>27,
     <1>28, <1>29, <1>30, <1>31, <1>32, <1>33, <1>34, <1>35, <1>36, <1>37, <1>38, <1>39
  DEF Next, StartStep, StopStep, DispatchStep, ThreadStep

-----------------------------------------------------------------------------
(***************************************************************************)
(* The theorems.                                                           *)
(***************************************************************************)
LEMMA InitIInv == Init => IInv
<1> SUFFICES ASSUME Init PROVE IInv
  OBVIOUS
<1> USE CountAssumption DEF Init, In, Step, Out
<1>1. TypeOK
  <2>1. call \in [Callers -> [step : StartSteps \cup StopSteps \cup {"out"}, worker : 0 .. Count]]
    OBVIOUS
  <2>2. dispatch \in [step : DispatchSteps, worker : 0 .. Count]
    BY DEF DispatchSteps
  <2>3. /\ thread \in [Workers -> ThreadSteps]
        /\ activity \in [Workers -> {"INACTIVE", "ACTIVE", "TERMINATING"}]
        /\ state \in [Workers -> {"INACTIVE", "WAITING_FOR_REQUEST", "PROCESSING",
                                  "TRANSFERRING", "TERMINATING"}]
        /\ bell \in [Workers -> 0 .. 1] /\ mallet \in [Workers -> 0 .. 1]
    BY 0 \in 0 .. 1, 1 \in 0 .. 1 DEF ThreadSteps
  <2> QED
    BY <2>1, <2>2, <2>3 DEF TypeOK
<1>2. FlagInv
  BY <1>1 DEF FlagInv, Indexed, FlagsAreOwned, SetUpExcludesCleanUp, StartOwner, StopOwner,
     SetUpSteps, CleanUpSteps
<1>3. ThreadInv
  BY DEF ThreadInv, DispatchIsJoined, ActivityIsTrue, WorkersAreJoined, TerminatingIsAwaited,
     ThreadsAreMade, ProcessingIsDispatched, Joined
<1>4. SignalInv
  BY DEF SignalInv, MalletIsSomewhere, NoLostWakeup
<1>5. CarefulInv
  BY DEF CarefulInv, RunningIsTrue, LeavingIsAwaited, OneCallOfEach, ThreadToJoin,
     NoThreadInTheWay, NoThreadLost, StartSteps, StopSteps
<1> QED
  BY <1>2, <1>3, <1>4, <1>5 DEF IInv

\* The invariant, in its four parts.
THEOREM Invariance == Spec => []IInv
<1>1. IInv /\ [Next]_vars => IInv'
  BY FlagInvNext, ThreadNext, SignalNext, CarefulNext DEF IInv
<1> QED
  BY InitIInv, <1>1, PTL DEF Spec

\* Every variable has its type, whoever calls and whenever.
THEOREM TypeCorrect == Spec => []TypeOK
<1>1. IInv => TypeOK
  BY DEF IInv, FlagInv
<1> QED
  BY Invariance, <1>1, PTL

\* Any number of threads may call Start and Stop, at any time: one at a time
\* sets the server up or cleans it up. Two set-ups would both own _starting and
\* two clean-ups _stopping; a set-up and a clean-up have each seen the other's
\* flag clear after setting their own (Server.cpp:45-56 and 92-104).
THEOREM OneAtATimeHolds == Spec => []OneAtATime
<1>1. IInv => OneAtATime
  <2> SUFFICES ASSUME FlagInv, NEW c \in Callers, NEW d \in Callers,
                      In(c, SetUpSteps \cup CleanUpSteps), In(d, SetUpSteps \cup CleanUpSteps)
               PROVE  c = d
    BY DEF IInv, OneAtATime
  <2>1. CASE In(c, SetUpSteps) /\ In(d, SetUpSteps)
    BY <2>1 DEF FlagInv, FlagsAreOwned, StartOwner, In
  <2>2. CASE In(c, CleanUpSteps) /\ In(d, CleanUpSteps)
    BY <2>2 DEF FlagInv, FlagsAreOwned, StopOwner, In
  <2>3. CASE \/ In(c, SetUpSteps) /\ In(d, CleanUpSteps)
             \/ In(c, CleanUpSteps) /\ In(d, SetUpSteps)
    BY <2>3 DEF FlagInv, SetUpExcludesCleanUp
  <2>4. (In(c, SetUpSteps) \/ In(c, CleanUpSteps)) /\ (In(d, SetUpSteps) \/ In(d, CleanUpSteps))
    BY DEF In
  <2> QED
    BY <2>1, <2>2, <2>3, <2>4
<1> QED
  BY Invariance, <1>1, PTL

\* With any number of workers, none sleeps through a request or a stop that its
\* bell does not announce (Signal.cpp:4-17).
THEOREM NoLostWakeupHolds == Spec => []NoLostWakeup
<1>1. IInv => NoLostWakeup
  BY DEF IInv, SignalInv
<1> QED
  BY Invariance, <1>1, PTL

\* A careful application never starts a thread over another one, joins none that
\* is not there, and clears no table under a thread (Server.cpp:71-79, 104-126).
THEOREM NoThreadLostHolds == Spec => []NoThreadLost
<1>1. IInv => NoThreadLost
  BY DEF IInv, CarefulInv
<1> QED
  BY Invariance, <1>1, PTL
=============================================================================
