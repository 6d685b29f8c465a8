-------------------------- MODULE NodeBridgeProofs --------------------------
(***************************************************************************)
(* Proofs about NodeBridge for every set of emails, tasks, callers and     *)
(* operations, and every bound: its inductive invariant, the safety        *)
(* properties that follow, and that it implements the latest-wins mailbox  *)
(* of UserMailbox.                                                         *)
(***************************************************************************)
EXTENDS NodeBridge, TLAPS

-----------------------------------------------------------------------------
(* Operators on dictionaries *)

\* Every dictionary operator of PendingUsers returns a dictionary.
LEMMA DictionaryTypes ==
    /\ NoUsers \in Users
    /\ \A u \in Users, S \in SUBSET Emails : Only(u, S) \in Users
    /\ \A u, v \in Users : Later(u, v) \in Users
    /\ \A u, v \in Users : [e \in Emails |-> IF u[e] # Absent THEN u[e] ELSE v[e]] \in Users
    /\ \A u, v \in Users, S \in SUBSET Emails :
          [e \in Emails |-> IF e \in S THEN u[e] ELSE v[e]] \in Users
    /\ \A u \in Users : KeysOf(u) \in SUBSET Emails
BY DEF NoUsers, Users, Absent, Only, Later, KeysOf

-----------------------------------------------------------------------------
(* Type correctness *)

\* The initial states have the types.
LEMMA InitType == Init => TypeOK
<1> SUFFICES ASSUME Init PROVE TypeOK
    OBVIOUS
<1>0. failureCount = 0 /\ failureCount \in 0..MaxFailures
      BY ThresholdAssumption
      DEF ThresholdAssumption, Init, WorkerInit, NodeStateInit
<1>1. NodeStateTypeOK
      BY <1>0 DEF Init, WorkerInit, NodeStateInit, NodeStateTypeOK, Healths
<1>2. wpc \in [Tasks -> TaskPlaces] /\ batch \in [Tasks -> Users]
      BY DictionaryTypes DEF Init, WorkerInit, TaskPlaces
<1>3. opc \in [Ops -> OpPlaces]
      BY DEF Init, OpPlaces
<1> QED BY <1>1, <1>2, <1>3, DictionaryTypes
    DEF Init, WorkerInit, PendingInit, TypeOK, WorkerTypeOK

\* The counter stays within its bound.
LEMMA CounterTypes ==
    ASSUME TypeOK
    PROVE  /\ ResetFailures => failureCount' \in 0..MaxFailures
           /\ ResetFailures => hardResetEvent' \in BOOLEAN
           /\ IncrementFailure => failureCount' \in 0..MaxFailures
           /\ IncrementFailure => hardResetEvent' \in BOOLEAN
<1> USE ThresholdAssumption
    DEF ThresholdAssumption, TypeOK, WorkerTypeOK, NodeStateTypeOK
<1>1. ResetFailures => failureCount' \in 0..MaxFailures
      BY DEF ResetFailures
<1>2. ResetFailures => hardResetEvent' \in BOOLEAN
      BY DEF ResetFailures
<1>3. IncrementFailure => failureCount' \in 0..MaxFailures
      BY DEF IncrementFailure, OneMore
<1>4. IncrementFailure => hardResetEvent' \in BOOLEAN
      BY Zenon DEF IncrementFailure
<1> QED BY <1>1, <1>2, <1>3, <1>4

\* So do the queue and the event of PendingUsers' operations.
LEMMA QueueTypes ==
    ASSUME TypeOK
    PROVE  /\ ClearQueue => pendingUsers' \in Users /\ workAvailable' \in BOOLEAN
           /\ \A u \in Users : QueueUsers(u) => pendingUsers' \in Users /\ workAvailable' \in BOOLEAN
           /\ \A u \in Users : RequeueUsers(u) => pendingUsers' \in Users /\ workAvailable' \in BOOLEAN
<1> USE DictionaryTypes DEF TypeOK, WorkerTypeOK
<1>1. ASSUME ClearQueue PROVE pendingUsers' \in Users /\ workAvailable' \in BOOLEAN
      BY <1>1 DEF ClearQueue
<1>2. ASSUME NEW u \in Users, QueueUsers(u)
      PROVE  pendingUsers' \in Users /\ workAvailable' \in BOOLEAN
      BY <1>2 DEF QueueUsers
<1>3. ASSUME NEW u \in Users, RequeueUsers(u)
      PROVE  pendingUsers' \in Users /\ workAvailable' \in BOOLEAN
      <2>1. pendingUsers' \in Users
            BY <1>3 DEF RequeueUsers
      <2>2. workAvailable' \in BOOLEAN
            BY <1>3, Zenon DEF RequeueUsers
      <2> QED BY <2>1, <2>2
<1> QED BY <1>1, <1>2, <1>3

\* So does a task that moves without users.
LEMMA MoveType ==
    ASSUME TypeOK, NEW t \in Tasks, NEW place \in TaskPlaces, Move(t, place)
    PROVE  /\ wpc' \in [Tasks -> TaskPlaces] /\ batch' \in [Tasks -> Users]
           /\ nodeLock' \in Ops \cup Tasks \cup {Free}
           /\ nodeWaiters' \subseteq Ops \cup Tasks
BY DictionaryTypes DEF TypeOK, WorkerTypeOK, Move, Unheld

\* So does a task from its test of the health on.
LEMMA CheckHealthType ==
    ASSUME TypeOK, NEW t \in Tasks, CheckHealth(t)
    PROVE  /\ pendingUsers' \in Users /\ workAvailable' \in BOOLEAN
           /\ wpc' \in [Tasks -> TaskPlaces] /\ batch' \in [Tasks -> Users]
           /\ nodeLock' \in Ops \cup Tasks \cup {Free}
           /\ nodeWaiters' \subseteq Ops \cup Tasks
           /\ taken' \in Users
<1> USE DictionaryTypes DEF TypeOK, WorkerTypeOK, TaskPlaces, queueVars
<1>1. CASE Dispatch(t)
      BY <1>1 DEF Dispatch, ClearQueue, Unheld
<1>2. CASE DrainNothing(t)
      BY <1>2, MoveType DEF DrainNothing, ClearQueue
<1>3. CASE \E place \in TaskPlaces : Move(t, place) /\ UNCHANGED <<queueVars, taken>>
      BY <1>3, MoveType
<1> QED BY <1>1, <1>2, <1>3 DEF CheckHealth

\* So does a task at the head of the loop.
LEMMA LoopHeadType ==
    ASSUME TypeOK, NEW t \in Tasks, LoopHead(t)
    PROVE  /\ pendingUsers' \in Users /\ workAvailable' \in BOOLEAN
           /\ wpc' \in [Tasks -> TaskPlaces] /\ batch' \in [Tasks -> Users]
           /\ nodeLock' \in Ops \cup Tasks \cup {Free}
           /\ nodeWaiters' \subseteq Ops \cup Tasks
           /\ taken' \in Users
BY MoveType, CheckHealthType
DEF LoopHead, TypeOK, WorkerTypeOK, TaskPlaces, queueVars

\* Every step of the model keeps the types.
LEMMA NextType == TypeOK /\ [Next]_vars => TypeOK'
<1> SUFFICES ASSUME TypeOK, [Next]_vars PROVE TypeOK'
    OBVIOUS
<1> USE DictionaryTypes, WorkerAssumption, ThresholdAssumption
    DEF TypeOK, WorkerTypeOK, NodeStateTypeOK, WorkerAssumption, ThresholdAssumption
<1> USE DEF queueVars, failureVars, sessionVars, lockVars, workerVars, history,
            LoopVars, opUnchanged
<1>1. ASSUME NEW places \in [Tasks -> TaskPlaces], EnsureWorker(places)
      PROVE  /\ wpc' \in [Tasks -> TaskPlaces]
             /\ syncWorkerTask' \in Tasks \cup {NoTask}
             /\ stranded' \in BOOLEAN
      BY <1>1 DEF EnsureWorker, TaskPlaces
<1>2. Woken(wpc) \in [Tasks -> TaskPlaces]
      BY DEF Woken, TaskPlaces
<1>3. ASSUME NEW c \in Callers, NEW S \in SUBSET Emails, UpdateUsers(c, S), UNCHANGED opc
      PROVE  TypeOK'
      <2>1. NextVersions(S) \in Users /\ latest' \in Users
            BY <1>3 DEF UpdateUsers, NextVersions, Users, Absent
      <2>2. pendingUsers' \in Users /\ workAvailable' \in BOOLEAN
            BY <1>3, <2>1 DEF UpdateUsers, QueueUsers
      <2>3. /\ wpc' \in [Tasks -> TaskPlaces]
            /\ syncWorkerTask' \in Tasks \cup {NoTask}
            /\ stranded' \in BOOLEAN
            /\ syncWaiters' \subseteq Callers \cup Ops
            BY <1>1, <1>2, <1>3 DEF UpdateUsers
      <2> QED BY <1>3, <2>1, <2>2, <2>3 DEF UpdateUsers
<1>4. ASSUME NEW c \in Callers, EnsureAfterWait(c), UNCHANGED opc
      PROVE  TypeOK'
      BY <1>4, <1>1 DEF EnsureAfterWait
<1>5. ASSUME NEW t \in Tasks, WorkerStep(t), UNCHANGED opc
      PROVE  TypeOK'
      <2>1. CASE \/ WorkerFirstStep(t) \/ WorkerWake(t) \/ SleepOver(t)
            BY <1>5, <2>1, LoopHeadType, CheckHealthType
            DEF WorkerFirstStep, WorkerWake, SleepOver
      <2>2. CASE WorkerExpire(t)
            BY <1>5, <2>2 DEF WorkerExpire, TaskPlaces
      <2>3. CASE WorkerCancelled(t)
            BY <1>5, <2>3 DEF WorkerCancelled, TaskPlaces, Unheld
      <2>4. ASSUME NEW F \in SUBSET KeysOf(batch[t]), Settle(t, F)
            PROVE  TypeOK'
            <3>1. acked' \in Users
                  BY <2>4 DEF Settle, Users
            <3>2. CASE F = {}
                  <4>1. ResetFailures /\ LoopHead(t)
                        BY <2>4, <3>2 DEF Settle
                  <4> QED BY <1>5, <2>4, <3>1, <4>1, LoopHeadType, CounterTypes DEF Settle
            <3>3. CASE F # {}
                  <4>1. IncrementFailure /\ RequeueUsers(Only(batch[t], F))
                        BY <2>4, <3>3 DEF Settle
                  <4>2. /\ wpc' = [Woken(wpc) EXCEPT ![t] = "asleep"]
                        /\ batch' = [batch EXCEPT ![t] = NoUsers]
                        /\ nodeLock' = Unheld(t)
                        /\ UNCHANGED <<nodeWaiters, taken>>
                        BY <2>4, <3>3 DEF Settle
                  <4>3. pendingUsers' \in Users /\ workAvailable' \in BOOLEAN
                        <5>1. Only(batch[t], F) \in Users
                              BY <2>4 DEF KeysOf, Only, Users, Absent
                        <5> QED BY <4>1, <5>1, QueueTypes
                  <4>4. wpc' \in [Tasks -> TaskPlaces] /\ batch' \in [Tasks -> Users]
                        BY <4>2, <1>2 DEF TaskPlaces
                  <4> QED BY <1>5, <2>4, <3>1, <4>1, <4>2, <4>3, <4>4, CounterTypes
                          DEF Settle, Unheld
            <3> QED BY <3>2, <3>3
      <2>5. CASE BatchReturns(t) \/ ChunkReturns(t)
            BY <2>4, <2>5 DEF BatchReturns, ChunkReturns
      <2> QED BY <1>5, <2>1, <2>2, <2>3, <2>5 DEF WorkerStep
<1>6. ASSUME NEW t \in Tasks, IdleTimeout(t) \/ ChunkAcquire(t), UNCHANGED opc
      PROVE  TypeOK'
      BY <1>6 DEF IdleTimeout, ChunkAcquire, TaskPlaces
<1>7. ASSUME NEW o \in Ops, NEW p \in OpPlaces, NEW q \in OpPlaces, NEW k \in BOOLEAN,
             CleanupSyncWorker(o, p, q, k)
      PROVE  /\ pendingUsers' \in Users /\ workAvailable' \in BOOLEAN
             /\ health' \in Healths /\ versionsKnown' \in BOOLEAN
             /\ discarded' \in Users
             /\ wpc' \in [Tasks -> TaskPlaces]
             /\ syncWorkerTask' \in Tasks \cup {NoTask}
             /\ syncWorkerLock' \in Ops \cup {Free}
             /\ opc' \in [Ops -> OpPlaces]
      <2>1. ASSUME CloseSession
            PROVE  /\ pendingUsers' \in Users /\ workAvailable' \in BOOLEAN
                   /\ health' \in Healths /\ versionsKnown' \in BOOLEAN
                   /\ discarded' \in Users
            BY <2>1, QueueTypes DEF CloseSession, HealthAssigned, Healths
      <2>2. CASE WorkerAlive
            <3>1. wpc' = [wpc EXCEPT ![syncWorkerTask] = "cancelled"]
                  BY <1>7, <2>2 DEF CleanupSyncWorker
            <3>2. wpc' \in [Tasks -> TaskPlaces]
                  BY <3>1 DEF TaskPlaces
            <3> QED BY <1>7, <2>2, <3>2 DEF CleanupSyncWorker
      <2>3. CASE ~WorkerAlive
            BY <1>7, <2>1, <2>3 DEF CleanupSyncWorker
      <2> QED BY <2>2, <2>3
<1> DEFINE Typed ==
             /\ pendingUsers' \in Users /\ workAvailable' \in BOOLEAN
             /\ health' \in Healths /\ versionsKnown' \in BOOLEAN
             /\ shutdownEvent' \in BOOLEAN /\ discarded' \in Users
             /\ wpc' \in [Tasks -> TaskPlaces]
             /\ syncWorkerTask' \in Tasks \cup {NoTask}
             /\ syncWaiters' \subseteq Callers \cup Ops
             /\ syncWorkerLock' \in Ops \cup {Free}
             /\ opc' \in [Ops -> OpPlaces]
<1>7a. ASSUME NEW o \in Ops, NEW l \in OpPlaces, NEW p \in OpPlaces, NEW q \in OpPlaces,
              NEW k \in BOOLEAN, Disconnect(o, l, p, q, k)
       PROVE  Typed
       <2>1. CASE SyncLockFree
             BY <1>7, <1>7a, <2>1 DEF Disconnect
       <2>2. CASE ~SyncLockFree
             BY <1>7a, <2>2 DEF Disconnect
       <2> QED BY <2>1, <2>2
<1>8. ASSUME NEW o \in Ops, NEW p \in OpPlaces, Joined(o, p), nodeLock' \in {Free, nodeLock}
      PROVE  TypeOK'
      BY <1>8 DEF Joined, CloseSession, ClearQueue, HealthAssigned, Healths, failureVars
<1>9. ASSUME NEW o \in Ops,
             \/ CallStart(o) \/ StartLocked(o) \/ StartFails(o) \/ StartConnects(o)
             \/ SyncUsersLocked(o) \/ RequestReturns(o) \/ CallAbandoned(o)
             \/ \E flush \in BOOLEAN : CallSyncUsers(o, flush)
      PROVE  TypeOK'
      <2>1. CASE CallStart(o) \/ StartLocked(o) \/ StartFails(o)
            BY <2>1 DEF CallStart, StartLocked, StartFails, Acquire, Handed, OpPlaces
      <2>2. CASE StartConnects(o)
            BY <2>2, CounterTypes DEF StartConnects, Healths, OpPlaces
      <2>3. CASE SyncUsersLocked(o) \/ RequestReturns(o) \/ CallAbandoned(o)
            BY <2>3 DEF SyncUsersLocked, RequestReturns, CallAbandoned, Handed, OpPlaces
      <2>4. CASE \E flush \in BOOLEAN : CallSyncUsers(o, flush)
            <3>1. PICK flush \in BOOLEAN : CallSyncUsers(o, flush)
                  BY <2>4
            <3>2. /\ nodeLock' \in Ops \cup Tasks \cup {Free}
                  /\ nodeWaiters' \subseteq Ops \cup Tasks
                  /\ opc' \in [Ops -> OpPlaces]
                  BY <3>1 DEF CallSyncUsers, Acquire, OpPlaces
            <3>3. pendingUsers' \in Users /\ workAvailable' \in BOOLEAN /\ discarded' \in Users
                  BY <3>1, QueueTypes DEF CallSyncUsers, FlushQueue
            <3> QED BY <3>1, <3>2, <3>3 DEF CallSyncUsers
      <2> QED BY <1>9, <2>1, <2>2, <2>3, <2>4
<1>10. ASSUME NEW o \in Ops, StartRejected(o)
       PROVE  TypeOK'
       <2>1. failureCount' \in 0..MaxFailures /\ hardResetEvent' \in BOOLEAN
             BY <1>10, CounterTypes DEF StartRejected
       <2>2. \E k \in BOOLEAN : Disconnect(o, "startLock", "startJoin", "idle", k)
             BY <1>10 DEF StartRejected
       <2>3. Typed
             <3> HIDE DEF Typed
             <3> QED BY <1>7a, <2>2 DEF OpPlaces
       <2> QED BY <1>10, <2>1, <2>3 DEF StartRejected
<1>11. ASSUME NEW o \in Ops, StartJoined(o) \/ StopJoined(o)
       PROVE  TypeOK'
       BY <1>11, <1>8 DEF StartJoined, StopJoined, OpPlaces
<1>12. ASSUME NEW o \in Ops, CallStop(o) \/ StopLocked(o)
       PROVE  TypeOK'
       <2>4. Disconnect(o, "stopLock", "stopJoin", "stopRpc", versionsKnown) => Typed
             <3> HIDE DEF Typed
             <3> QED BY <1>7a DEF OpPlaces
       <2>1. CASE CallStop(o) /\ StopDirectly(o)
             BY <2>1, <2>4 DEF CallStop, StopDirectly
       <2>2. CASE CallStop(o) /\ StopQueued(o)
             BY <2>2 DEF CallStop, StopQueued, OpPlaces
       <2>3. CASE StopLocked(o)
             BY <2>3, <2>4 DEF StopLocked, Handed
       <2> QED BY <1>12, <2>1, <2>2, <2>3 DEF CallStop
<1>12a. ASSUME NEW o \in Ops, StartCleansUp(o) \/ StopCleansUp(o)
       PROVE  TypeOK'
       <2>1. ASSUME NEW l, NEW p \in OpPlaces, NEW q \in OpPlaces, CleanupLocked(o, l, p, q),
                    nodeLock' \in {Free, nodeLock}
             PROVE  TypeOK'
             <3>1. CleanupSyncWorker(o, p, q, versionsKnown)
                   BY <2>1 DEF CleanupLocked
             <3> QED BY <1>7, <2>1, <3>1 DEF CleanupLocked
       <2> QED BY <1>12a, <2>1 DEF StartCleansUp, StopCleansUp, OpPlaces
<1>13. ASSUME NEW h \in {"HEALTHY", "BROKEN", "INVALID"}, SetHealth(h)
       PROVE  TypeOK'
       BY <1>13 DEF SetHealth, HealthAssigned, Healths
<1>14. ASSUME FlushPendingUsers \/ \E c \in Callers : UpdateAbandoned(c)
       PROVE  TypeOK'
       <2>1. CASE FlushPendingUsers
             BY <2>1 DEF FlushPendingUsers, FlushQueue, ClearQueue
       <2>2. CASE \E c \in Callers : UpdateAbandoned(c)
             BY <2>2 DEF UpdateAbandoned
       <2> QED BY <1>14, <2>1, <2>2
<1>15. CASE UNCHANGED vars
       BY <1>15 DEF vars
<1> QED BY <1>3, <1>4, <1>5, <1>6, <1>9, <1>10, <1>11, <1>12, <1>13, <1>14, <1>15, <1>12a
        DEF Next, WorkerNext

\* Every variable keeps its type (in particular the bound of the counter, and
\* that locks are only ever held by who may hold them).
THEOREM TypeCorrect == Spec => []TypeOK
<1>1. Init => TypeOK
      BY InitType
<1>2. TypeOK /\ [Next]_vars => TypeOK'
      BY NextType
<1> QED BY <1>1, <1>2, PTL DEF Spec

-----------------------------------------------------------------------------
(* The inductive invariant *)

\* Who may hold what: only the known worker is alive, only a worker under way
\* holds users, each lock is held exactly in the places that follow its
\* acquisition, and while a disconnect joins the worker no task runs.
ControlInv ==
    /\ SingleWorker
    /\ \A t \in Tasks : batch[t] # NoUsers => wpc[t] \in Sending \cup {"cancelled"}
    /\ \A t \in Tasks : nodeLock = t <=> wpc[t] = "chunk"
    /\ \A o \in Ops : nodeLock = o <=> opc[o] \notin {"idle", "startWait", "stopWait", "syncWait"}
    /\ \A o \in Ops : syncWorkerLock = o <=> opc[o] \in Joining
    /\ syncWorkerLock # Free => \A t \in Tasks : wpc[t] \in {"done", "cancelled"}

\* How the versions of one email are ordered: sent, taken < under way < queued
\* <= submitted.
OrderInv ==
    \A e \in Emails :
        /\ taken[e] <= latest[e] /\ acked[e] <= latest[e] /\ discarded[e] <= latest[e]
        /\ pendingUsers[e] # Absent =>
              /\ acked[e] < pendingUsers[e]
              /\ taken[e] <= pendingUsers[e]
              /\ pendingUsers[e] <= latest[e]
        /\ \A t \in Tasks : batch[t][e] # Absent =>
              /\ acked[e] < batch[t][e]
              /\ taken[e] <= batch[t][e]
              /\ batch[t][e] <= latest[e]

DataInv == OrderInv /\ QueueNewerThanBatch /\ NoLostUpdate

\* What the step of a worker does up to its next suspension: it moves task t to
\* a place, with users only if it is about to send them, and with _node_lock
\* only for a chunked sync.
LoopEffect(t, place, users) ==
    /\ wpc' = [wpc EXCEPT ![t] = place]
    /\ batch' = [batch EXCEPT ![t] = users]
    /\ users # NoUsers => place \in Sending
    /\ place = "chunk" => nodeLock \in {Free, t} /\ nodeLock' = t
    /\ place # "chunk" => nodeLock' = Unheld(t)
    /\ taken' = [e \in Emails |-> IF users[e] # Absent THEN users[e] ELSE taken[e]]
    /\ \/ users = NoUsers /\ pendingUsers' = pendingUsers
       \/ users = pendingUsers /\ pendingUsers' = NoUsers

\* A round of the loop has such an effect.
LEMMA LoopEffects ==
    ASSUME TypeOK, NEW t \in Tasks, LoopHead(t) \/ CheckHealth(t)
    PROVE  \E place \in TaskPlaces \ {"cancelled"}, users \in Users : LoopEffect(t, place, users)
<1> USE DictionaryTypes
<1>1. ASSUME NEW place \in TaskPlaces \ {"cancelled", "chunk"}, Move(t, place),
             pendingUsers' = pendingUsers, taken' = taken
      PROVE  LoopEffect(t, place, NoUsers)
      <2>1. taken = [e \in Emails |-> IF NoUsers[e] # Absent THEN NoUsers[e] ELSE taken[e]]
            BY DEF NoUsers, TypeOK, WorkerTypeOK, Users
      <2> QED BY <1>1, <2>1 DEF LoopEffect, Move
<1>2. CASE Dispatch(t)
      <2>1. LoopEffect(t, "chunk", pendingUsers) \/ LoopEffect(t, "lockWait", pendingUsers)
               \/ LoopEffect(t, "batch", pendingUsers)
            BY <1>2 DEF Dispatch, ClearQueue, LoopEffect, Sending
      <2>2. pendingUsers \in Users
            BY DEF TypeOK, WorkerTypeOK
      <2> QED BY <2>1, <2>2 DEF TaskPlaces
<1>3. CASE DrainNothing(t)
      BY <1>3, <1>1 DEF DrainNothing, ClearQueue, TaskPlaces
<1>4. ASSUME NEW place \in {"done", "waiting", "asleep"}, Move(t, place),
             UNCHANGED <<queueVars, taken>>
      PROVE  LoopEffect(t, place, NoUsers) /\ place \in TaskPlaces \ {"cancelled"}
      BY <1>4, <1>1 DEF queueVars, TaskPlaces
<1>5. CASE CheckHealth(t)
      BY <1>2, <1>3, <1>4, <1>5 DEF CheckHealth
<1> QED BY <1>4, <1>5 DEF LoopHead

\* A worker that moves on keeps the discipline of locks and tasks.
LEMMA TaskMoveControl ==
    ASSUME TypeOK, ControlInv, NEW t \in Tasks, wpc[t] \notin {"done", "cancelled"},
           NEW place \in TaskPlaces \ {"cancelled"}, NEW users \in Users,
           wpc' = [wpc EXCEPT ![t] = place],
           batch' = [batch EXCEPT ![t] = users],
           users # NoUsers => place \in Sending,
           place = "chunk" => nodeLock \in {Free, t} /\ nodeLock' = t,
           place # "chunk" => nodeLock' = Unheld(t),
           UNCHANGED <<opc, syncWorkerLock, syncWorkerTask>>
    PROVE  ControlInv'
<1> USE WorkerAssumption DEF WorkerAssumption, TypeOK, WorkerTypeOK, TaskPlaces
<1>1. SingleWorker'
      BY DEF ControlInv, SingleWorker, Alive
<1>2. (\A s \in Tasks : batch[s] # NoUsers => wpc[s] \in Sending \cup {"cancelled"})'
      BY DEF ControlInv, Sending
<1>3. (\A s \in Tasks : nodeLock = s <=> wpc[s] = "chunk")'
      BY DEF ControlInv, SingleWorker, Alive, Unheld
<1>4. (\A o \in Ops : nodeLock = o <=> opc[o] \notin {"idle", "startWait", "stopWait", "syncWait"})'
      BY DEF ControlInv, Unheld
<1>5. (\A o \in Ops : syncWorkerLock = o <=> opc[o] \in Joining)'
      BY DEF ControlInv
<1>6. (syncWorkerLock # Free => \A s \in Tasks : wpc[s] \in {"done", "cancelled"})'
      BY DEF ControlInv
<1> QED BY <1>1, <1>2, <1>3, <1>4, <1>5, <1>6 DEF ControlInv

\* The outcome of a sync as a move of its task.
SettleEffect(t, F, place, users) ==
    /\ acked' = [e \in Emails |-> IF e \in KeysOf(batch[t]) \ F THEN batch[t][e] ELSE acked[e]]
    /\ \/ F = {} /\ LoopEffect(t, place, users)
       \/ /\ F # {} /\ place = "asleep" /\ users = NoUsers
          /\ wpc' = [wpc EXCEPT ![t] = place]
          /\ batch' = [batch EXCEPT ![t] = users]
          /\ nodeLock' = Unheld(t)
          /\ taken' = taken
          /\ pendingUsers' = [e \in Emails |-> IF pendingUsers[e] # Absent THEN pendingUsers[e]
                                              ELSE Only(batch[t], F)[e]]

\* The end of a batch, with the round that follows, has such an effect.
LEMMA SettleEffects ==
    ASSUME TypeOK, ControlInv, NEW t \in Tasks, wpc[t] \in Sending,
           NEW F \in SUBSET KeysOf(batch[t]), Settle(t, F)
    PROVE  \E place \in TaskPlaces \ {"cancelled"}, users \in Users : SettleEffect(t, F, place, users)
<1>1. CASE F = {}
      <2>1. LoopHead(t)
            BY <1>1 DEF Settle
      <2>2. PICK place \in TaskPlaces \ {"cancelled"}, users \in Users : LoopEffect(t, place, users)
            BY <2>1, LoopEffects
      <2> QED BY <1>1, <2>2 DEF Settle, SettleEffect
<1>2. CASE F # {}
      <2>1. [Woken(wpc) EXCEPT ![t] = "asleep"] = [wpc EXCEPT ![t] = "asleep"]
            BY DEF Woken, ControlInv, SingleWorker, Alive, Sending, TypeOK, WorkerTypeOK, TaskPlaces
      <2>2. SettleEffect(t, F, "asleep", NoUsers)
            BY <1>2, <2>1 DEF Settle, SettleEffect, RequeueUsers
      <2> QED BY <2>2, DictionaryTypes DEF TaskPlaces
<1> QED BY <1>1, <1>2

\* Steps of the workers keep the discipline.
LEMMA WorkerStepControl ==
    ASSUME TypeOK, ControlInv, NEW t \in Tasks,
           WorkerStep(t) \/ IdleTimeout(t) \/ ChunkAcquire(t), UNCHANGED opc
    PROVE  ControlInv'
<1> USE DEF LoopVars, lockVars
<1>1. CASE WorkerFirstStep(t) \/ WorkerWake(t) \/ SleepOver(t)
      <2>1. PICK place \in TaskPlaces \ {"cancelled"}, users \in Users : LoopEffect(t, place, users)
            BY <1>1, LoopEffects DEF WorkerFirstStep, WorkerWake, SleepOver
      <2>2. wpc[t] \notin {"done", "cancelled"} /\ UNCHANGED <<syncWorkerLock, syncWorkerTask>>
            BY <1>1 DEF WorkerFirstStep, WorkerWake, SleepOver
      <2> QED BY <2>1, <2>2, TaskMoveControl DEF LoopEffect
<1>2. CASE BatchReturns(t) \/ ChunkReturns(t)
      <2>1. PICK F \in SUBSET KeysOf(batch[t]) : Settle(t, F)
            BY <1>2 DEF BatchReturns, ChunkReturns
      <2>2. wpc[t] \in Sending
            BY <1>2 DEF BatchReturns, ChunkReturns, Sending
      <2>3. PICK place \in TaskPlaces \ {"cancelled"}, users \in Users : SettleEffect(t, F, place, users)
            BY <2>1, <2>2, SettleEffects
      <2>4. UNCHANGED <<syncWorkerLock, syncWorkerTask>>
            BY <2>1 DEF Settle
      <2> QED BY <2>2, <2>3, <2>4, TaskMoveControl DEF SettleEffect, LoopEffect, Sending
<1>3. CASE IdleTimeout(t) \/ ChunkAcquire(t)
      <2>1. PICK place \in {"expired", "chunk"} :
              /\ wpc[t] \notin {"done", "cancelled"}
              /\ wpc' = [wpc EXCEPT ![t] = place]
              /\ batch' = [batch EXCEPT ![t] = batch[t]]
              /\ batch[t] # NoUsers => place \in Sending
              /\ place = "chunk" => nodeLock \in {Free, t} /\ nodeLock' = t
              /\ place # "chunk" => nodeLock' = Unheld(t)
            BY <1>3 DEF IdleTimeout, ChunkAcquire, Unheld, ControlInv, Sending, TypeOK, WorkerTypeOK
      <2>2. batch[t] \in Users /\ UNCHANGED <<syncWorkerLock, syncWorkerTask>>
            BY <1>3 DEF IdleTimeout, ChunkAcquire, TypeOK, WorkerTypeOK
      <2> QED BY <2>1, <2>2, TaskMoveControl DEF TaskPlaces
<1>4. CASE WorkerExpire(t)
      <2>1. wpc[t] = "expired" /\ batch' = [batch EXCEPT ![t] = batch[t]]
              /\ batch[t] = NoUsers /\ nodeLock' = Unheld(t)
            BY <1>4 DEF WorkerExpire, Unheld, ControlInv, Sending, TypeOK, WorkerTypeOK
      <2> QED BY <1>4, <2>1, TaskMoveControl, DictionaryTypes DEF WorkerExpire, TaskPlaces
<1>5. CASE WorkerCancelled(t)
      <2> USE WorkerAssumption
          DEF WorkerAssumption, WorkerCancelled, TypeOK, WorkerTypeOK, ControlInv, Unheld
      <2>1. SingleWorker'
            BY <1>5 DEF SingleWorker, Alive
      <2>2. (\A s \in Tasks : batch[s] # NoUsers => wpc[s] \in Sending \cup {"cancelled"})'
            BY <1>5
      <2>3. (\A s \in Tasks : nodeLock = s <=> wpc[s] = "chunk")'
            BY <1>5
      <2> QED BY <1>5, <2>1, <2>2, <2>3
<1> QED BY <1>1, <1>2, <1>3, <1>4, <1>5 DEF WorkerStep

\* Spawning a worker for a queue that was just filled: a task is only created
\* when none is alive.
LEMMA SpawnControl ==
    ASSUME TypeOK, ControlInv, syncWorkerLock = Free,
           NEW places, places \in {wpc, Woken(wpc)}, EnsureWorker(places),
           UNCHANGED <<opc, syncWorkerLock, nodeLock, batch>>
    PROVE  ControlInv'
<1> USE DEF TypeOK, WorkerTypeOK, ControlInv, SingleWorker, Alive, WorkerAlive, Woken
<1>1. (\A t \in Tasks : Alive(t) => t = syncWorkerTask)'
      BY DEF EnsureWorker
<1>2. (\A t \in Tasks : batch[t] # NoUsers => wpc[t] \in Sending \cup {"cancelled"})'
      BY DEF EnsureWorker, Sending
<1>3. (\A t \in Tasks : nodeLock = t <=> wpc[t] = "chunk")'
      BY DEF EnsureWorker
<1> QED BY <1>1, <1>2, <1>3

\* An update keeps the discipline of tasks and locks.
LEMMA CallerControl ==
    ASSUME TypeOK, ControlInv, UNCHANGED opc, NEW c \in Callers,
           EnsureAfterWait(c) \/ \E S \in SUBSET Emails : UpdateUsers(c, S)
    PROVE  ControlInv'
<1> USE DEF lockVars
<1>1. CASE EnsureAfterWait(c)
      BY <1>1, SpawnControl DEF EnsureAfterWait
<1>2. ASSUME NEW S \in SUBSET Emails, UpdateUsers(c, S), SyncLockFree
      PROVE  ControlInv'
      BY <1>2, SpawnControl DEF UpdateUsers, SyncLockFree
<1>3. ASSUME NEW S \in SUBSET Emails, UpdateUsers(c, S), ~SyncLockFree
      PROVE  ControlInv'
      <2>1. wpc' = Woken(wpc) /\ UNCHANGED <<batch, nodeLock, syncWorkerLock, syncWorkerTask>>
            BY <1>3 DEF UpdateUsers
      <2>2. \A t \in Tasks : wpc'[t] = IF wpc[t] = "waiting" THEN "woken" ELSE wpc[t]
            BY <2>1 DEF Woken
      <2> QED BY <2>1, <2>2 DEF ControlInv, SingleWorker, Alive, Sending
<1> QED BY <1>1, <1>2, <1>3

\* The calls of start, stop and sync_users that run no disconnect.
LEMMA RequestControl ==
    ASSUME TypeOK, ControlInv, NEW o \in Ops,
           \/ CallStart(o) \/ StartLocked(o) \/ StartFails(o) \/ StartConnects(o)
           \/ SyncUsersLocked(o) \/ RequestReturns(o) \/ CallAbandoned(o)
           \/ (CallStop(o) /\ StopQueued(o))
           \/ \E flush \in BOOLEAN : CallSyncUsers(o, flush)
    PROVE  ControlInv'
<1>1. UNCHANGED <<wpc, batch, syncWorkerTask, syncWorkerLock>>
      BY DEF CallStart, StartLocked, StartFails, StartConnects, SyncUsersLocked, RequestReturns, CallAbandoned,
             CallStop, StopQueued, CallSyncUsers, opUnchanged, workerVars
<1>2. \/ /\ nodeLock = Free /\ nodeLock' = o
         /\ opc' \in {[opc EXCEPT ![o] = "startRpc"], [opc EXCEPT ![o] = "syncRpc"]}
      \/ /\ opc[o] \in {"idle"} /\ nodeLock' = nodeLock
         /\ \E place \in {"startWait", "syncWait", "stopWait"} : opc' = [opc EXCEPT ![o] = place]
      \/ /\ opc[o] \in {"startRpc", "stopRpc", "syncRpc"} /\ nodeLock' = Free
         /\ opc' = [opc EXCEPT ![o] = "idle"]
      \/ /\ opc[o] \in {"startWait", "syncWait", "stopWait"} /\ nodeLock' = nodeLock
         /\ opc' = [opc EXCEPT ![o] = "idle"]
      BY DEF CallStart, StartLocked, StartFails, StartConnects, SyncUsersLocked, RequestReturns, CallAbandoned,
             CallStop, StopQueued, CallSyncUsers, Acquire, Handed
<1> USE WorkerAssumption
    DEF WorkerAssumption, TypeOK, WorkerTypeOK, OpPlaces, ControlInv
<1>3. (\A t \in Tasks : nodeLock = t <=> wpc[t] = "chunk")'
      BY <1>1, <1>2
<1>4. (\A p \in Ops : nodeLock = p <=> opc[p] \notin {"idle", "startWait", "stopWait", "syncWait"})'
      BY <1>2
<1>5. (\A p \in Ops : syncWorkerLock = p <=> opc[p] \in Joining)'
      BY <1>1, <1>2 DEF Joining
<1>6. SingleWorker'
      BY <1>1 DEF SingleWorker, Alive
<1> QED BY <1>1, <1>3, <1>4, <1>5, <1>6

\* A disconnect that has _sync_worker_lock, by a call that holds or takes _node_lock.
LEMMA CleanupControl ==
    ASSUME TypeOK, ControlInv, NEW o \in Ops, NEW p \in Joining, NEW q \in {"idle", "stopRpc"},
           NEW k, CleanupSyncWorker(o, p, q, k), syncWorkerLock = Free,
           nodeLock \in {o, Free}, nodeLock' = IF opc'[o] = "idle" THEN Free ELSE o,
           UNCHANGED batch
    PROVE  ControlInv'
<1> USE WorkerAssumption
    DEF WorkerAssumption, TypeOK, WorkerTypeOK, OpPlaces, TaskPlaces, ControlInv, Joining
<1>1. CASE WorkerAlive
      <2>1. /\ syncWorkerLock' = o
            /\ wpc' = [wpc EXCEPT ![syncWorkerTask] = "cancelled"]
            /\ opc' = [opc EXCEPT ![o] = p] /\ UNCHANGED syncWorkerTask
            /\ syncWorkerTask \in Tasks /\ Alive(syncWorkerTask)
            BY <1>1 DEF CleanupSyncWorker, WorkerAlive
      <2>2. SingleWorker'
            BY <2>1 DEF SingleWorker, Alive
      <2>3. (\A t \in Tasks : batch[t] # NoUsers => wpc[t] \in Sending \cup {"cancelled"})'
            BY <2>1
      <2>4. (\A t \in Tasks : nodeLock = t <=> wpc[t] = "chunk")'
            BY <2>1
      <2>5. (\A r \in Ops : nodeLock = r <=> opc[r] \notin {"idle", "startWait", "stopWait", "syncWait"})'
            BY <2>1
      <2>6. (\A r \in Ops : syncWorkerLock = r <=> opc[r] \in Joining)'
            BY <2>1
      <2>7. (syncWorkerLock # Free => \A t \in Tasks : wpc[t] \in {"done", "cancelled"})'
            BY <2>1 DEF SingleWorker, Alive
      <2> QED BY <2>2, <2>3, <2>4, <2>5, <2>6, <2>7
<1>2. CASE ~WorkerAlive
      <2>1. /\ UNCHANGED <<syncWorkerLock, wpc, syncWorkerTask>>
            /\ opc' = [opc EXCEPT ![o] = q]
            BY <1>2 DEF CleanupSyncWorker
      <2>2. SingleWorker'
            BY <2>1 DEF SingleWorker, Alive
      <2>3. (\A t \in Tasks : nodeLock = t <=> wpc[t] = "chunk")'
            BY <2>1
      <2>4. (\A r \in Ops : nodeLock = r <=> opc[r] \notin {"idle", "startWait", "stopWait", "syncWait"})'
            BY <2>1
      <2>5. (\A r \in Ops : syncWorkerLock = r <=> opc[r] \in Joining)'
            BY <2>1
      <2> QED BY <2>1, <2>2, <2>3, <2>4, <2>5
<1> QED BY <1>1, <1>2

\* A disconnect keeps the discipline, with the lock at once or after a wait.
LEMMA DisconnectControl ==
    ASSUME TypeOK, ControlInv, NEW o \in Ops, NEW l \in Locking, NEW p \in Joining,
           NEW q \in {"idle", "stopRpc"}, NEW k, Disconnect(o, l, p, q, k),
           nodeLock \in {o, Free}, opc[o] \notin Joining,
           nodeLock' = IF opc'[o] = "idle" THEN Free ELSE o,
           UNCHANGED batch
    PROVE  ControlInv'
<1>1. CASE SyncLockFree
      BY <1>1, CleanupControl DEF Disconnect, SyncLockFree
<1>2. CASE ~SyncLockFree
      <2> USE WorkerAssumption
          DEF WorkerAssumption, TypeOK, WorkerTypeOK, OpPlaces, ControlInv, Joining, Locking
      <2>1. /\ UNCHANGED <<syncWorkerLock, wpc, syncWorkerTask>>
            /\ opc' = [opc EXCEPT ![o] = l]
            BY <1>2 DEF Disconnect
      <2>2. SingleWorker'
            BY <2>1 DEF SingleWorker, Alive
      <2>3. (\A t \in Tasks : nodeLock = t <=> wpc[t] = "chunk")'
            BY <2>1
      <2>4. (\A r \in Ops : nodeLock = r <=> opc[r] \notin {"idle", "startWait", "stopWait", "syncWait"})'
            BY <2>1
      <2>5. (\A r \in Ops : syncWorkerLock = r <=> opc[r] \in Joining)'
            BY <2>1
      <2> QED BY <2>1, <2>2, <2>3, <2>4, <2>5
<1> QED BY <1>1, <1>2

\* So does one that has waited for the lock.
LEMMA CleansUpControl ==
    ASSUME TypeOK, ControlInv, NEW o \in Ops, StartCleansUp(o) \/ StopCleansUp(o)
    PROVE  ControlInv'
<1>1. PICK p \in Joining, q \in {"idle", "stopRpc"} :
        /\ opc[o] \in Locking /\ syncWorkerLock = Free
        /\ CleanupSyncWorker(o, p, q, versionsKnown) /\ UNCHANGED batch
        /\ \/ p = "startJoin" /\ q = "idle" /\ nodeLock' = IF opc'[o] = "idle" THEN Free ELSE nodeLock
           \/ p = "stopJoin" /\ q = "stopRpc" /\ nodeLock' = nodeLock
      BY DEF StartCleansUp, StopCleansUp, CleanupLocked, Joining, Locking
<1>2. nodeLock = o
      BY <1>1 DEF ControlInv, Locking
<1>3. q = "stopRpc" => opc'[o] # "idle"
      BY <1>1 DEF CleanupSyncWorker, TypeOK
<1> QED BY <1>1, <1>2, <1>3, CleanupControl

\* So does a disconnect that has joined the worker.
LEMMA JoinedControl ==
    ASSUME TypeOK, ControlInv, NEW o \in Ops, StartJoined(o) \/ StopJoined(o)
    PROVE  ControlInv'
<1> USE WorkerAssumption
    DEF WorkerAssumption, TypeOK, WorkerTypeOK, OpPlaces, ControlInv, Joining
<1>1. /\ opc[o] \in Joining /\ ~WorkerAlive
      /\ syncWorkerTask' = NoTask /\ syncWorkerLock' = Free /\ UNCHANGED <<wpc, batch>>
      /\ \/ opc' = [opc EXCEPT ![o] = "idle"] /\ nodeLock' = Free
         \/ opc' = [opc EXCEPT ![o] = "stopRpc"] /\ nodeLock' = nodeLock
      BY DEF StartJoined, StopJoined, Joined
<1>2. SingleWorker'
      BY <1>1 DEF SingleWorker, Alive, WorkerAlive
<1>3. (\A t \in Tasks : nodeLock = t <=> wpc[t] = "chunk")'
      BY <1>1
<1>4. (\A r \in Ops : nodeLock = r <=> opc[r] \notin {"idle", "startWait", "stopWait", "syncWait"})'
      BY <1>1
<1>5. (\A r \in Ops : syncWorkerLock = r <=> opc[r] \in Joining)'
      BY <1>1
<1> QED BY <1>1, <1>2, <1>3, <1>4, <1>5

\* Every step keeps the discipline of tasks and locks.
LEMMA NextControl == TypeOK /\ ControlInv /\ [Next]_vars => ControlInv'
<1> SUFFICES ASSUME TypeOK, ControlInv, [Next]_vars PROVE ControlInv'
    OBVIOUS
<1>1. ASSUME NEW o \in Ops, StartRejected(o) PROVE ControlInv'
      <2>1. PICK k : Disconnect(o, "startLock", "startJoin", "idle", k)
            BY <1>1 DEF StartRejected
      <2>2. nodeLock = o /\ opc[o] \notin Joining
            BY <1>1 DEF StartRejected, ControlInv, Joining
      <2>3. nodeLock' = IF opc'[o] = "idle" THEN Free ELSE o
            BY <1>1, <2>2 DEF StartRejected
      <2> QED BY <1>1, <2>1, <2>2, <2>3, DisconnectControl DEF StartRejected, Joining, Locking
<1>2. ASSUME NEW o \in Ops, StopLocked(o) \/ (CallStop(o) /\ StopDirectly(o)) PROVE ControlInv'
      <2>1. Disconnect(o, "stopLock", "stopJoin", "stopRpc", versionsKnown)
            BY <1>2 DEF StopLocked, StopDirectly
      <2>2. nodeLock = Free /\ nodeLock' = o /\ opc[o] \notin Joining /\ UNCHANGED batch
            BY <1>2 DEF StopLocked, StopDirectly, CallStop, Handed, Joining
      <2>3. opc'[o] # "idle"
            BY <2>1 DEF Disconnect, CleanupSyncWorker, TypeOK
      <2> QED BY <2>1, <2>2, <2>3, DisconnectControl DEF Joining, Locking
<1>3. ASSUME \/ FlushPendingUsers \/ UNCHANGED vars
             \/ \E c \in Callers : UpdateAbandoned(c)
             \/ \E h \in {"HEALTHY", "BROKEN", "INVALID"} : SetHealth(h)
      PROVE  ControlInv'
      <2>1. UNCHANGED <<wpc, batch, syncWorkerTask, syncWorkerLock, nodeLock, opc>>
            BY <1>3 DEF FlushPendingUsers, UpdateAbandoned, SetHealth, vars, opUnchanged, workerVars, lockVars
      <2> QED BY <2>1 DEF ControlInv, SingleWorker, Alive
<1>4. ASSUME WorkerNext, UNCHANGED opc PROVE ControlInv'
      BY <1>4, WorkerStepControl, CallerControl DEF WorkerNext
<1>5. ASSUME NEW o \in Ops, CallStop(o) PROVE ControlInv'
      <2>1. CASE StopDirectly(o)
            BY <1>5, <1>2, <2>1
      <2>2. CASE StopQueued(o)
            BY <1>5, <2>2, RequestControl
      <2> QED BY <1>5, <2>1, <2>2 DEF CallStop
<1>6. ASSUME NEW o \in Ops, NEW flush \in BOOLEAN, CallSyncUsers(o, flush) PROVE ControlInv'
      BY <1>6, RequestControl
<1>7. ASSUME NEW o \in Ops,
             \/ CallStart(o) \/ StartLocked(o) \/ StartFails(o) \/ StartConnects(o)
             \/ SyncUsersLocked(o) \/ RequestReturns(o) \/ CallAbandoned(o)
      PROVE  ControlInv'
      BY <1>7, RequestControl
<1>8. ASSUME NEW o \in Ops,
             \/ StartJoined(o) \/ StopJoined(o) \/ StopLocked(o)
             \/ StartCleansUp(o) \/ StopCleansUp(o)
      PROVE  ControlInv'
      <2>1. CASE StopLocked(o)
            BY <1>2, <2>1
      <2>2. CASE StartJoined(o) \/ StopJoined(o)
            BY <2>2, JoinedControl
      <2>3. CASE StartCleansUp(o) \/ StopCleansUp(o)
            BY <2>3, CleansUpControl
      <2> QED BY <1>8, <2>1, <2>2, <2>3
<1>9. CASE UNCHANGED vars
      BY <1>3, <1>9
<1>10. CASE Next
       BY <1>1, <1>3, <1>4, <1>5, <1>6, <1>7, <1>8, <1>10 DEF Next
<1> QED BY <1>9, <1>10

-----------------------------------------------------------------------------
(* The versions of the users *)

\* While one task is alive no other task holds users.
LEMMA OneBatch ==
    ASSUME TypeOK, ControlInv, NEW t \in Tasks, Alive(t)
    PROVE  \A s \in Tasks \ {t} : batch[s] = NoUsers
BY DEF ControlInv, SingleWorker, Alive, Sending, TypeOK, WorkerTypeOK, TaskPlaces

\* No email has an entry in the empty dictionary.
LEMMA NoUsersEmpty == \A e \in Emails : NoUsers[e] = Absent
BY DEF NoUsers

\* An update is newer than everything known of its users.
LEMMA SubmitData ==
    ASSUME TypeOK, DataInv, NEW S \in SUBSET Emails, QueueUsers(NextVersions(S)),
           latest' = [e \in Emails |-> IF e \in S THEN latest[e] + 1 ELSE latest[e]],
           UNCHANGED <<batch, taken, acked, discarded>>
    PROVE  DataInv'
<1>1. ASSUME NEW e \in Emails
      PROVE  /\ e \in S => pendingUsers'[e] = latest[e] + 1 /\ latest'[e] = latest[e] + 1
             /\ e \notin S => pendingUsers'[e] = pendingUsers[e] /\ latest'[e] = latest[e]
      BY DEF QueueUsers, NextVersions, Absent, TypeOK, WorkerTypeOK, Users
<1>2. ASSUME NEW e \in Emails
      PROVE  /\ pendingUsers[e] \in Nat /\ latest[e] \in Nat /\ taken[e] \in Nat
             /\ acked[e] \in Nat /\ discarded[e] \in Nat
             /\ \A t \in Tasks : batch[t][e] \in Nat
      BY DEF TypeOK, WorkerTypeOK, Users
<1>3. OrderInv'
      BY <1>1, <1>2 DEF DataInv, OrderInv, Absent
<1>4. QueueNewerThanBatch'
      BY <1>1, <1>2 DEF DataInv, OrderInv, QueueNewerThanBatch, Absent
<1>5. NoLostUpdate'
      BY <1>1, <1>2 DEF DataInv, NoLostUpdate, Absent
<1> QED BY <1>3, <1>4, <1>5 DEF DataInv

\* Giving up the queue, or a batch, is recorded.
LEMMA DropData ==
    ASSUME TypeOK, DataInv,
           \/ /\ pendingUsers' = NoUsers /\ discarded' = Later(discarded, pendingUsers)
              /\ batch' = batch
           \/ \E t \in Tasks :
                /\ batch' = [batch EXCEPT ![t] = NoUsers]
                /\ discarded' = Later(discarded, batch[t])
                /\ pendingUsers' = pendingUsers,
           UNCHANGED <<latest, taken, acked>>
    PROVE  DataInv'
<1>1. ASSUME NEW e \in Emails
      PROVE  /\ pendingUsers[e] \in Nat /\ latest[e] \in Nat /\ taken[e] \in Nat
             /\ acked[e] \in Nat /\ discarded[e] \in Nat
             /\ \A t \in Tasks : batch[t][e] \in Nat
      BY DEF TypeOK, WorkerTypeOK, Users
<1>2. CASE /\ pendingUsers' = NoUsers /\ discarded' = Later(discarded, pendingUsers)
           /\ batch' = batch
      <2>1. ASSUME NEW e \in Emails
            PROVE  /\ pendingUsers'[e] = Absent
                   /\ discarded'[e] = IF discarded[e] > pendingUsers[e]
                                      THEN discarded[e] ELSE pendingUsers[e]
            BY <1>2 DEF Later, NoUsers
      <2>2. OrderInv'
            BY <1>1, <1>2, <2>1 DEF DataInv, OrderInv, Absent
      <2>3. QueueNewerThanBatch'
            BY <2>1 DEF QueueNewerThanBatch
      <2>4. NoLostUpdate'
            BY <1>1, <1>2, <2>1 DEF DataInv, OrderInv, NoLostUpdate, Absent
      <2> QED BY <2>2, <2>3, <2>4 DEF DataInv
<1>3. ASSUME NEW t \in Tasks, batch' = [batch EXCEPT ![t] = NoUsers],
             discarded' = Later(discarded, batch[t]), pendingUsers' = pendingUsers
      PROVE  DataInv'
      <2>1. ASSUME NEW e \in Emails
            PROVE  /\ batch'[t][e] = Absent
                   /\ \A s \in Tasks \ {t} : batch'[s][e] = batch[s][e]
                   /\ discarded'[e] = IF discarded[e] > batch[t][e]
                                      THEN discarded[e] ELSE batch[t][e]
            BY <1>3 DEF Later, NoUsers, TypeOK, WorkerTypeOK
      <2>2. OrderInv'
            BY <1>1, <1>3, <2>1 DEF DataInv, OrderInv, Absent
      <2>3. QueueNewerThanBatch'
            BY <1>1, <1>3, <2>1 DEF DataInv, QueueNewerThanBatch, Absent
      <2>4. NoLostUpdate'
            BY <1>1, <1>3, <2>1 DEF DataInv, OrderInv, NoLostUpdate, Absent
      <2> QED BY <2>2, <2>3, <2>4 DEF DataInv
<1> QED BY <1>2, <1>3

\* The worker takes the queue, or nothing, when it holds nothing.
LEMMA LoopData ==
    ASSUME TypeOK, ControlInv, DataInv, NEW t \in Tasks, Alive(t), batch[t] = NoUsers,
           NEW place, NEW users \in Users, LoopEffect(t, place, users),
           UNCHANGED <<latest, acked, discarded>>
    PROVE  DataInv'
<1>1. ASSUME NEW e \in Emails
      PROVE  /\ pendingUsers[e] \in Nat /\ latest[e] \in Nat /\ taken[e] \in Nat
             /\ acked[e] \in Nat /\ discarded[e] \in Nat
      BY DEF TypeOK, WorkerTypeOK, Users
<1>2. ASSUME NEW e \in Emails
      PROVE  /\ \A s \in Tasks : batch[s][e] = Absent
             /\ batch'[t][e] = users[e]
             /\ \A s \in Tasks \ {t} : batch'[s][e] = Absent
             /\ taken'[e] = IF users[e] # Absent THEN users[e] ELSE taken[e]
             /\ \/ users[e] = Absent /\ pendingUsers'[e] = pendingUsers[e]
                \/ users[e] = pendingUsers[e] /\ pendingUsers'[e] = Absent
      BY OneBatch, NoUsersEmpty DEF LoopEffect, TypeOK, WorkerTypeOK
<1>3. OrderInv'
      BY <1>1, <1>2 DEF DataInv, OrderInv, Absent
<1>4. QueueNewerThanBatch'
      BY <1>1, <1>2 DEF DataInv, QueueNewerThanBatch, Absent
<1>5. NoLostUpdate'
      BY <1>1, <1>2 DEF DataInv, NoLostUpdate, Absent
<1> QED BY <1>3, <1>4, <1>5 DEF DataInv

\* A batch ends: the users that did not fail are sent, the others are queued
\* again unless newer ones are, and the next batch may start.
LEMMA SettleData ==
    ASSUME TypeOK, ControlInv, DataInv, NEW t \in Tasks, Alive(t),
           NEW F \in SUBSET KeysOf(batch[t]),
           NEW place, NEW users \in Users, SettleEffect(t, F, place, users),
           UNCHANGED <<latest, discarded>>
    PROVE  DataInv'
<1>1. ASSUME NEW e \in Emails
      PROVE  /\ pendingUsers[e] \in Nat /\ latest[e] \in Nat /\ taken[e] \in Nat
             /\ acked[e] \in Nat /\ discarded[e] \in Nat /\ batch[t][e] \in Nat
      BY DEF TypeOK, WorkerTypeOK, Users
<1>2. ASSUME NEW e \in Emails
      PROVE  /\ \A s \in Tasks \ {t} : batch[s][e] = Absent /\ batch'[s][e] = Absent
             /\ batch'[t][e] = users[e]
             /\ acked'[e] = IF batch[t][e] # Absent /\ e \notin F THEN batch[t][e] ELSE acked[e]
             /\ e \in F => batch[t][e] # Absent
      BY OneBatch, NoUsersEmpty DEF SettleEffect, LoopEffect, TypeOK, WorkerTypeOK, KeysOf
<1>3. CASE F = {}
      <2>1. ASSUME NEW e \in Emails
            PROVE  /\ taken'[e] = IF users[e] # Absent THEN users[e] ELSE taken[e]
                   /\ \/ users[e] = Absent /\ pendingUsers'[e] = pendingUsers[e]
                      \/ users[e] = pendingUsers[e] /\ pendingUsers'[e] = Absent
            BY <1>3, NoUsersEmpty DEF SettleEffect, LoopEffect
      <2>2. OrderInv'
            BY <1>1, <1>2, <1>3, <2>1 DEF DataInv, OrderInv, QueueNewerThanBatch, Absent
      <2>3. QueueNewerThanBatch'
            BY <1>1, <1>2, <2>1 DEF DataInv, QueueNewerThanBatch, Absent
      <2>4. NoLostUpdate'
            BY <1>1, <1>2, <1>3, <2>1 DEF DataInv, OrderInv, NoLostUpdate, Absent
      <2> QED BY <2>2, <2>3, <2>4 DEF DataInv
<1>4. CASE F # {}
      <2>1. ASSUME NEW e \in Emails
            PROVE  /\ users[e] = Absent /\ taken'[e] = taken[e]
                   /\ pendingUsers'[e] = IF pendingUsers[e] # Absent THEN pendingUsers[e]
                                         ELSE IF e \in F THEN batch[t][e] ELSE Absent
            BY <1>4, NoUsersEmpty DEF SettleEffect, Only
      <2>2. OrderInv'
            BY <1>1, <1>2, <2>1 DEF DataInv, OrderInv, QueueNewerThanBatch, Absent
      <2>3. QueueNewerThanBatch'
            BY <1>1, <1>2, <2>1 DEF DataInv, QueueNewerThanBatch, Absent
      <2>4. NoLostUpdate'
            BY <1>1, <1>2, <2>1 DEF DataInv, OrderInv, QueueNewerThanBatch, NoLostUpdate, Absent
      <2> QED BY <2>2, <2>3, <2>4 DEF DataInv
<1> QED BY <1>3, <1>4

\* A step of a worker keeps the versions ordered and loses none.
LEMMA WorkerStepData ==
    ASSUME TypeOK, ControlInv, DataInv, NEW t \in Tasks, WorkerStep(t)
    PROVE  DataInv'
<1> USE DEF history, LoopVars, queueVars
<1>1. CASE WorkerFirstStep(t) \/ WorkerWake(t) \/ SleepOver(t)
      <2>1. PICK place \in TaskPlaces \ {"cancelled"}, users \in Users : LoopEffect(t, place, users)
            BY <1>1, LoopEffects DEF WorkerFirstStep, WorkerWake, SleepOver
      <2>2. Alive(t) /\ batch[t] = NoUsers /\ UNCHANGED <<latest, acked, discarded>>
            BY <1>1 DEF WorkerFirstStep, WorkerWake, SleepOver, Alive, ControlInv, Sending
      <2> QED BY <2>1, <2>2, LoopData
<1>2. CASE BatchReturns(t) \/ ChunkReturns(t)
      <2>1. PICK F \in SUBSET KeysOf(batch[t]) : Settle(t, F)
            BY <1>2 DEF BatchReturns, ChunkReturns
      <2>2. wpc[t] \in Sending /\ Alive(t)
            BY <1>2 DEF BatchReturns, ChunkReturns, Sending, Alive
      <2>3. PICK place \in TaskPlaces \ {"cancelled"}, users \in Users : SettleEffect(t, F, place, users)
            BY <2>1, <2>2, SettleEffects
      <2>4. UNCHANGED <<latest, discarded>>
            BY <2>1 DEF Settle
      <2> QED BY <2>2, <2>3, <2>4, SettleData
<1>3. CASE WorkerExpire(t)
      <2>1. UNCHANGED <<pendingUsers, batch, latest, taken, acked, discarded>>
            BY <1>3 DEF WorkerExpire
      <2> QED BY <2>1 DEF DataInv, OrderInv, QueueNewerThanBatch, NoLostUpdate
<1>4. CASE WorkerCancelled(t)
      BY <1>4, DropData DEF WorkerCancelled
<1> QED BY <1>1, <1>2, <1>3, <1>4 DEF WorkerStep

\* What the calls of the application and of the bridge do to the users.
LEMMA CallData ==
    ASSUME TypeOK, DataInv,
           UNCHANGED <<batch, latest, taken, acked>>,
           \/ UNCHANGED <<pendingUsers, discarded>>
           \/ pendingUsers' = NoUsers /\ discarded' = Later(discarded, pendingUsers)
    PROVE  DataInv'
<1>1. CASE UNCHANGED <<pendingUsers, discarded>>
      BY <1>1 DEF DataInv, OrderInv, QueueNewerThanBatch, NoLostUpdate
<1>2. CASE pendingUsers' = NoUsers /\ discarded' = Later(discarded, pendingUsers)
      BY <1>2, DropData
<1> QED BY <1>1, <1>2

\* A step that is neither a caller's nor a worker's changes the users at most by
\* clearing the queue, and records it.
LEMMA OperationUsers ==
    ASSUME \/ \E o \in Ops :
                \/ CallStart(o) \/ StartLocked(o) \/ StartFails(o)
                \/ StartConnects(o) \/ StartRejected(o) \/ StartJoined(o)
                \/ CallStop(o) \/ StopLocked(o) \/ StopJoined(o)
                \/ StartCleansUp(o) \/ StopCleansUp(o)
                \/ \E flush \in BOOLEAN : CallSyncUsers(o, flush)
                \/ SyncUsersLocked(o) \/ RequestReturns(o) \/ CallAbandoned(o)
           \/ \E h \in {"HEALTHY", "BROKEN", "INVALID"} : SetHealth(h)
           \/ FlushPendingUsers
           \/ \E c \in Callers : UpdateAbandoned(c)
           \/ UNCHANGED vars
    PROVE  /\ UNCHANGED <<batch, latest, taken, acked>>
           /\ \/ UNCHANGED <<pendingUsers, workAvailable, discarded>>
              \/ ClearQueue /\ discarded' = Later(discarded, pendingUsers)
<1> USE DEF opUnchanged, workerVars, queueVars, history
<1>1. ASSUME NEW o \in Ops,
             \/ CallStart(o) \/ StartLocked(o) \/ StartFails(o) \/ StartConnects(o)
             \/ SyncUsersLocked(o) \/ RequestReturns(o) \/ CallAbandoned(o)
      PROVE  UNCHANGED <<batch, latest, taken, acked, pendingUsers, workAvailable, discarded>>
      BY <1>1 DEF CallStart, StartLocked, StartFails, StartConnects, SyncUsersLocked, RequestReturns, CallAbandoned
<1>2. ASSUME NEW o \in Ops, NEW l, NEW p, NEW q, NEW k,
             Disconnect(o, l, p, q, k) \/ CleanupSyncWorker(o, p, q, k)
      PROVE  \/ UNCHANGED <<pendingUsers, workAvailable, discarded>>
             \/ ClearQueue /\ discarded' = Later(discarded, pendingUsers)
      BY <1>2 DEF Disconnect, CleanupSyncWorker, CloseSession
<1>8. ASSUME NEW o \in Ops, StartCleansUp(o) \/ StopCleansUp(o)
      PROVE  /\ UNCHANGED <<batch, latest, taken, acked>>
             /\ \/ UNCHANGED <<pendingUsers, workAvailable, discarded>>
                \/ ClearQueue /\ discarded' = Later(discarded, pendingUsers)
      BY <1>2, <1>8 DEF StartCleansUp, StopCleansUp, CleanupLocked
<1>3. ASSUME NEW o \in Ops, StartRejected(o)
      PROVE  /\ UNCHANGED <<batch, latest, taken, acked>>
             /\ \/ UNCHANGED <<pendingUsers, workAvailable, discarded>>
                \/ ClearQueue /\ discarded' = Later(discarded, pendingUsers)
      BY <1>2, <1>3 DEF StartRejected
<1>4. ASSUME NEW o \in Ops, StartJoined(o) \/ StopJoined(o)
      PROVE  /\ UNCHANGED <<batch, latest, taken, acked>>
             /\ ClearQueue /\ discarded' = Later(discarded, pendingUsers)
      BY <1>4 DEF StartJoined, StopJoined, Joined, CloseSession
<1>5. ASSUME NEW o \in Ops, CallStop(o) \/ StopLocked(o)
      PROVE  /\ UNCHANGED <<batch, latest, taken, acked>>
             /\ \/ UNCHANGED <<pendingUsers, workAvailable, discarded>>
                \/ ClearQueue /\ discarded' = Later(discarded, pendingUsers)
      BY <1>2, <1>5 DEF CallStop, StopDirectly, StopQueued, StopLocked
<1>6. ASSUME NEW o \in Ops, NEW flush \in BOOLEAN, CallSyncUsers(o, flush)
      PROVE  /\ UNCHANGED <<batch, latest, taken, acked>>
             /\ \/ UNCHANGED <<pendingUsers, workAvailable, discarded>>
                \/ ClearQueue /\ discarded' = Later(discarded, pendingUsers)
      BY <1>6 DEF CallSyncUsers, FlushQueue
<1>7. ASSUME \/ \E h \in {"HEALTHY", "BROKEN", "INVALID"} : SetHealth(h)
             \/ FlushPendingUsers
             \/ \E c \in Callers : UpdateAbandoned(c)
             \/ UNCHANGED vars
      PROVE  /\ UNCHANGED <<batch, latest, taken, acked>>
             /\ \/ UNCHANGED <<pendingUsers, workAvailable, discarded>>
                \/ ClearQueue /\ discarded' = Later(discarded, pendingUsers)
      BY <1>7 DEF SetHealth, FlushPendingUsers, UpdateAbandoned, FlushQueue, vars
<1> QED BY <1>1, <1>3, <1>4, <1>5, <1>6, <1>7, <1>8

\* Every step keeps the order of the versions.
LEMMA NextData == TypeOK /\ ControlInv /\ DataInv /\ [Next]_vars => DataInv'
<1> SUFFICES ASSUME TypeOK, ControlInv, DataInv, [Next]_vars PROVE DataInv'
    OBVIOUS
<1>1. ASSUME NEW t \in Tasks, WorkerStep(t) PROVE DataInv'
      BY <1>1, WorkerStepData
<1>2. ASSUME NEW c \in Callers, NEW S \in SUBSET Emails, UpdateUsers(c, S) PROVE DataInv'
      BY <1>2, SubmitData DEF UpdateUsers
<1>3. ASSUME \/ \E c \in Callers : EnsureAfterWait(c)
             \/ \E t \in Tasks : IdleTimeout(t) \/ ChunkAcquire(t)
      PROVE  DataInv'
      <2>1. UNCHANGED <<pendingUsers, batch, latest, taken, acked, discarded>>
            BY <1>3 DEF EnsureAfterWait, IdleTimeout, ChunkAcquire, queueVars, history
      <2> QED BY <2>1 DEF DataInv, OrderInv, QueueNewerThanBatch, NoLostUpdate
<1>4. CASE WorkerNext
      BY <1>1, <1>2, <1>3, <1>4 DEF WorkerNext
<1>5. ASSUME UNCHANGED <<batch, latest, taken, acked>>,
             \/ UNCHANGED <<pendingUsers, workAvailable, discarded>>
             \/ ClearQueue /\ discarded' = Later(discarded, pendingUsers)
      PROVE  DataInv'
      BY <1>5, CallData DEF ClearQueue
<1>6. CASE ~WorkerNext
      <2>1. /\ UNCHANGED <<batch, latest, taken, acked>>
            /\ \/ UNCHANGED <<pendingUsers, workAvailable, discarded>>
               \/ ClearQueue /\ discarded' = Later(discarded, pendingUsers)
            BY <1>6, OperationUsers DEF Next
      <2> QED BY <2>1, <1>5
<1> QED BY <1>4, <1>6

IInv == TypeOK /\ ControlInv /\ DataInv

\* The inductive invariant: types, the discipline of tasks and locks, and the
\* order of the versions.
THEOREM Invariant == Spec => []IInv
<1>1. Init => IInv
      <2>1. Init => TypeOK
            BY InitType
      <2>2. Init => ControlInv
            BY WorkerAssumption
            DEF WorkerAssumption, Init, WorkerInit, ControlInv, SingleWorker, Alive, Joining
      <2>3. Init => DataInv
            BY DEF Init, WorkerInit, PendingInit, DataInv, OrderInv, QueueNewerThanBatch,
                   NoLostUpdate, NoUsers, Absent
      <2> QED BY <2>1, <2>2, <2>3 DEF IInv
<1>2. IInv /\ [Next]_vars => IInv'
      BY NextType, NextControl, NextData DEF IInv
<1> QED BY <1>1, <1>2, PTL DEF Spec

\* There is never more than one worker, and it is the one a disconnect cancels.
THEOREM OneWorker == Spec => []SingleWorker
<1>1. IInv => SingleWorker
      BY DEF IInv, ControlInv
<1> QED BY <1>1, Invariant, PTL

\* No update is lost: the latest version of every user is sent, given up by a
\* flush or a disconnect, queued or under way.
THEOREM UpdatesKept == Spec => []NoLostUpdate
<1>1. IInv => NoLostUpdate
      BY DEF IInv, DataInv
<1> QED BY <1>1, Invariant, PTL

\* The version that waits is newer than the one under way.
THEOREM QueueNewer == Spec => []QueueNewerThanBatch
<1>1. IInv => QueueNewerThanBatch
      BY DEF IInv, DataInv
<1> QED BY <1>1, Invariant, PTL

\* Whole-node requests exclude each other, and who joins the worker holds both
\* locks.
THEOREM RequestsExclusive == Spec => []LocksGuardRequests
<1>1. IInv => LocksGuardRequests
      BY DEF IInv, ControlInv, LocksGuardRequests
<1> QED BY <1>1, Invariant, PTL

\* The versions of a user are sent in the order they were submitted.
THEOREM OrderedSends == Spec => SendsInOrder
<1>1. ASSUME IInv, [Next]_vars
      PROVE  [\A e \in Emails : taken'[e] >= taken[e]]_taken
      <2>1. ASSUME NEW e \in Emails
            PROVE  /\ taken[e] \in Nat
                   /\ pendingUsers[e] # Absent => taken[e] <= pendingUsers[e]
            BY <1>1 DEF IInv, TypeOK, WorkerTypeOK, Users, DataInv, OrderInv
      <2>2. ASSUME NEW t \in Tasks, NEW place, NEW users \in Users, LoopEffect(t, place, users)
            PROVE  \A e \in Emails : taken'[e] >= taken[e]
            BY <2>1, <2>2, NoUsersEmpty DEF LoopEffect, Absent
      <2>3. ASSUME NEW t \in Tasks, WorkerStep(t)
            PROVE  taken' = taken \/ \A e \in Emails : taken'[e] >= taken[e]
            <3>1. CASE WorkerFirstStep(t) \/ WorkerWake(t) \/ SleepOver(t)
                  BY <1>1, <3>1, <2>2, LoopEffects DEF WorkerFirstStep, WorkerWake, SleepOver, IInv
            <3>2. CASE BatchReturns(t) \/ ChunkReturns(t)
                  <4>1. PICK F \in SUBSET KeysOf(batch[t]) : Settle(t, F)
                        BY <3>2 DEF BatchReturns, ChunkReturns
                  <4>2. wpc[t] \in Sending
                        BY <3>2 DEF BatchReturns, ChunkReturns, Sending
                  <4>3. PICK place \in TaskPlaces \ {"cancelled"}, users \in Users :
                            SettleEffect(t, F, place, users)
                        BY <1>1, <4>1, <4>2, SettleEffects DEF IInv
                  <4> QED BY <4>3, <2>2 DEF SettleEffect
            <3>3. CASE WorkerExpire(t) \/ WorkerCancelled(t)
                  BY <3>3 DEF WorkerExpire, WorkerCancelled
            <3> QED BY <2>3, <3>1, <3>2, <3>3 DEF WorkerStep
      <2>4. ASSUME \/ \E c \in Callers : EnsureAfterWait(c)
                   \/ \E c \in Callers, S \in SUBSET Emails : UpdateUsers(c, S)
                   \/ \E t \in Tasks : IdleTimeout(t) \/ ChunkAcquire(t)
            PROVE  taken' = taken
            BY <2>4 DEF EnsureAfterWait, UpdateUsers, IdleTimeout, ChunkAcquire, history
      <2>5. CASE WorkerNext
            BY <2>3, <2>4, <2>5 DEF WorkerNext
      <2>6. CASE ~WorkerNext
            BY <1>1, <2>6, OperationUsers DEF Next
      <2> QED BY <2>5, <2>6
<1> QED BY <1>1, Invariant, PTL DEF Spec, SendsInOrder

-----------------------------------------------------------------------------
(* The mailbox: the queue is the queue of UserMailbox, and what the known    *)
(* worker holds is the batch under way.                                      *)

\* The mailbox's empty batch is the empty dictionary.
LEMMA NoneIsNoUsers == Mailbox!None = NoUsers
BY DEF Mailbox!None, NoUsers, Absent

-----------------------------------------------------------------------------
(* The batch under way *)

\* A task that is alive is the known worker.
LEMMA KnownWorker ==
    ASSUME TypeOK, ControlInv, NEW t \in Tasks, Alive(t)
    PROVE  syncWorkerTask = t /\ UnderWay = batch[t]
BY WorkerAssumption DEF WorkerAssumption, ControlInv, SingleWorker, UnderWay

\* A finished task holds nothing.
LEMMA FinishedHoldsNothing ==
    ASSUME TypeOK, ControlInv, NEW t \in Tasks, ~Alive(t)
    PROVE  batch[t] = NoUsers
BY DEF ControlInv, Alive, Sending

\* A new worker, or none, starts with an empty batch, as the finished one ended.
LEMMA UnderWayKept ==
    ASSUME TypeOK, ControlInv, UNCHANGED batch,
           \/ UNCHANGED syncWorkerTask
           \/ ~WorkerAlive /\ (syncWorkerTask' = NoTask
                                 \/ \E t \in Tasks : ~Alive(t) /\ syncWorkerTask' = t)
    PROVE  UnderWay' = UnderWay
<1>1. CASE UNCHANGED syncWorkerTask
      BY <1>1 DEF UnderWay
<1>2. CASE ~UNCHANGED syncWorkerTask
      <2>1. UnderWay = NoUsers
            BY <1>2, FinishedHoldsNothing DEF UnderWay, WorkerAlive, TypeOK, WorkerTypeOK
      <2>2. UnderWay' = NoUsers
            BY <1>2, FinishedHoldsNothing DEF UnderWay
      <2> QED BY <2>1, <2>2
<1> QED BY <1>1, <1>2

\* A step that moves an unfinished task moves the known worker.
LEMMA UnderWayMoved ==
    ASSUME TypeOK, ControlInv, NEW t \in Tasks, Alive(t), UNCHANGED syncWorkerTask,
           NEW users, batch' = [batch EXCEPT ![t] = users]
    PROVE  UnderWay' = users
<1>1. syncWorkerTask' = t /\ t # NoTask
      BY KnownWorker, WorkerAssumption DEF WorkerAssumption
<1>2. batch'[t] = users
      BY DEF TypeOK, WorkerTypeOK
<1> QED BY <1>1, <1>2 DEF UnderWay

-----------------------------------------------------------------------------
(* Every step is a step of the mailbox, or none *)

\* An update is a submission.
LEMMA UpdateSubmits ==
    ASSUME TypeOK, ControlInv, NEW c \in Callers, NEW S \in SUBSET Emails, UpdateUsers(c, S)
    PROVE  Mailbox!Submit(S)
<1>1. pendingUsers' = [e \in Emails |-> IF e \in S THEN latest'[e] ELSE pendingUsers[e]]
      BY DEF UpdateUsers, QueueUsers, NextVersions, Absent, TypeOK, WorkerTypeOK, Users
<1>2. UnderWay' = UnderWay
      BY UnderWayKept DEF UpdateUsers, EnsureWorker
<1> QED BY <1>1, <1>2 DEF UpdateUsers, Mailbox!Submit

\* A round of the worker that is not sending takes the queue, or nothing.
LEMMA RoundTakes ==
    ASSUME TypeOK, ControlInv, NEW t \in Tasks, wpc[t] \in {"created", "woken", "asleep"},
           LoopHead(t) \/ CheckHealth(t), UNCHANGED <<syncWorkerTask, latest, acked, discarded>>
    PROVE  Mailbox!Take \/ UNCHANGED Mailbox!mailbox
<1>1. PICK place \in TaskPlaces \ {"cancelled"}, users \in Users : LoopEffect(t, place, users)
      BY LoopEffects
<1>2. Alive(t) /\ UnderWay = NoUsers
      BY KnownWorker DEF Alive, ControlInv, Sending
<1>3. UnderWay' = users
      BY <1>1, <1>2, UnderWayMoved DEF LoopEffect
<1> QED BY <1>1, <1>2, <1>3, NoneIsNoUsers DEF LoopEffect, Mailbox!Take, Mailbox!mailbox

\* The outcome of a sync settles the batch.
LEMMA OutcomeSettles ==
    ASSUME TypeOK, ControlInv, NEW t \in Tasks, wpc[t] \in Sending,
           NEW F \in SUBSET KeysOf(batch[t]), Settle(t, F)
    PROVE  Mailbox!Settle(F)
<1>1. PICK place \in TaskPlaces \ {"cancelled"}, users \in Users : SettleEffect(t, F, place, users)
      BY SettleEffects
<1>2. Alive(t) /\ UnderWay = batch[t]
      BY KnownWorker DEF Alive, Sending
<1>3. UnderWay' = users
      BY <1>1, <1>2, UnderWayMoved DEF SettleEffect, LoopEffect, Settle, LoopVars
<1> DEFINE sent == [e \in Emails |-> IF e \in F THEN 0 ELSE UnderWay[e]]
           back == [e \in Emails |-> IF e \in F THEN UnderWay[e] ELSE 0]
<1>4. acked' = Mailbox!Over(sent, acked)
      BY <1>1, <1>2 DEF SettleEffect, Mailbox!Over, KeysOf, Absent
<1>5. CASE F # {}
      <2>1. back = Only(batch[t], F)
            BY <1>2 DEF Only, Absent
      <2>2. pendingUsers' = Mailbox!Over(pendingUsers, back)
            BY <1>1, <1>5, <2>1 DEF SettleEffect, Mailbox!Over, Absent
      <2>3. UnderWay' = Mailbox!None
            BY <1>1, <1>3, <1>5, NoneIsNoUsers DEF SettleEffect
      <2> QED BY <1>4, <2>2, <2>3 DEF Mailbox!Settle, Settle
<1>6. CASE F = {}
      <2>1. Mailbox!Over(pendingUsers, back) = pendingUsers
            BY <1>6 DEF Mailbox!Over, TypeOK, WorkerTypeOK, Users
      <2>2. \/ UnderWay' = Mailbox!None /\ pendingUsers' = pendingUsers
            \/ UnderWay' = pendingUsers /\ pendingUsers' = Mailbox!None
            BY <1>1, <1>3, <1>6, NoneIsNoUsers DEF SettleEffect, LoopEffect
      <2> QED BY <1>4, <1>6, <2>1, <2>2 DEF Mailbox!Settle, Settle
<1> QED BY <1>5, <1>6

\* A cancelled worker abandons its batch.
LEMMA CancellationAbandons ==
    ASSUME TypeOK, ControlInv, NEW t \in Tasks, WorkerCancelled(t)
    PROVE  Mailbox!Abandon
<1>1. Alive(t) /\ UnderWay = batch[t]
      BY KnownWorker DEF WorkerCancelled, Alive
<1>2. UnderWay' = NoUsers
      BY <1>1, UnderWayMoved DEF WorkerCancelled, LoopVars
<1> QED BY <1>1, <1>2, NoneIsNoUsers
    DEF WorkerCancelled, queueVars, Later, Mailbox!Abandon, Mailbox!Newest

\* What is not a worker's or a caller's step flushes the queue, or nothing.
LEMMA OperationFlushes ==
    ASSUME TypeOK, ControlInv, UNCHANGED vars \/ (Next /\ ~WorkerNext)
    PROVE  Mailbox!Flush \/ UNCHANGED Mailbox!mailbox
<1>1. /\ UNCHANGED <<batch, latest, acked>>
      /\ \/ UNCHANGED <<pendingUsers, discarded>>
         \/ pendingUsers' = NoUsers /\ discarded' = Later(discarded, pendingUsers)
      BY OperationUsers DEF Next, ClearQueue
<1>2. UNCHANGED syncWorkerTask \/ (~WorkerAlive /\ syncWorkerTask' = NoTask)
      <2>1. ASSUME NEW o \in Ops,
                   \/ CallStart(o) \/ StartLocked(o) \/ StartFails(o) \/ StartConnects(o)
                   \/ StartRejected(o) \/ CallStop(o) \/ StopLocked(o)
                   \/ StartCleansUp(o) \/ StopCleansUp(o)
                   \/ SyncUsersLocked(o) \/ RequestReturns(o) \/ CallAbandoned(o)
                   \/ \E flush \in BOOLEAN : CallSyncUsers(o, flush)
            PROVE  UNCHANGED syncWorkerTask
            BY <2>1
            DEF CallStart, StartLocked, StartFails, StartConnects, StartRejected, CallStop,
                StopDirectly, StopQueued, StopLocked, Disconnect, CleanupSyncWorker,
                StartCleansUp, StopCleansUp, CleanupLocked, SyncUsersLocked,
                RequestReturns, CallAbandoned, CallSyncUsers, opUnchanged, workerVars
      <2>2. ASSUME NEW o \in Ops, StartJoined(o) \/ StopJoined(o)
            PROVE  ~WorkerAlive /\ syncWorkerTask' = NoTask
            BY <2>2 DEF StartJoined, StopJoined, Joined
      <2>3. ASSUME \/ FlushPendingUsers \/ UNCHANGED vars
                   \/ \E c \in Callers : UpdateAbandoned(c)
                   \/ \E h \in {"HEALTHY", "BROKEN", "INVALID"} : SetHealth(h)
            PROVE  UNCHANGED syncWorkerTask
            BY <2>3 DEF FlushPendingUsers, UpdateAbandoned, SetHealth, vars, opUnchanged, workerVars
      <2> QED BY <2>1, <2>2, <2>3 DEF Next
<1>3. UnderWay' = UnderWay
      BY <1>1, <1>2, UnderWayKept
<1> QED BY <1>1, <1>3, NoneIsNoUsers
    DEF Later, Mailbox!Flush, Mailbox!Newest, Mailbox!mailbox

\* The node object implements the latest-wins mailbox: what a queue, a worker,
\* two locks and the calls around them do to a user is what the mailbox does.
THEOREM MailboxImplemented == Spec => ImplementsMailbox
<1>1. Init => Mailbox!Init
      BY NoneIsNoUsers DEF Init, WorkerInit, PendingInit, Mailbox!Init, UnderWay
<1>2. IInv /\ [Next]_vars => [Mailbox!Next]_(Mailbox!mailbox)
      <2> SUFFICES ASSUME TypeOK, ControlInv, [Next]_vars
                   PROVE  Mailbox!Next \/ UNCHANGED Mailbox!mailbox
          BY DEF IInv
      <2>1. ASSUME NEW c \in Callers, NEW S \in SUBSET Emails, UpdateUsers(c, S)
            PROVE  Mailbox!Next
            BY <2>1, UpdateSubmits DEF Mailbox!Next
      <2>2. ASSUME \/ \E c \in Callers : EnsureAfterWait(c)
                   \/ \E t \in Tasks : IdleTimeout(t) \/ ChunkAcquire(t) \/ WorkerExpire(t)
            PROVE  UNCHANGED Mailbox!mailbox
            <3>1. UnderWay' = UnderWay
                  BY <2>2, UnderWayKept
                  DEF EnsureAfterWait, EnsureWorker, IdleTimeout, ChunkAcquire, WorkerExpire, LoopVars
            <3> QED BY <2>2, <3>1
                DEF EnsureAfterWait, IdleTimeout, ChunkAcquire, WorkerExpire, queueVars, history,
                    Mailbox!mailbox
      <2>3. ASSUME NEW t \in Tasks, WorkerFirstStep(t) \/ WorkerWake(t) \/ SleepOver(t)
            PROVE  Mailbox!Next \/ UNCHANGED Mailbox!mailbox
            <3>1. /\ wpc[t] \in {"created", "woken", "asleep"} /\ (LoopHead(t) \/ CheckHealth(t))
                  /\ UNCHANGED <<syncWorkerTask, latest, acked, discarded>>
                  BY <2>3 DEF WorkerFirstStep, WorkerWake, SleepOver, LoopVars
            <3> QED BY <3>1, RoundTakes DEF Mailbox!Next
      <2>4. ASSUME NEW t \in Tasks, BatchReturns(t) \/ ChunkReturns(t)
            PROVE  Mailbox!Next
            <3>1. PICK F \in SUBSET KeysOf(batch[t]) : Settle(t, F)
                  BY <2>4 DEF BatchReturns, ChunkReturns
            <3>2. Mailbox!Settle(F)
                  BY <2>4, <3>1, OutcomeSettles DEF BatchReturns, ChunkReturns, Sending
            <3> QED BY <3>2 DEF KeysOf, Mailbox!Next
      <2>5. ASSUME NEW t \in Tasks, WorkerCancelled(t)
            PROVE  Mailbox!Next
            BY <2>5, CancellationAbandons DEF Mailbox!Next
      <2>6. CASE WorkerNext
            BY <2>1, <2>2, <2>3, <2>4, <2>5, <2>6 DEF WorkerNext, WorkerStep
      <2>7. CASE ~WorkerNext
            BY <2>7, OperationFlushes DEF Mailbox!Next
      <2> QED BY <2>6, <2>7
<1> QED BY <1>1, <1>2, Invariant, PTL DEF Spec, ImplementsMailbox, Mailbox!Spec
=============================================================================
