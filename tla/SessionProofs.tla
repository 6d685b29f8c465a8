--------------------------- MODULE SessionProofs ---------------------------
(***************************************************************************)
(* Proofs about the sessions of NodeBridge: the health, the hard-reset     *)
(* event, the event of the queue, what a closed session leaves behind, and *)
(* the worker that queued users of a connected node have. They rest on the *)
(* inductive invariant of NodeBridgeProofs.                                *)
(***************************************************************************)
EXTENDS NodeBridgeProofs

\* The actions that assign neither the health nor the versions.
LEMMA HealthKept ==
    ASSUME WorkerNext \/ FlushPendingUsers \/ (\E c \in Callers : UpdateAbandoned(c))
           \/ \E o \in Ops :
                \/ CallStart(o) \/ StartLocked(o) \/ StartFails(o) \/ StopQueued(o)
                \/ SyncUsersLocked(o) \/ RequestReturns(o) \/ CallAbandoned(o)
                \/ \E flush \in BOOLEAN : CallSyncUsers(o, flush)
    PROVE  UNCHANGED sessionVars
<1>1. ASSUME WorkerNext PROVE UNCHANGED sessionVars
      <2>1. ASSUME NEW t \in Tasks, WorkerStep(t) PROVE UNCHANGED sessionVars
            BY <2>1
            DEF WorkerStep, WorkerFirstStep, WorkerWake, SleepOver, WorkerExpire,
                WorkerCancelled, BatchReturns, ChunkReturns, Settle, LoopVars
      <2>2. ASSUME NEW t \in Tasks, IdleTimeout(t) \/ ChunkAcquire(t) PROVE UNCHANGED sessionVars
            BY <2>2 DEF IdleTimeout, ChunkAcquire, LoopVars
      <2> QED BY <1>1, <2>1, <2>2 DEF WorkerNext, UpdateUsers, EnsureAfterWait
<1> QED BY <1>1 DEF FlushPendingUsers, UpdateAbandoned, CallStart, StartLocked, StartFails, StopQueued,
                    SyncUsersLocked, RequestReturns, CallAbandoned, CallSyncUsers

\* The steps of a call that neither begin nor end the wait of a disconnect.
LEMMA LockingKept ==
    ASSUME TypeOK, NEW o \in Ops,
           \/ CallStart(o) \/ StartLocked(o) \/ StartFails(o) \/ StartConnects(o)
           \/ StopQueued(o) /\ opc[o] = "idle"
           \/ SyncUsersLocked(o) \/ RequestReturns(o) \/ CallAbandoned(o)
           \/ \E flush \in BOOLEAN : CallSyncUsers(o, flush)
    PROVE  \A p \in Ops : /\ opc'[p] \in Locking <=> opc[p] \in Locking
                          /\ opc'[p] \in Joining <=> opc[p] \in Joining
BY DEF CallStart, StartLocked, StartFails, StartConnects, StopQueued, SyncUsersLocked,
       RequestReturns, CallAbandoned, CallSyncUsers, Acquire, Handed, Locking, Joining, TypeOK

-----------------------------------------------------------------------------
(* INVALID *)

\* Whatever interleaves, an INVALID node stays INVALID.
THEOREM InvalidForGood == Spec => InvalidIsPermanent
<1>1. ASSUME NEW h \in Healths, health' = HealthAssigned(h), health = "INVALID"
      PROVE  health' = "INVALID"
      BY <1>1 DEF HealthAssigned
<1>2. ASSUME NEW o \in Ops, NEW l, NEW p, NEW q, NEW k, health = "INVALID",
             Disconnect(o, l, p, q, k) \/ CleanupLocked(o, l, p, q)
      PROVE  health' = "INVALID"
      BY <1>1, <1>2 DEF Disconnect, CleanupLocked, CleanupSyncWorker, CloseSession, Healths
<1>3. ASSUME NEW o \in Ops, NEW q, Joined(o, q), health = "INVALID"
      PROVE  health' = "INVALID"
      BY <1>1, <1>3 DEF Joined, CloseSession, Healths
<1>4. ASSUME NEW h \in {"HEALTHY", "BROKEN", "INVALID"}, SetHealth(h), health = "INVALID"
      PROVE  health' = "INVALID"
      BY <1>1, <1>4 DEF SetHealth, Healths
<1>5. ASSUME Next, health = "INVALID" PROVE health' = "INVALID"
      <2>1. ASSUME NEW o \in Ops,
                   \/ StartConnects(o) \/ StartRejected(o) \/ StartCleansUp(o) \/ StartJoined(o)
                   \/ CallStop(o) \/ StopLocked(o) \/ StopCleansUp(o) \/ StopJoined(o)
            PROVE  health' = "INVALID"
            BY <1>2, <1>3, <1>5, <2>1, HealthKept
            DEF StartConnects, StartRejected, StartCleansUp, StartJoined, CallStop, StopDirectly,
                StopLocked, StopCleansUp, StopJoined, sessionVars
      <2>2. ASSUME WorkerNext \/ FlushPendingUsers \/ (\E c \in Callers : UpdateAbandoned(c))
                   \/ \E o \in Ops :
                        \/ CallStart(o) \/ StartLocked(o) \/ StartFails(o) \/ StopQueued(o)
                        \/ SyncUsersLocked(o) \/ RequestReturns(o) \/ CallAbandoned(o)
                        \/ \E flush \in BOOLEAN : CallSyncUsers(o, flush)
            PROVE  health' = "INVALID"
            BY <1>5, <2>2, HealthKept DEF sessionVars
      <2> QED BY <1>4, <1>5, <2>1, <2>2 DEF Next
<1>6. [Next]_vars => [health = "INVALID" => health' = "INVALID"]_health
      BY <1>5 DEF vars
<1> QED BY <1>6, PTL DEF Spec, InvalidIsPermanent

-----------------------------------------------------------------------------
(* Versions and health *)

\* Versions and health change together, whichever call assigns them.
THEOREM VersionsFollowHealth == Spec => []VersionsMatchHealth
<1>1. Init => VersionsMatchHealth
      BY DEF Init, WorkerInit, NodeStateInit, VersionsMatchHealth, Connected
<1>2. TypeOK /\ VersionsMatchHealth /\ [Next]_vars => VersionsMatchHealth'
      <2> SUFFICES ASSUME TypeOK, VersionsMatchHealth, [Next]_vars
                   PROVE  VersionsMatchHealth'
          OBVIOUS
      <2>1. ASSUME UNCHANGED sessionVars PROVE VersionsMatchHealth'
            BY <2>1 DEF sessionVars, VersionsMatchHealth
      <2>2. ASSUME CloseSession PROVE VersionsMatchHealth'
            BY <2>2 DEF CloseSession, HealthAssigned, VersionsMatchHealth, Connected
      <2>3. ASSUME NEW o \in Ops, NEW l, NEW p, NEW q, NEW k,
                   Disconnect(o, l, p, q, k)
                     \/ (CleanupLocked(o, l, p, q) /\ k = versionsKnown),
                   k = versionsKnown \/ (k = TRUE /\ health = "INVALID")
            PROVE  VersionsMatchHealth'
            BY <2>2, <2>3
            DEF Disconnect, CleanupLocked, CleanupSyncWorker, VersionsMatchHealth, Connected
      <2>4. ASSUME NEW o \in Ops,
                   \/ StartRejected(o) \/ StartCleansUp(o)
                   \/ CallStop(o) \/ StopLocked(o) \/ StopCleansUp(o)
            PROVE  VersionsMatchHealth'
            BY <2>1, <2>3, <2>4, HealthKept
            DEF StartRejected, StartCleansUp, StopLocked, StopCleansUp, CallStop, StopDirectly
      <2>5. ASSUME NEW o \in Ops, StartJoined(o) \/ StopJoined(o)
            PROVE  VersionsMatchHealth'
            BY <2>2, <2>5 DEF StartJoined, StopJoined, Joined
      <2>6. ASSUME NEW o \in Ops, StartConnects(o) PROVE VersionsMatchHealth'
            BY <2>6 DEF StartConnects, VersionsMatchHealth
      <2>7. ASSUME NEW h \in {"HEALTHY", "BROKEN", "INVALID"}, SetHealth(h)
            PROVE  VersionsMatchHealth'
            BY <2>7 DEF SetHealth, HealthAssigned, VersionsMatchHealth, Connected, Healths,
                        TypeOK, WorkerTypeOK, NodeStateTypeOK
      <2>8. ASSUME WorkerNext \/ FlushPendingUsers \/ (\E c \in Callers : UpdateAbandoned(c))
                   \/ \E o \in Ops :
                        \/ CallStart(o) \/ StartLocked(o) \/ StartFails(o)
                        \/ SyncUsersLocked(o) \/ RequestReturns(o) \/ CallAbandoned(o)
                        \/ \E flush \in BOOLEAN : CallSyncUsers(o, flush)
            PROVE  VersionsMatchHealth'
            BY <2>1, <2>8, HealthKept
      <2>9. CASE UNCHANGED vars
            BY <2>1, <2>9 DEF vars, sessionVars
      <2> QED BY <2>4, <2>5, <2>6, <2>7, <2>8, <2>9 DEF Next
<1> QED BY <1>1, <1>2, TypeCorrect, PTL DEF Spec

-----------------------------------------------------------------------------
(* Versions and disconnects *)

\* Versions outlive a shutdown only while its disconnect is under way.
THEOREM ShutDownForgets == Spec => []ShutDownForgetsVersions
<1>1. Init => ShutDownForgetsVersions
      BY DEF Init, WorkerInit, NodeStateInit, ShutDownForgetsVersions
<1>2. TypeOK /\ ShutDownForgetsVersions /\ [Next]_vars => ShutDownForgetsVersions'
      <2> SUFFICES ASSUME TypeOK, ShutDownForgetsVersions, [Next]_vars
                   PROVE  ShutDownForgetsVersions'
          OBVIOUS
      <2>1. ASSUME UNCHANGED <<versionsKnown, shutdownEvent>>,
                   \A p \in Ops : opc[p] \in Locking \cup Joining => opc'[p] \in Locking \cup Joining
            PROVE  ShutDownForgetsVersions'
            BY <2>1 DEF ShutDownForgetsVersions
      <2>2. ASSUME ~(shutdownEvent' /\ versionsKnown') PROVE ShutDownForgetsVersions'
            BY <2>2 DEF ShutDownForgetsVersions
      <2>3. ASSUME NEW o \in Ops, NEW l \in Locking, NEW p \in Joining, NEW q, NEW k,
                   Disconnect(o, l, p, q, k) \/ CleanupLocked(o, l, p, q)
            PROVE  ShutDownForgetsVersions'
            BY <2>3 DEF Disconnect, CleanupLocked, CleanupSyncWorker, CloseSession, TypeOK,
                        ShutDownForgetsVersions
      <2>4. ASSUME NEW o \in Ops,
                   \/ StartRejected(o) \/ StartCleansUp(o) \/ StopLocked(o) \/ StopCleansUp(o)
                   \/ (CallStop(o) /\ StopDirectly(o))
            PROVE  ShutDownForgetsVersions'
            BY <2>3, <2>4
            DEF StartRejected, StartCleansUp, StopLocked, StopCleansUp, CallStop, StopDirectly,
                Locking, Joining
      <2>5. ASSUME NEW o \in Ops, StartJoined(o) \/ StopJoined(o) \/ StartConnects(o)
            PROVE  ShutDownForgetsVersions'
            BY <2>2, <2>5 DEF StartJoined, StopJoined, Joined, CloseSession, StartConnects
      <2>6. ASSUME NEW o \in Ops,
                   \/ CallStart(o) \/ StartLocked(o) \/ StartFails(o)
                   \/ (CallStop(o) /\ StopQueued(o))
                   \/ SyncUsersLocked(o) \/ RequestReturns(o) \/ CallAbandoned(o)
                   \/ \E flush \in BOOLEAN : CallSyncUsers(o, flush)
            PROVE  ShutDownForgetsVersions'
            BY <2>1, <2>6, HealthKept, LockingKept DEF sessionVars, CallStop
      <2>7. ASSUME \/ WorkerNext /\ UNCHANGED opc
                   \/ FlushPendingUsers
                   \/ \E c \in Callers : UpdateAbandoned(c)
                   \/ \E h \in {"HEALTHY", "BROKEN", "INVALID"} : SetHealth(h)
                   \/ UNCHANGED vars
            PROVE  ShutDownForgetsVersions'
            <3>1. UNCHANGED <<versionsKnown, shutdownEvent>>
                  BY <2>7, HealthKept DEF sessionVars, SetHealth, vars
            <3>2. UNCHANGED opc
                  BY <2>7 DEF FlushPendingUsers, UpdateAbandoned, SetHealth, vars
            <3> QED BY <2>1, <3>1, <3>2
      <2> QED BY <2>4, <2>5, <2>6, <2>7 DEF Next, CallStop
<1> QED BY <1>1, <1>2, TypeCorrect, PTL DEF Spec

-----------------------------------------------------------------------------
(* The hard-reset event *)

\* The actions that leave the failures alone.
LEMMA FailuresKept ==
    ASSUME TypeOK, Next
    PROVE  \/ UNCHANGED failureVars
           \/ ResetFailures
           \/ IncrementFailure
<1>1. ASSUME NEW t \in Tasks, WorkerStep(t)
      PROVE  UNCHANGED failureVars \/ ResetFailures \/ IncrementFailure
      BY <1>1
      DEF WorkerStep, WorkerFirstStep, WorkerWake, SleepOver, WorkerExpire, WorkerCancelled,
          BatchReturns, ChunkReturns, Settle
<1>2. ASSUME NEW t \in Tasks, IdleTimeout(t) \/ ChunkAcquire(t)
      PROVE  UNCHANGED failureVars
      BY <1>2 DEF IdleTimeout, ChunkAcquire
<1>3. CASE WorkerNext
      BY <1>1, <1>2, <1>3 DEF WorkerNext, UpdateUsers, EnsureAfterWait
<1>4. ASSUME NEW o \in Ops,
             \/ CallStart(o) \/ StartLocked(o) \/ StartFails(o) \/ StartConnects(o)
             \/ StartRejected(o) \/ StartCleansUp(o) \/ StartJoined(o) \/ CallStop(o)
             \/ StopLocked(o) \/ StopCleansUp(o) \/ StopJoined(o) \/ SyncUsersLocked(o)
             \/ RequestReturns(o) \/ CallAbandoned(o)
             \/ \E flush \in BOOLEAN : CallSyncUsers(o, flush)
      PROVE  UNCHANGED failureVars \/ ResetFailures
      BY <1>4
      DEF CallStart, StartLocked, StartFails, StartConnects, StartRejected, StartCleansUp,
          StartJoined, CallStop, StopLocked, StopCleansUp, StopJoined, SyncUsersLocked,
          RequestReturns, CallAbandoned, CallSyncUsers, CleanupLocked, Joined
<1>5. ASSUME \/ FlushPendingUsers
             \/ \E c \in Callers : UpdateAbandoned(c)
             \/ \E h \in {"HEALTHY", "BROKEN", "INVALID"} : SetHealth(h)
      PROVE  UNCHANGED failureVars
      BY <1>5 DEF FlushPendingUsers, UpdateAbandoned, SetHealth
<1> QED BY <1>3, <1>4, <1>5 DEF Next

\* A hard reset is requested exactly while the failures have reached the
\* threshold, over the worker's batches and the connects between them.
THEOREM HardResetExact == Spec => []HardResetMatchesCount
<1>1. Init => HardResetMatchesCount
      BY ThresholdAssumption
      DEF ThresholdAssumption, Init, WorkerInit, NodeStateInit, HardResetMatchesCount
<1>2. TypeOK /\ HardResetMatchesCount /\ [Next]_vars => HardResetMatchesCount'
      <2> SUFFICES ASSUME TypeOK, HardResetMatchesCount, [Next]_vars
                   PROVE  HardResetMatchesCount'
          OBVIOUS
      <2>1. CASE UNCHANGED failureVars
            BY <2>1 DEF failureVars, HardResetMatchesCount
      <2>2. CASE ResetFailures
            BY <2>2, ThresholdAssumption
            DEF ThresholdAssumption, ResetFailures, HardResetMatchesCount
      <2>3. CASE IncrementFailure
            <3>1. failureCount >= HardResetThreshold => failureCount' >= HardResetThreshold
                  BY <2>3, ThresholdAssumption
                  DEF ThresholdAssumption, IncrementFailure, OneMore, TypeOK, WorkerTypeOK,
                      NodeStateTypeOK
            <3> QED BY <2>3, <3>1, Zenon DEF IncrementFailure, HardResetMatchesCount
      <2> QED BY <2>1, <2>2, <2>3, FailuresKept DEF vars, failureVars
<1> QED BY <1>1, <1>2, TypeCorrect, PTL DEF Spec

-----------------------------------------------------------------------------
(* The event of the queue *)

\* A round of the worker clears the queue and the event, or touches neither.
LEMMA LoopQueue ==
    ASSUME NEW t \in Tasks, LoopHead(t) \/ CheckHealth(t)
    PROVE  UNCHANGED queueVars \/ ClearQueue
<1>1. CheckHealth(t) => UNCHANGED queueVars \/ ClearQueue
      BY DEF CheckHealth, Dispatch, DrainNothing
<1> QED BY <1>1 DEF LoopHead

\* Every step is one of the operations of PendingUsers, or none.
LEMMA QueueOperations ==
    ASSUME TypeOK, Next
    PROVE  \/ UNCHANGED queueVars
           \/ ClearQueue
           \/ \E users \in Users : QueueUsers(users) /\ users # NoUsers
           \/ \E users \in Users : RequeueUsers(users)
<1>1. ASSUME NEW t \in Tasks, BatchReturns(t) \/ ChunkReturns(t)
      PROVE  \/ UNCHANGED queueVars \/ ClearQueue
             \/ \E users \in Users : RequeueUsers(users)
      <2>1. PICK F \in SUBSET KeysOf(batch[t]) : Settle(t, F)
            BY <1>1 DEF BatchReturns, ChunkReturns
      <2>2. Only(batch[t], F) \in Users
            BY DictionaryTypes DEF TypeOK, WorkerTypeOK, KeysOf
      <2> QED BY <2>1, <2>2, LoopQueue DEF Settle
<1>2. ASSUME NEW t \in Tasks, WorkerStep(t)
      PROVE  \/ UNCHANGED queueVars \/ ClearQueue
             \/ \E users \in Users : RequeueUsers(users)
      BY <1>1, <1>2, LoopQueue
      DEF WorkerStep, WorkerFirstStep, WorkerWake, SleepOver, WorkerExpire, WorkerCancelled
<1>3. ASSUME NEW c \in Callers, NEW S \in SUBSET Emails, UpdateUsers(c, S)
      PROVE  \E users \in Users : QueueUsers(users) /\ users # NoUsers
      <2>1. NextVersions(S) \in Users
            BY DEF NextVersions, Users, Absent, TypeOK, WorkerTypeOK
      <2>2. PICK e \in S : NextVersions(S)[e] = latest[e] + 1 /\ latest[e] \in Nat
            BY <1>3 DEF UpdateUsers, NextVersions, TypeOK, WorkerTypeOK, Users
      <2>3. NextVersions(S) # NoUsers
            BY <2>2 DEF NoUsers, Absent
      <2> QED BY <1>3, <2>1, <2>3 DEF UpdateUsers
<1>4. ASSUME \/ \E c \in Callers : EnsureAfterWait(c)
             \/ \E t \in Tasks : IdleTimeout(t) \/ ChunkAcquire(t)
      PROVE  UNCHANGED queueVars
      BY <1>4 DEF EnsureAfterWait, IdleTimeout, ChunkAcquire
<1>5. CASE WorkerNext
      BY <1>2, <1>3, <1>4, <1>5 DEF WorkerNext
<1>6. ASSUME NEW o \in Ops,
             \/ CallStart(o) \/ StartLocked(o) \/ StartFails(o) \/ StartConnects(o)
             \/ SyncUsersLocked(o) \/ RequestReturns(o) \/ CallAbandoned(o)
             \/ \E flush \in BOOLEAN : CallSyncUsers(o, flush)
      PROVE  UNCHANGED queueVars \/ ClearQueue
      BY <1>6 DEF CallStart, StartLocked, StartFails, StartConnects, SyncUsersLocked,
                  RequestReturns, CallAbandoned, CallSyncUsers, opUnchanged, FlushQueue
<1>7. ASSUME NEW o \in Ops,
             \/ StartRejected(o) \/ StartCleansUp(o) \/ StartJoined(o)
             \/ CallStop(o) \/ StopLocked(o) \/ StopCleansUp(o) \/ StopJoined(o)
      PROVE  UNCHANGED queueVars \/ ClearQueue
      BY <1>7 DEF StartRejected, StartCleansUp, StartJoined, CallStop, StopDirectly, StopQueued,
                  StopLocked, StopCleansUp, StopJoined, Joined, Disconnect, CleanupLocked,
                  CleanupSyncWorker, CloseSession
<1>8. ASSUME \/ FlushPendingUsers
             \/ \E c \in Callers : UpdateAbandoned(c)
             \/ \E h \in {"HEALTHY", "BROKEN", "INVALID"} : SetHealth(h)
      PROVE  UNCHANGED queueVars \/ ClearQueue
      BY <1>8 DEF FlushPendingUsers, UpdateAbandoned, FlushQueue, SetHealth, opUnchanged
<1> QED BY <1>5, <1>6, <1>7, <1>8 DEF Next

\* The event is set exactly while something is queued.
THEOREM EventExact == Spec => []EventMatchesQueue
<1>1. Init => EventMatchesQueue
      BY DEF Init, WorkerInit, PendingInit, EventMatchesQueue
<1>2. TypeOK /\ EventMatchesQueue /\ [Next]_vars => EventMatchesQueue'
      <2> SUFFICES ASSUME TypeOK, EventMatchesQueue, [Next]_vars PROVE EventMatchesQueue'
          OBVIOUS
      <2>1. CASE UNCHANGED queueVars
            BY <2>1 DEF queueVars, EventMatchesQueue
      <2>2. CASE ClearQueue
            BY <2>2 DEF ClearQueue, EventMatchesQueue
      <2>3. ASSUME NEW users \in Users, QueueUsers(users), users # NoUsers
            PROVE  EventMatchesQueue'
            <3>1. PICK e \in Emails : users[e] # Absent
                  BY <2>3 DEF Users, NoUsers
            <3>2. pendingUsers'[e] # Absent
                  BY <2>3, <3>1 DEF QueueUsers
            <3> QED BY <2>3, <3>2 DEF QueueUsers, EventMatchesQueue, NoUsers
      <2>4. ASSUME NEW users \in Users, RequeueUsers(users)
            PROVE  EventMatchesQueue'
            <3>1. ASSUME pendingUsers # NoUsers PROVE pendingUsers' # NoUsers
                  <4>1. PICK e \in Emails : pendingUsers[e] # Absent
                        BY <3>1 DEF TypeOK, WorkerTypeOK, Users, NoUsers
                  <4> QED BY <2>4, <4>1 DEF RequeueUsers, NoUsers
            <3> QED BY <2>4, <3>1, Zenon DEF RequeueUsers, EventMatchesQueue
      <2> QED BY <2>1, <2>2, <2>3, <2>4, QueueOperations DEF vars, queueVars
<1> QED BY <1>1, <1>2, TypeCorrect, PTL DEF Spec

-----------------------------------------------------------------------------
(* What a closed session leaves behind *)

\* A closed session stays clean if the step leaves the queue alone and starts
\* no sending.
QuietStep ==
    /\ UNCHANGED sessionVars
    /\ pendingUsers' \in {pendingUsers, NoUsers}
    /\ \A t \in Tasks : \/ batch'[t] = NoUsers /\ wpc'[t] \notin Sending
                        \/ batch'[t] = batch[t] /\ wpc'[t] = wpc[t]

\* On a node that is not connected a round of the worker serves nobody.
LEMMA ClosedLoop ==
    ASSUME TypeOK, NEW t \in Tasks, health = "NOT_CONNECTED",
           LoopHead(t) \/ CheckHealth(t)
    PROVE  \E place \in {"done", "waiting"} : Move(t, place) /\ pendingUsers' = pendingUsers
<1>1. CheckHealth(t) => Move(t, "done") /\ pendingUsers' = pendingUsers
      BY DEF CheckHealth, queueVars
<1> QED BY <1>1 DEF LoopHead, queueVars

\* Nor does any other step of a worker, for it holds nothing to settle.
LEMMA ClosedWorker ==
    ASSUME TypeOK, SessionClosedClean, NEW t \in Tasks, health = "NOT_CONNECTED",
           WorkerStep(t) \/ IdleTimeout(t) \/ ChunkAcquire(t)
    PROVE  QuietStep
<1> USE DEF TypeOK, WorkerTypeOK
<1>1. ASSUME NEW place \in TaskPlaces \ Sending, wpc' = [wpc EXCEPT ![t] = place],
             batch' \in {batch, [batch EXCEPT ![t] = NoUsers]},
             pendingUsers' = pendingUsers, UNCHANGED sessionVars
      PROVE  QuietStep
      <2>1. \A r \in Tasks : batch'[r] = batch[r] \/ (r = t /\ batch'[r] = NoUsers)
            BY <1>1
      <2>2. \A r \in Tasks : r # t => wpc'[r] = wpc[r] /\ batch'[r] = batch[r]
            BY <1>1
      <2>3. wpc'[t] \notin Sending /\ batch'[t] = NoUsers
            BY <1>1 DEF SessionClosedClean
      <2> QED BY <1>1, <2>2, <2>3 DEF QuietStep
<1>2. UNCHANGED sessionVars
      BY HealthKept DEF WorkerNext
<1>3. CASE WorkerFirstStep(t) \/ WorkerWake(t) \/ SleepOver(t)
      <2>1. PICK place \in {"done", "waiting"} :
                Move(t, place) /\ pendingUsers' = pendingUsers
            BY <1>3, ClosedLoop DEF WorkerFirstStep, WorkerWake, SleepOver
      <2> QED BY <1>1, <1>2, <2>1 DEF Move, TaskPlaces, Sending
<1>4. CASE WorkerExpire(t) \/ WorkerCancelled(t) \/ IdleTimeout(t)
      BY <1>1, <1>2, <1>4
      DEF WorkerExpire, WorkerCancelled, IdleTimeout, queueVars, TaskPlaces, Sending
<1>5. CASE BatchReturns(t) \/ ChunkReturns(t) \/ ChunkAcquire(t)
      BY <1>5 DEF BatchReturns, ChunkReturns, ChunkAcquire, SessionClosedClean, Sending
<1> QED BY <1>3, <1>4, <1>5 DEF WorkerStep

\* If the application updates users on a connected node only, a closed session
\* leaves nothing to be sent in the next one.
THEOREM CleanSessions ==
    ASSUME "NOT_CONNECTED" \notin CallerHealth
    PROVE  Spec => []SessionClosedClean
<1> USE DEF TypeOK, WorkerTypeOK
<1>1. Init => SessionClosedClean
      BY DEF Init, WorkerInit, PendingInit, SessionClosedClean, Sending
<1>2. IInv /\ SessionClosedClean /\ [Next]_vars => SessionClosedClean'
      <2> SUFFICES ASSUME IInv, SessionClosedClean, [Next]_vars PROVE SessionClosedClean'
          OBVIOUS
      <2>1. ASSUME QuietStep PROVE SessionClosedClean'
            BY <2>1 DEF QuietStep, SessionClosedClean, sessionVars
      <2>2. ASSUME health' # "NOT_CONNECTED" PROVE SessionClosedClean'
            BY <2>2 DEF SessionClosedClean
      <2>3. ASSUME CloseSession, ~WorkerAlive, UNCHANGED <<wpc, batch>>
            PROVE  SessionClosedClean'
            <3>1. pendingUsers' = NoUsers
                  BY <2>3 DEF CloseSession, ClearQueue
            <3>2. \A t \in Tasks : wpc[t] = "done" /\ batch[t] = NoUsers
                  BY <2>3 DEF IInv, ControlInv, SingleWorker, WorkerAlive, Alive, Sending
            <3> QED BY <2>3, <3>1, <3>2 DEF SessionClosedClean, Sending
      <2>4. ASSUME NEW c \in Callers, EnsureAfterWait(c) PROVE SessionClosedClean'
            <3>1. UNCHANGED <<health, pendingUsers, batch>>
                  BY <2>4 DEF EnsureAfterWait, sessionVars, queueVars
            <3>2. \A t \in Tasks : wpc'[t] \in {wpc[t], "created"}
                  BY <2>4 DEF EnsureAfterWait, EnsureWorker, IInv
            <3> QED BY <3>1, <3>2 DEF SessionClosedClean, Sending
      <2>5. ASSUME NEW c \in Callers, NEW S \in SUBSET Emails, UpdateUsers(c, S)
            PROVE  SessionClosedClean'
            BY <2>2, <2>5 DEF UpdateUsers, sessionVars
      <2>6. ASSUME NEW t \in Tasks, WorkerStep(t) \/ IdleTimeout(t) \/ ChunkAcquire(t)
            PROVE  SessionClosedClean'
            <3>1. UNCHANGED health
                  BY <2>6, HealthKept DEF WorkerNext, sessionVars
            <3> QED BY <2>1, <2>2, <2>6, <3>1, ClosedWorker DEF IInv
      <2>7. ASSUME NEW o \in Ops, NEW p, NEW q, NEW k, CleanupSyncWorker(o, p, q, k), UNCHANGED batch
            PROVE  SessionClosedClean'
            <3>1. CASE WorkerAlive
                  BY <2>7, <3>1 DEF CleanupSyncWorker, SessionClosedClean, queueVars, WorkerAlive,
                                    Sending, IInv
            <3>2. CASE ~WorkerAlive
                  BY <2>3, <2>7, <3>2 DEF CleanupSyncWorker
            <3> QED BY <3>1, <3>2
      <2>7a. ASSUME NEW o \in Ops, NEW l, NEW p, NEW q, NEW k, UNCHANGED batch,
                    Disconnect(o, l, p, q, k) \/ CleanupLocked(o, l, p, q)
             PROVE  SessionClosedClean'
             BY <2>7, <2>7a DEF Disconnect, CleanupLocked, SessionClosedClean, queueVars
      <2>8. ASSUME NEW o \in Ops,
                   \/ StartRejected(o) \/ StartCleansUp(o) \/ StopLocked(o) \/ StopCleansUp(o)
                   \/ (CallStop(o) /\ StopDirectly(o))
            PROVE  SessionClosedClean'
            BY <2>7a, <2>8
            DEF StartRejected, StartCleansUp, StopLocked, StopCleansUp, CallStop, StopDirectly,
                CleanupLocked
      <2>9. ASSUME NEW o \in Ops, StartJoined(o) \/ StopJoined(o)
            PROVE  SessionClosedClean'
            BY <2>3, <2>9 DEF StartJoined, StopJoined, Joined
      <2>10. ASSUME \/ FlushPendingUsers
                    \/ \E c \in Callers : UpdateAbandoned(c)
                    \/ \E o \in Ops :
                         \/ CallStart(o) \/ StartLocked(o) \/ StartFails(o)
                         \/ (CallStop(o) /\ StopQueued(o))
                         \/ SyncUsersLocked(o) \/ RequestReturns(o) \/ CallAbandoned(o)
                         \/ \E flush \in BOOLEAN : CallSyncUsers(o, flush)
             PROVE  SessionClosedClean'
             <3>1. UNCHANGED <<wpc, batch>> /\ pendingUsers' \in {pendingUsers, NoUsers}
                   BY <2>10
                   DEF FlushPendingUsers, UpdateAbandoned, FlushQueue, ClearQueue, CallStart, StartLocked, StartFails,
                       CallStop, StopQueued, SyncUsersLocked, RequestReturns, CallAbandoned, CallSyncUsers,
                       opUnchanged, workerVars, queueVars
             <3>2. UNCHANGED sessionVars
                   BY <2>10, HealthKept
             <3> QED BY <2>1, <3>1, <3>2 DEF QuietStep
      <2>11. ASSUME NEW h \in {"HEALTHY", "BROKEN", "INVALID"}, SetHealth(h)
             PROVE  SessionClosedClean'
             BY <2>11 DEF SetHealth, HealthAssigned, opUnchanged, workerVars, queueVars,
                          SessionClosedClean
      <2>12. ASSUME NEW o \in Ops, StartConnects(o) PROVE SessionClosedClean'
             BY <2>2, <2>12 DEF StartConnects
      <2>13. CASE UNCHANGED vars
             BY <2>13 DEF vars, SessionClosedClean
      <2>14. CASE WorkerNext
             BY <2>4, <2>5, <2>6, <2>14 DEF WorkerNext
      <2>15. ASSUME NEW o \in Ops, CallStop(o) PROVE SessionClosedClean'
             BY <2>8, <2>10, <2>15 DEF CallStop
      <2> QED BY <2>8, <2>9, <2>10, <2>11, <2>12, <2>13, <2>14, <2>15 DEF Next
<1> QED BY <1>1, <1>2, Invariant, PTL DEF Spec

-----------------------------------------------------------------------------
(* Queued users of a connected node have a worker, apart from the one way in
   which they may be stranded. It needs the queue to be empty when a session
   begins (CleanSessions) and the event to agree with the queue (EventExact):
   then only the idle timer can end a worker that has something to do. *)

\* A disconnect that is over has left no connected node, one that waits for
\* _sync_worker_lock is among its waiters, a worker is cancelled only by a
\* disconnect that joins it, and what is queued has a worker.
WakeInv ==
    /\ (shutdownEvent /\ syncWorkerLock = Free /\ \A o \in Ops : opc[o] \notin Locking)
          => health \notin Connected
    /\ \A o \in Ops : opc[o] \in Locking => o \in syncWaiters
    /\ \A t \in Tasks : wpc[t] = "cancelled" => syncWorkerLock # Free
    /\ (health \in Connected /\ pendingUsers # NoUsers)
          => WorkerAlive \/ ~SyncLockFree \/ stranded

\* A round of the worker goes on, unless there is nothing queued, or the node is
\* not connected, or it is being disconnected.
LEMMA LoopGoesOn ==
    ASSUME TypeOK, NEW t \in Tasks, LoopHead(t) \/ CheckHealth(t)
    PROVE  wpc'[t] # "done" \/ pendingUsers' = NoUsers \/ health \notin Connected
              \/ (LoopHead(t) /\ shutdownEvent)
<1> USE DEF TypeOK, WorkerTypeOK
<1>1. CASE Dispatch(t)
      BY <1>1 DEF Dispatch
<1>2. CASE DrainNothing(t)
      BY <1>2 DEF DrainNothing, ClearQueue
<1>3. CASE Move(t, "waiting") \/ Move(t, "asleep")
      BY <1>3 DEF Move
<1>4. CASE CheckHealth(t)
      BY <1>1, <1>2, <1>3, <1>4 DEF CheckHealth, Connected
<1> QED BY <1>3, <1>4 DEF LoopHead

\* The step of a live worker keeps WakeInv if it goes on, or leaves nothing.
LEMMA MoveWakes ==
    ASSUME TypeOK, ControlInv, WakeInv, NEW t \in Tasks, Alive(t),
           NEW place \in TaskPlaces \ {"cancelled"},
           wpc' = [wpc EXCEPT ![t] = place],
           UNCHANGED <<sessionVars, syncWorkerLock, syncWorkerTask, syncWaiters, opc>>,
           \/ place # "done" \/ pendingUsers' = NoUsers \/ health \notin Connected
           \/ ~SyncLockFree \/ stranded'
    PROVE  WakeInv'
<1> USE DEF TypeOK, WorkerTypeOK, sessionVars
<1>1. (\A s \in Tasks : wpc[s] = "cancelled" => syncWorkerLock # Free)'
      BY DEF WakeInv
<1>2. place # "done" => WorkerAlive'
      BY DEF ControlInv, SingleWorker, WorkerAlive, Alive
<1>3. ((health \in Connected /\ pendingUsers # NoUsers)
          => WorkerAlive \/ ~SyncLockFree \/ stranded)'
      BY <1>2 DEF SyncLockFree
<1>4. (/\ (shutdownEvent /\ syncWorkerLock = Free /\ \A o \in Ops : opc[o] \notin Locking)
            => health \notin Connected
       /\ \A o \in Ops : opc[o] \in Locking => o \in syncWaiters)'
      BY DEF WakeInv
<1> QED BY <1>1, <1>3, <1>4 DEF WakeInv

\* So does every step of a worker.
LEMMA WorkerWakes ==
    ASSUME IInv, WakeInv, EventMatchesQueue, NEW t \in Tasks, UNCHANGED opc,
           WorkerStep(t) \/ IdleTimeout(t) \/ ChunkAcquire(t)
    PROVE  WakeInv'
<1> USE DEF IInv
<1>1. UNCHANGED <<sessionVars, syncWorkerLock, syncWorkerTask, syncWaiters, opc>>
      <2>1. UNCHANGED sessionVars
            BY HealthKept DEF WorkerNext
      <2> QED BY <2>1 DEF WorkerStep, WorkerFirstStep, WorkerWake, SleepOver, WorkerExpire,
               WorkerCancelled, BatchReturns, ChunkReturns, Settle, IdleTimeout, ChunkAcquire,
               LoopVars, lockVars
<1>2. ASSUME NEW place \in TaskPlaces \ {"cancelled"}, NEW users \in Users,
             LoopEffect(t, place, users), LoopHead(t) \/ CheckHealth(t), Alive(t),
             wpc[t] # "cancelled"
      PROVE  WakeInv'
      <2>1. wpc'[t] = place
            BY <1>2 DEF LoopEffect, TypeOK, WorkerTypeOK
      <2>2. shutdownEvent => health \notin Connected \/ ~SyncLockFree
            BY DEF WakeInv, SyncLockFree
      <2> QED BY <1>1, <1>2, <2>1, <2>2, LoopGoesOn, MoveWakes DEF LoopEffect
<1>3. CASE WorkerFirstStep(t) \/ WorkerWake(t) \/ SleepOver(t)
      <2>1. PICK place \in TaskPlaces \ {"cancelled"}, users \in Users : LoopEffect(t, place, users)
            BY <1>3, LoopEffects DEF WorkerFirstStep, WorkerWake, SleepOver
      <2> QED BY <1>2, <1>3, <2>1 DEF WorkerFirstStep, WorkerWake, SleepOver, Alive
<1>4. CASE BatchReturns(t) \/ ChunkReturns(t)
      <2>1. wpc[t] \in Sending
            BY <1>4 DEF BatchReturns, ChunkReturns, Sending
      <2>2. PICK F \in SUBSET KeysOf(batch[t]) : Settle(t, F)
            BY <1>4 DEF BatchReturns, ChunkReturns
      <2>3. PICK place \in TaskPlaces \ {"cancelled"}, users \in Users : SettleEffect(t, F, place, users)
            BY <2>1, <2>2, SettleEffects
      <2>4. CASE F = {}
            BY <1>2, <2>1, <2>2, <2>3, <2>4 DEF Settle, SettleEffect, Alive, Sending
      <2>5. CASE F # {}
            BY <1>1, <2>1, <2>3, <2>5, MoveWakes DEF SettleEffect, Alive, Sending
      <2> QED BY <2>4, <2>5
<1>5. CASE WorkerExpire(t)
      <2>1. workAvailable = TRUE \/ pendingUsers = NoUsers
            BY DEF EventMatchesQueue, TypeOK, WorkerTypeOK
      <2> QED BY <1>1, <1>5, <2>1, MoveWakes DEF WorkerExpire, Alive, TaskPlaces, queueVars
<1>6. CASE WorkerCancelled(t)
      BY <1>1, <1>6, MoveWakes DEF WorkerCancelled, Alive, TaskPlaces, WakeInv, SyncLockFree
<1>7. CASE IdleTimeout(t)
      BY <1>1, <1>7, MoveWakes DEF IdleTimeout, Alive, TaskPlaces
<1>8. CASE ChunkAcquire(t)
      BY <1>1, <1>8, MoveWakes DEF ChunkAcquire, Alive, TaskPlaces
<1> QED BY <1>3, <1>4, <1>5, <1>6, <1>7, <1>8 DEF WorkerStep

\* A disconnect keeps WakeInv: it ends with a node that is not connected.
LEMMA DisconnectWakes ==
    ASSUME IInv, WakeInv
    PROVE  /\ \A o \in Ops : \A l, p, q, k :
                l \in Locking /\ p \in Joining /\ q \notin Locking
                  => /\ Disconnect(o, l, p, q, k) => WakeInv'
                     /\ CleanupLocked(o, l, p, q) => WakeInv'
           /\ \A o \in Ops : \A q : q \notin Locking /\ Joined(o, q) => WakeInv'
<1> USE DEF IInv, TypeOK, WorkerTypeOK
<1>1. CloseSession => health' \notin Connected
      BY DEF CloseSession, HealthAssigned, Connected
<1>2. ASSUME NEW o \in Ops, NEW p \in Joining, NEW q, q \notin Locking, NEW k,
             CleanupSyncWorker(o, p, q, k), shutdownEvent' = TRUE \/ UNCHANGED shutdownEvent,
             syncWaiters' \in {syncWaiters, syncWaiters \ {o}}
      PROVE  WakeInv'
      <2>1. \A r \in Ops : opc'[r] \in Locking => r # o /\ r \in syncWaiters'
            BY <1>2 DEF CleanupSyncWorker, WakeInv, Locking, Joining
      <2>2. CASE WorkerAlive
            BY <1>2, <2>1, <2>2, WorkerAssumption
            DEF CleanupSyncWorker, WakeInv, SyncLockFree, WorkerAssumption
      <2>3. CASE ~WorkerAlive
            BY <1>1, <1>2, <2>1, <2>3 DEF CleanupSyncWorker, WakeInv
      <2> QED BY <2>2, <2>3
<1>3. ASSUME NEW o \in Ops, NEW l \in Locking, NEW p \in Joining, NEW q, q \notin Locking, NEW k,
             Disconnect(o, l, p, q, k)
      PROVE  WakeInv'
      <2>1. CASE SyncLockFree
            BY <1>2, <1>3, <2>1 DEF Disconnect
      <2>2. CASE ~SyncLockFree
            BY <1>3, <2>2
            DEF Disconnect, WakeInv, SyncLockFree, queueVars
      <2> QED BY <2>1, <2>2
<1>4. ASSUME NEW o \in Ops, NEW l \in Locking, NEW p \in Joining, NEW q, q \notin Locking,
             CleanupLocked(o, l, p, q)
      PROVE  WakeInv'
      BY <1>2, <1>4 DEF CleanupLocked
<1>5. ASSUME NEW o \in Ops, NEW q, q \notin Locking, Joined(o, q)
      PROVE  WakeInv'
      <2>1. \A t \in Tasks : wpc[t] = "done"
            BY <1>5 DEF Joined, ControlInv, SingleWorker, WorkerAlive, Alive
      <2>2. \A r \in Ops : opc'[r] \in Locking => r \in syncWaiters'
            BY <1>5 DEF Joined, WakeInv
      <2> QED BY <1>1, <1>5, <2>1, <2>2 DEF Joined, WakeInv
<1> QED BY <1>3, <1>4, <1>5

\* Spawning gives the queue its worker. A caller may leave the waiters.
LEMMA SpawnWakes ==
    ASSUME IInv, WakeInv, syncWorkerLock = Free, UNCHANGED <<sessionVars, syncWorkerLock, opc>>,
           NEW c \in Callers, syncWaiters' \in {syncWaiters, syncWaiters \ {c}},
           NEW places, places \in {wpc, Woken(wpc)}, EnsureWorker(places)
    PROVE  WakeInv'
<1> USE DEF IInv, TypeOK, WorkerTypeOK, sessionVars, Alive, Woken
<1>1. WorkerAlive'
      BY DEF EnsureWorker, WorkerAlive
<1>2. \A t \in Tasks : wpc'[t] # "cancelled"
      BY DEF EnsureWorker, WakeInv
<1>3. \A o \in Ops : opc'[o] \in Locking => o \in syncWaiters'
      BY WorkerAssumption DEF WorkerAssumption, WakeInv
<1> QED BY <1>1, <1>2, <1>3 DEF WakeInv

\* The callers of update_user and update_users.
LEMMA CallerWakes ==
    ASSUME IInv, WakeInv, NEW c \in Callers, UNCHANGED opc,
           EnsureAfterWait(c) \/ \E S \in SUBSET Emails : UpdateUsers(c, S)
    PROVE  WakeInv'
<1> USE DEF lockVars
<1>1. CASE EnsureAfterWait(c)
      BY <1>1, SpawnWakes DEF EnsureAfterWait
<1>2. ASSUME NEW S \in SUBSET Emails, UpdateUsers(c, S), SyncLockFree
      PROVE  WakeInv'
      BY <1>2, SpawnWakes DEF UpdateUsers, SyncLockFree
<1>3. ASSUME NEW S \in SUBSET Emails, UpdateUsers(c, S), ~SyncLockFree
      PROVE  WakeInv'
      <2>1. /\ UNCHANGED <<sessionVars, syncWorkerLock, opc>>
            /\ wpc' = Woken(wpc) /\ syncWaiters' = syncWaiters \cup {c}
            BY <1>3 DEF UpdateUsers
      <2>2. \A t \in Tasks : wpc'[t] = "cancelled" => wpc[t] = "cancelled"
            BY <2>1 DEF Woken
      <2>3. \A o \in Ops : opc'[o] \in Locking => o \in syncWaiters'
            BY <2>1 DEF WakeInv
      <2>4. ~SyncLockFree'
            BY <2>1 DEF SyncLockFree
      <2> QED BY <2>1, <2>2, <2>3, <2>4 DEF WakeInv, sessionVars
<1> QED BY <1>1, <1>2, <1>3

\* The steps that touch neither the worker nor the session.
LEMMA OthersWake ==
    ASSUME IInv, WakeInv,
           UNCHANGED <<wpc, syncWorkerTask, syncWorkerLock, syncWaiters, stranded, sessionVars>>,
           \A o \in Ops : opc'[o] \in Locking <=> opc[o] \in Locking,
           pendingUsers' \in {pendingUsers, NoUsers}
    PROVE  WakeInv'
BY DEF WakeInv, sessionVars, WorkerAlive, Alive, SyncLockFree

\* An update abandoned while a disconnect joins the worker: that disconnect is
\* going to clear the queue.
LEMMA AbandonedWakes ==
    ASSUME IInv, WakeInv, NEW c \in Callers, UpdateAbandoned(c)
    PROVE  WakeInv'
<1>1. \A o \in Ops : opc'[o] \in Locking => o \in syncWaiters'
      BY WorkerAssumption DEF WorkerAssumption, UpdateAbandoned, WakeInv
<1> QED BY <1>1 DEF UpdateAbandoned, WakeInv, sessionVars, lockVars, queueVars, SyncLockFree

\* If the application updates users on a connected node only, the users queued
\* on a healthy node have a worker, unless _sync_worker_lock is held or on its
\* way to one who waits for it, or the idle timer stranded them.
THEOREM NoOtherStranding ==
    ASSUME "NOT_CONNECTED" \notin CallerHealth
    PROVE  Spec => []OnlyIdleExitStrands
<1>1. Init => WakeInv
      BY DEF Init, WorkerInit, NodeStateInit, PendingInit, WakeInv, Connected, Locking
<1>2. IInv /\ EventMatchesQueue /\ SessionClosedClean /\ WakeInv /\ [Next]_vars => WakeInv'
      <2> SUFFICES ASSUME IInv, EventMatchesQueue, SessionClosedClean, WakeInv, [Next]_vars
                   PROVE  WakeInv'
          OBVIOUS
      <2>1. CASE WorkerNext /\ UNCHANGED opc
            BY <2>1, WorkerWakes, CallerWakes DEF WorkerNext
      <2>2. ASSUME NEW o \in Ops,
                   \/ StartRejected(o) \/ StartCleansUp(o) \/ StartJoined(o)
                   \/ StopLocked(o) \/ StopCleansUp(o) \/ StopJoined(o)
                   \/ (CallStop(o) /\ StopDirectly(o))
            PROVE  WakeInv'
            BY <2>2, DisconnectWakes
            DEF StartRejected, StartCleansUp, StartJoined, CallStop, StopDirectly, StopLocked,
                StopCleansUp, StopJoined, Locking, Joining
      <2>3. ASSUME NEW o \in Ops, StartConnects(o) PROVE WakeInv'
            <3>1. health = "NOT_CONNECTED" => pendingUsers = NoUsers
                  BY DEF SessionClosedClean
            <3>2. health \in Connected \/ health = "NOT_CONNECTED"
                  BY <2>3 DEF StartConnects, IInv, TypeOK, WorkerTypeOK, NodeStateTypeOK,
                              Healths, Connected
            <3>3. UNCHANGED <<pendingUsers, wpc, syncWorkerTask, syncWaiters, stranded, syncWorkerLock>>
                  BY <2>3 DEF StartConnects, opUnchanged, queueVars, workerVars, history
            <3>4. \A p \in Ops : opc'[p] \in Locking <=> opc[p] \in Locking
                  BY <2>3, LockingKept DEF IInv
            <3> QED BY <2>3, <3>1, <3>2, <3>3, <3>4
                    DEF StartConnects, WakeInv, WorkerAlive, Alive, SyncLockFree
      <2>4. ASSUME NEW h \in {"HEALTHY", "BROKEN", "INVALID"}, SetHealth(h) PROVE WakeInv'
            <3>1. health' \in Connected => health \in Connected
                  BY <2>4 DEF SetHealth, HealthAssigned, IInv, TypeOK, WorkerTypeOK,
                              NodeStateTypeOK, Healths, Connected
            <3>2. UNCHANGED <<pendingUsers, wpc, syncWorkerTask, syncWaiters, stranded,
                              syncWorkerLock, shutdownEvent, opc>>
                  BY <2>4 DEF SetHealth, opUnchanged, queueVars, workerVars, history, lockVars
            <3> QED BY <3>1, <3>2 DEF WakeInv, WorkerAlive, Alive, SyncLockFree
      <2>5. ASSUME \/ FlushPendingUsers
                   \/ UNCHANGED vars
                   \/ \E o \in Ops :
                        \/ CallStart(o) \/ StartLocked(o) \/ StartFails(o)
                        \/ (CallStop(o) /\ StopQueued(o))
                        \/ SyncUsersLocked(o) \/ RequestReturns(o) \/ CallAbandoned(o)
                        \/ \E flush \in BOOLEAN : CallSyncUsers(o, flush)
            PROVE  WakeInv'
            <3>1. /\ UNCHANGED <<wpc, syncWorkerTask, syncWaiters, stranded, sessionVars,
                                 syncWorkerLock>>
                  /\ pendingUsers' \in {pendingUsers, NoUsers}
                  BY <2>5
                  DEF FlushPendingUsers, FlushQueue, ClearQueue, CallStart,
                      StartLocked, StartFails, CallStop, StopQueued, SyncUsersLocked,
                      RequestReturns, CallAbandoned, CallSyncUsers, opUnchanged, workerVars,
                      queueVars, history, lockVars, sessionVars, vars
            <3>2. \A p \in Ops : opc'[p] \in Locking <=> opc[p] \in Locking
                  BY <2>5, LockingKept DEF IInv, FlushPendingUsers, vars, CallStop
            <3> QED BY <3>1, <3>2, OthersWake
      <2>6. ASSUME NEW c \in Callers, UpdateAbandoned(c) PROVE WakeInv'
            BY <2>6, AbandonedWakes
      <2> QED BY <2>1, <2>2, <2>3, <2>4, <2>5, <2>6 DEF Next, CallStop
<1>3. WakeInv => OnlyIdleExitStrands
      BY DEF WakeInv, OnlyIdleExitStrands, Connected
<1>4. Spec => []SessionClosedClean
      BY CleanSessions
<1> QED BY <1>1, <1>2, <1>3, <1>4, Invariant, EventExact, PTL DEF Spec
=============================================================================
