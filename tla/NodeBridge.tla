----------------------------- MODULE NodeBridge -----------------------------
(***************************************************************************)
(* One node object of the bridge: the synchronisation worker together with *)
(* the calls that start, stop and configure the node (start, stop,         *)
(* sync_users of both transports, connect, disconnect, set_health and      *)
(* flush_pending_users of the controller).                                 *)
(*                                                                         *)
(* start and stop hold _node_lock from before their request until they     *)
(* return. connect is called without background tasks, as start does, so   *)
(* neither connect nor disconnect has tasks to wait for: connect never     *)
(* suspends, and disconnect suspends only for _sync_worker_lock and to     *)
(* join a cancelled worker. A call is in one of these places:              *)
(*   idle                          not running                             *)
(*   startWait/stopWait/syncWait   waiting for _node_lock                  *)
(*   startRpc/stopRpc/syncRpc      request in flight, holding _node_lock   *)
(*   startLock/stopLock            in _cleanup_sync_worker, waiting for    *)
(*                                 _sync_worker_lock behind updates        *)
(*   startJoin/stopJoin            in _cleanup_sync_worker, joining the    *)
(*                                 worker, holding _sync_worker_lock too   *)
(***************************************************************************)
EXTENDS SyncWorker

VARIABLE opc                \* where each call of start, stop, sync_users is

vars == <<pendingUsers, workAvailable, health, versionsKnown, shutdownEvent,
          failureCount, hardResetEvent, wpc, batch, syncWorkerTask, syncWaiters,
          syncWorkerLock, nodeLock, nodeWaiters, latest, taken, acked,
          discarded, stranded, opc>>

OpPlaces == {"idle", "startWait", "stopWait", "syncWait",
             "startRpc", "stopRpc", "syncRpc",
             "startLock", "stopLock", "startJoin", "stopJoin"}
Locking == {"startLock", "stopLock"}
Joining == {"startJoin", "stopJoin"}

Init ==
    /\ WorkerInit
    /\ opc = [o \in Ops |-> "idle"]

TypeOK ==
    /\ WorkerTypeOK
    /\ opc \in [Ops -> OpPlaces]

opUnchanged == <<queueVars, workerVars, history>>

-----------------------------------------------------------------------------
(* disconnect *)

\* Mutant: the versions survive the disconnect.
CloseKeepingVersions ==
    /\ ClearQueue
    /\ UNCHANGED versionsKnown
    /\ health' = HealthAssigned("NOT_CONNECTED")
    /\ discarded' = Later(discarded, pendingUsers)

\* Mutant: an INVALID node is left as it is, with its versions.
CloseUnlessInvalid ==
    /\ ClearQueue
    /\ versionsKnown' = (health = "INVALID" /\ versionsKnown)
    /\ health' = HealthAssigned("NOT_CONNECTED")
    /\ discarded' = Later(discarded, pendingUsers)

\* The rest of disconnect once no worker runs: the queue is cleared, then
\* versions and health are reset together. INVALID stays.
CloseSession ==
    /\ ClearQueue
    /\ versionsKnown' = FALSE
    /\ health' = HealthAssigned("NOT_CONNECTED")
    /\ discarded' = Later(discarded, pendingUsers)

\* Mutant: the session is closed before the cancelled worker has ended.
CleanupUnjoined(o, joinPlace, place, known) ==
    /\ opc' = [opc EXCEPT ![o] = place]
    /\ CloseSession
    /\ IF WorkerAlive
       THEN wpc' = [wpc EXCEPT ![syncWorkerTask] = "cancelled"]
       ELSE UNCHANGED wpc
    /\ UNCHANGED <<syncWorkerLock, syncWorkerTask>>

\* Mutant: the worker is joined but not cancelled.
CleanupUncancelled(o, joinPlace, place, known) ==
    \/ /\ WorkerAlive
       /\ syncWorkerLock' = o
       /\ versionsKnown' = known
       /\ opc' = [opc EXCEPT ![o] = joinPlace]
       /\ UNCHANGED <<queueVars, health, discarded, wpc, syncWorkerTask>>
    \/ /\ ~WorkerAlive
       /\ opc' = [opc EXCEPT ![o] = place]
       /\ CloseSession
       /\ UNCHANGED <<syncWorkerLock, wpc, syncWorkerTask>>

\* disconnect with _sync_worker_lock: a worker that is not done is cancelled
\* and joined under the lock; without one the session is closed at once.
CleanupSyncWorker(o, joinPlace, place, known) ==
    \/ /\ WorkerAlive
       /\ syncWorkerLock' = o
       /\ wpc' = [wpc EXCEPT ![syncWorkerTask] = "cancelled"]
       /\ versionsKnown' = known
       /\ opc' = [opc EXCEPT ![o] = joinPlace]
       /\ UNCHANGED <<queueVars, health, discarded, syncWorkerTask>>
    \/ /\ ~WorkerAlive
       /\ opc' = [opc EXCEPT ![o] = place]
       /\ CloseSession
       /\ UNCHANGED <<syncWorkerLock, wpc, syncWorkerTask>>

\* From the call of disconnect to its first suspension. "known" is whether the
\* versions are known when it is called.
Disconnect(o, lockPlace, joinPlace, place, known) ==
    /\ shutdownEvent' = TRUE
    /\ \/ /\ SyncLockFree
          /\ CleanupSyncWorker(o, joinPlace, place, known)
          /\ UNCHANGED syncWaiters
       \/ /\ ~SyncLockFree
          /\ syncWaiters' = syncWaiters \cup {o}
          /\ versionsKnown' = known
          /\ opc' = [opc EXCEPT ![o] = lockPlace]
          /\ UNCHANGED <<queueVars, health, discarded, wpc, syncWorkerTask, syncWorkerLock>>

\* _sync_worker_lock is handed to a disconnect that waited for it.
CleanupLocked(o, lockPlace, joinPlace, place) ==
    /\ opc[o] = lockPlace
    /\ syncWorkerLock = Free
    /\ syncWaiters' = syncWaiters \ {o}
    /\ CleanupSyncWorker(o, joinPlace, place, versionsKnown)
    /\ UNCHANGED <<shutdownEvent, failureVars, batch, nodeWaiters,
                   latest, taken, acked, stranded>>

\* flush_pending_users
FlushQueue ==
    /\ ClearQueue
    /\ discarded' = Later(discarded, pendingUsers)

\* disconnect resumes when the worker is done.
Joined(o, place) ==
    /\ ~WorkerAlive
    /\ syncWorkerTask' = NoTask
    /\ syncWorkerLock' = Free
    /\ opc' = [opc EXCEPT ![o] = place]
    /\ CloseSession
    /\ UNCHANGED <<shutdownEvent, failureVars, wpc, batch, syncWaiters, nodeWaiters,
                   latest, taken, acked, stranded>>

-----------------------------------------------------------------------------
(* start, stop, sync_users *)

\* Mutant: the request does not wait for _node_lock.
AcquireUnlocked(o, waitPlace, rpcPlace) ==
    /\ nodeLock' = IF nodeLock = Free THEN o ELSE nodeLock
    /\ opc' = [opc EXCEPT ![o] = rpcPlace]
    /\ UNCHANGED nodeWaiters

\* "async with self._node_lock" of a call: at once, or after a wait.
Acquire(o, waitPlace, rpcPlace) ==
    IF nodeLock = Free /\ nodeWaiters = {}
    THEN /\ nodeLock' = o
         /\ opc' = [opc EXCEPT ![o] = rpcPlace]
         /\ UNCHANGED nodeWaiters
    ELSE /\ nodeWaiters' = nodeWaiters \cup {o}
         /\ opc' = [opc EXCEPT ![o] = waitPlace]
         /\ UNCHANGED nodeLock

\* The lock is handed to a waiting call.
Handed(o, waitPlace) ==
    /\ opc[o] = waitPlace
    /\ nodeLock = Free
    /\ nodeLock' = o
    /\ nodeWaiters' = nodeWaiters \ {o}

\* start: an INVALID node raises before the lock; otherwise the Start request
\* is sent under it.
CallStart(o) ==
    /\ opc[o] = "idle"
    /\ health # "INVALID"
    /\ Acquire(o, "startWait", "startRpc")
    /\ UNCHANGED <<opUnchanged, sessionVars, failureVars, syncWorkerLock>>

StartLocked(o) ==
    /\ Handed(o, "startWait")
    /\ opc' = [opc EXCEPT ![o] = "startRpc"]
    /\ UNCHANGED <<opUnchanged, sessionVars, failureVars, syncWorkerLock>>

\* The request fails, or the node answers that it has not started, or the
\* application abandons the call: it raises and the state it knew before stays.
StartFails(o) ==
    /\ opc[o] = "startRpc"
    /\ opc' = [opc EXCEPT ![o] = "idle"]
    /\ nodeLock' = Free
    /\ UNCHANGED <<opUnchanged, sessionVars, failureVars, syncWorkerLock, nodeWaiters>>

\* Mutant: connect clears the event but not the counter.
ConnectKeepingCount(o) ==
    /\ opc[o] = "startRpc"
    /\ health # "INVALID"
    /\ shutdownEvent' = FALSE
    /\ hardResetEvent' = FALSE
    /\ UNCHANGED failureCount
    /\ versionsKnown' = TRUE
    /\ health' = "HEALTHY"
    /\ opc' = [opc EXCEPT ![o] = "idle"]
    /\ nodeLock' = Free
    /\ UNCHANGED <<opUnchanged, syncWorkerLock, nodeWaiters>>

\* The node has started and connect succeeds. The worker and the queue are not
\* touched: users queued earlier stay queued, and no worker is created.
StartConnects(o) ==
    /\ opc[o] = "startRpc"
    /\ health # "INVALID"
    /\ shutdownEvent' = FALSE
    /\ ResetFailures
    /\ versionsKnown' = TRUE
    /\ health' = "HEALTHY"
    /\ opc' = [opc EXCEPT ![o] = "idle"]
    /\ nodeLock' = Free
    /\ UNCHANGED <<opUnchanged, syncWorkerLock, nodeWaiters>>

\* The node has started but connect raises, and start disconnects: either the
\* versions are empty, which connect checks first, or the node has become
\* INVALID since start was called, which connect finds after it has reset the
\* failures and stored the versions.
StartRejected(o) ==
    /\ opc[o] = "startRpc"
    /\ \/ /\ Disconnect(o, "startLock", "startJoin", "idle", versionsKnown)
          /\ UNCHANGED failureVars
       \/ /\ health = "INVALID"
          /\ Disconnect(o, "startLock", "startJoin", "idle", TRUE)
          /\ ResetFailures
    /\ nodeLock' = IF opc'[o] = "idle" THEN Free ELSE nodeLock
    /\ UNCHANGED <<batch, nodeWaiters, latest, taken, acked, stranded>>

StartCleansUp(o) ==
    /\ CleanupLocked(o, "startLock", "startJoin", "idle")
    /\ nodeLock' = IF opc'[o] = "idle" THEN Free ELSE nodeLock

StartJoined(o) ==
    /\ opc[o] = "startJoin"
    /\ Joined(o, "idle")
    /\ nodeLock' = Free

\* stop: a node that is NOT_CONNECTED returns at once; otherwise disconnect
\* under the lock and then send the Stop request.
StopDirectly(o) ==
    /\ nodeLock = Free /\ nodeWaiters = {}
    /\ nodeLock' = o
    /\ UNCHANGED nodeWaiters
    /\ Disconnect(o, "stopLock", "stopJoin", "stopRpc", versionsKnown)

StopQueued(o) ==
    /\ ~(nodeLock = Free /\ nodeWaiters = {})
    /\ nodeWaiters' = nodeWaiters \cup {o}
    /\ opc' = [opc EXCEPT ![o] = "stopWait"]
    /\ UNCHANGED <<queueVars, sessionVars, wpc, syncWorkerTask, syncWaiters,
                   syncWorkerLock, nodeLock, discarded>>

CallStop(o) ==
    /\ opc[o] = "idle"
    /\ health # "NOT_CONNECTED"
    /\ StopDirectly(o) \/ StopQueued(o)
    /\ UNCHANGED <<failureVars, batch, latest, taken, acked, stranded>>

StopLocked(o) ==
    /\ Handed(o, "stopWait")
    /\ Disconnect(o, "stopLock", "stopJoin", "stopRpc", versionsKnown)
    /\ UNCHANGED <<failureVars, batch, latest, taken, acked, stranded>>

StopCleansUp(o) ==
    /\ CleanupLocked(o, "stopLock", "stopJoin", "stopRpc")
    /\ UNCHANGED nodeLock

StopJoined(o) ==
    /\ opc[o] = "stopJoin"
    /\ Joined(o, "stopRpc")
    /\ UNCHANGED nodeLock

\* sync_users and sync_users_chunked called by the application: an optional
\* flush before the lock, then the request under it.
CallSyncUsers(o, flush) ==
    /\ opc[o] = "idle"
    /\ Acquire(o, "syncWait", "syncRpc")
    /\ IF flush THEN FlushQueue ELSE UNCHANGED <<queueVars, discarded>>
    /\ UNCHANGED <<workerVars, sessionVars, failureVars, syncWorkerLock,
                   latest, taken, acked, stranded>>

SyncUsersLocked(o) ==
    /\ Handed(o, "syncWait")
    /\ opc' = [opc EXCEPT ![o] = "syncRpc"]
    /\ UNCHANGED <<opUnchanged, sessionVars, failureVars, syncWorkerLock>>

\* The Stop request, whose errors stop ignores, or the sync request ends, or
\* the application abandons the call meanwhile.
RequestReturns(o) ==
    /\ opc[o] \in {"stopRpc", "syncRpc"}
    /\ opc' = [opc EXCEPT ![o] = "idle"]
    /\ nodeLock' = Free
    /\ UNCHANGED <<opUnchanged, sessionVars, failureVars, syncWorkerLock, nodeWaiters>>

\* The application abandons a call that waits for _node_lock (its task is
\* cancelled, or a timeout around it expires): nothing has been done yet, apart
\* from the flush of sync_users. While disconnect joins the worker a call cannot
\* be abandoned: the join takes any cancellation for that of the worker. Once
\* _sync_worker_lock is free, those who waited for it take it in the next turns
\* of the event loop: nobody is abandoned in these turns.
CallAbandoned(o) ==
    /\ opc[o] \in {"startWait", "stopWait", "syncWait"}
    /\ opc' = [opc EXCEPT ![o] = "idle"]
    /\ nodeWaiters' = nodeWaiters \ {o}
    /\ UNCHANGED <<opUnchanged, sessionVars, failureVars, syncWorkerLock, nodeLock>>

\* The same of an update that waits for _sync_worker_lock: its users are queued
\* and the event is set, but it no longer makes sure that a worker runs.
UpdateAbandoned(c) ==
    /\ c \in syncWaiters /\ syncWorkerLock # Free
    /\ syncWaiters' = syncWaiters \ {c}
    /\ UNCHANGED <<queueVars, wpc, batch, syncWorkerTask, history,
                   sessionVars, failureVars, lockVars, opc>>

\* set_health, called by the application or a health check. Both report HEALTHY
\* or BROKEN only on a node that has been connected; INVALID may come any time.
SetHealth(h) ==
    /\ h # "INVALID" => health # "NOT_CONNECTED"
    /\ health' = HealthAssigned(h)
    /\ UNCHANGED <<opUnchanged, versionsKnown, shutdownEvent, failureVars, lockVars, opc>>

FlushPendingUsers ==
    /\ FlushQueue
    /\ UNCHANGED <<workerVars, sessionVars, failureVars, lockVars, opc,
                   latest, taken, acked, stranded>>

-----------------------------------------------------------------------------
Next ==
    \/ WorkerNext /\ UNCHANGED opc
    \/ \E o \in Ops :
         \/ CallStart(o) \/ StartLocked(o) \/ StartFails(o)
         \/ StartConnects(o) \/ StartRejected(o) \/ StartCleansUp(o) \/ StartJoined(o)
         \/ CallStop(o) \/ StopLocked(o) \/ StopCleansUp(o) \/ StopJoined(o)
         \/ \E flush \in BOOLEAN : CallSyncUsers(o, flush)
         \/ SyncUsersLocked(o) \/ RequestReturns(o) \/ CallAbandoned(o)
    \/ \E c \in Callers : UpdateAbandoned(c)
    \/ \E h \in {"HEALTHY", "BROKEN", "INVALID"} : SetHealth(h)
    \/ FlushPendingUsers

Spec == Init /\ [][Next]_vars

\* Requests end by their timeouts and a joined worker's call resumes; a waiting
\* call gets the first-come-first-served lock. A disconnect waits only for calls
\* that never hold _sync_worker_lock over a suspension. Nobody has to call.
Fairness ==
    /\ \A c \in Callers : SF_vars(EnsureAfterWait(c) /\ UNCHANGED opc)
    /\ \A t \in Tasks :
         /\ WF_vars(WorkerStep(t) /\ UNCHANGED opc)
         /\ SF_vars(ChunkAcquire(t) /\ UNCHANGED opc)
    /\ \A o \in Ops :
         /\ WF_vars(StartFails(o) \/ StartConnects(o) \/ StartRejected(o)
                      \/ StartCleansUp(o) \/ StopCleansUp(o)
                      \/ StartJoined(o) \/ StopJoined(o) \/ RequestReturns(o))
         /\ SF_vars(StartLocked(o) \/ StopLocked(o) \/ SyncUsersLocked(o))

FairSpec == Spec /\ Fairness

-----------------------------------------------------------------------------
(* Safety *)

\* At most one worker task exists that has not finished, and it is the one the
\* controller knows, so that a disconnect can cancel it and two workers never
\* drain the queue at once (the done() check of _ensure_sync_worker_running).
SingleWorker == \A t \in Tasks : Alive(t) => t = syncWorkerTask

\* No batch is on its way to the node once the controller calls the node
\* disconnected, and nothing of the closed session is left to be sent in the
\* next one: neither in the queue nor in a worker (disconnect joins the worker
\* before it clears the queue, and clears the queue before the health).
SessionClosedClean ==
    health = "NOT_CONNECTED" =>
        /\ pendingUsers = NoUsers
        /\ \A t \in Tasks : batch[t] = NoUsers /\ wpc[t] \notin Sending

\* The latest version of every user is sent, or was dropped by a flush or a
\* disconnect, or is still queued or under way. A failed batch loses nothing.
NoLostUpdate ==
    \A e \in Emails :
        \/ latest[e] \in {Absent, acked[e], discarded[e], pendingUsers[e]}
        \/ \E t \in Tasks : batch[t][e] = latest[e]

\* What waits for an email is newer than what is under way for it: requeueing
\* a failed user never replaces, and never precedes, a newer version.
QueueNewerThanBatch ==
    \A t \in Tasks, e \in Emails :
        pendingUsers[e] # Absent => pendingUsers[e] > batch[t][e]

\* The versions of one user reach the node in the order of submission: no step
\* starts to send a version older than one whose sending was started.
SendsInOrder == [][\A e \in Emails : taken'[e] >= taken[e]]_taken

\* INVALID is permanent, over the three places that assign the health
\* (set_health, connect, disconnect) and whatever they interleave with.
InvalidIsPermanent == [][health = "INVALID" => health' = "INVALID"]_health

\* _node_lock is held for every request that configures the node as a whole,
\* by one call only; who joins the worker holds both locks, and a chunked sync
\* of the worker therefore never runs into a start or a stop.
LocksGuardRequests ==
    /\ \A o \in Ops : nodeLock = o <=> opc[o] \notin {"idle", "startWait", "stopWait", "syncWait"}
    /\ \A t \in Tasks : wpc[t] = "chunk" => nodeLock = t
    /\ \A o \in Ops : syncWorkerLock = o <=> opc[o] \in Joining

\* On a healthy node with users queued a worker runs, unless _sync_worker_lock
\* is held by a disconnect, which then clears the queue, or is on its way to one
\* or to a call that makes sure a worker runs, or the last worker left on its
\* idle timer just after work had arrived. There is no other way to be stranded:
\* neither an update abandoned while it waits nor a failed batch leaves one.
OnlyIdleExitStrands ==
    (health = "HEALTHY" /\ pendingUsers # NoUsers)
        => WorkerAlive \/ ~SyncLockFree \/ stranded

\* A session that has been shut down keeps its versions only as long as its
\* disconnect is under way: also when connect has stored them before it found
\* the node INVALID and raised, although INVALID outlives the disconnect.
ShutDownForgetsVersions ==
    (shutdownEvent /\ versionsKnown) => \E o \in Ops : opc[o] \in Locking \cup Joining

\* update_user and update_users promise that a worker processes the update
\* (the comments "Ensure worker is running to process the update(s)").
UpdateHasWorker ==
    (health = "HEALTHY" /\ pendingUsers # NoUsers /\ syncWorkerLock = Free)
        => WorkerAlive \/ syncWaiters # {}

\* A node that is not connected takes no work: its queue is empty (the README:
\* before start every method raises NodeAPIError).
DisconnectedQueueEmpty == health = "NOT_CONNECTED" => pendingUsers = NoUsers

\* The mailbox of the specification UserMailbox: its batch under way is what
\* the known worker holds.
UnderWay == IF syncWorkerTask = NoTask THEN NoUsers ELSE batch[syncWorkerTask]
Mailbox == INSTANCE UserMailbox
             WITH queued <- pendingUsers, sending <- UnderWay,
                  Submissions <- MaxVersion

\* The node object implements the latest-wins mailbox.
ImplementsMailbox == Mailbox!Spec

-----------------------------------------------------------------------------
(* Liveness *)

\* start and stop return: the worker that stop waits for never waits in turn
\* for the _node_lock that stop holds without being woken by its cancellation.
CallsReturn == \A o \in Ops : opc[o] # "idle" ~> opc[o] = "idle"

\* A call of update_user that a disconnect holds up returns.
UpdatesReturn == \A c \in Callers : c \in syncWaiters ~> c \notin syncWaiters

\* Every batch is settled or abandoned: it is not kept from _node_lock forever.
BatchesEnd == \A t \in Tasks : batch[t] # NoUsers ~> batch[t] = NoUsers

\* On a node that stays healthy, and whose worker is not stranded by its idle
\* timer, every queued user leaves the queue: a failed batch is retried.
QueueDrains ==
    <>[](health = "HEALTHY" /\ ~stranded) =>
        \A e \in Emails : pendingUsers[e] # Absent ~> pendingUsers[e] = Absent
=============================================================================
