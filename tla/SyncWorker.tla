----------------------------- MODULE SyncWorker -----------------------------
(***************************************************************************)
(* The lazy synchronisation worker: Controller._sync_worker, the calls     *)
(* that feed it (update_user, update_users), the spawning of the worker    *)
(* (_ensure_sync_worker_running) and the locks it takes part in.           *)
(*                                                                         *)
(* A step of this module is what one coroutine does between two points at  *)
(* which it really suspends. An uncontended asyncio.Lock, a set            *)
(* asyncio.Event and a lock body without an await do not suspend, so e.g.  *)
(* "wake up, read the health, drain the queue, open the request" is one    *)
(* step. A worker task is in one of these places:                          *)
(*   done       it never ran, or it has finished                           *)
(*   created    create_task was called, its first step is scheduled        *)
(*   waiting    in wait_for(_work_available.wait(), idle timeout)          *)
(*   woken      the event was set, the step that resumes it is scheduled   *)
(*   expired    the idle timer fired: the CancelledError that wait_for     *)
(*              turns into TimeoutError is scheduled, but the task still   *)
(*              answers done() with False                                  *)
(*   asleep     in asyncio.sleep(retry_delay)                              *)
(*   batch      in _sync_batch_users                                       *)
(*   lockWait   in sync_users_chunked, waiting for _node_lock              *)
(*   chunk      in sync_users_chunked, holding _node_lock                  *)
(*   cancelled  cancel() was called, its last step is scheduled            *)
(* Delays are not modelled: a sleep may end, and a timer fire, at any time.*)
(***************************************************************************)
EXTENDS PendingUsers, NodeState, FiniteSets

CONSTANTS Tasks,            \* identities of worker tasks, reused when done
          NoTask,           \* _sync_worker_task is None
          Callers,          \* concurrent calls of update_user(s)
          Ops,              \* concurrent calls of start, stop and sync_users
          Free,             \* a lock nobody holds
          ChunkThreshold,   \* batch size from which users go in chunks (1000)
          CallerHealth,     \* health values at which the application updates users
          MaxVersion        \* bound: updates of one email

ASSUME WorkerAssumption ==
    /\ NoTask \notin Tasks
    /\ Free \notin Tasks \cup Ops
    /\ Tasks \cap Ops = {} /\ Callers \cap Ops = {}
    /\ CallerHealth \subseteq Healths
    /\ MaxVersion \in Nat

VARIABLES wpc,              \* where each worker task is
          batch,            \* the worker's local "users": drained, not settled
          syncWorkerTask,   \* _sync_worker_task
          syncWaiters,      \* who waits for _sync_worker_lock
          syncWorkerLock,   \* holder of _sync_worker_lock across a suspension
          nodeLock,         \* holder of _node_lock
          nodeWaiters,      \* who waits for _node_lock
          latest,           \* history: last version accepted, per email
          taken,            \* history: last version drained for sending
          acked,            \* history: last version whose sending succeeded
          discarded,        \* history: last version dropped unsent or in flight
          stranded          \* history: the worker expired with work available

queueVars   == <<pendingUsers, workAvailable>>
failureVars == <<failureCount, hardResetEvent>>
sessionVars == <<health, versionsKnown, shutdownEvent>>
lockVars    == <<syncWorkerLock, nodeLock, nodeWaiters>>
workerVars  == <<wpc, batch, syncWorkerTask, syncWaiters>>
history     == <<latest, taken, acked, discarded, stranded>>

TaskPlaces == {"done", "created", "waiting", "woken", "expired", "asleep",
               "batch", "lockWait", "chunk", "cancelled"}
Sending == {"batch", "lockWait", "chunk"}

WorkerInit ==
    /\ PendingInit
    /\ NodeStateInit
    /\ wpc = [t \in Tasks |-> "done"]
    /\ batch = [t \in Tasks |-> NoUsers]
    /\ syncWorkerTask = NoTask
    /\ syncWaiters = {}
    /\ syncWorkerLock = Free
    /\ nodeLock = Free
    /\ nodeWaiters = {}
    /\ latest = NoUsers
    /\ taken = NoUsers
    /\ acked = NoUsers
    /\ discarded = NoUsers
    /\ stranded = FALSE

WorkerTypeOK ==
    /\ pendingUsers \in Users
    /\ workAvailable \in BOOLEAN
    /\ NodeStateTypeOK
    /\ wpc \in [Tasks -> TaskPlaces]
    /\ batch \in [Tasks -> Users]
    /\ syncWorkerTask \in Tasks \cup {NoTask}
    /\ syncWaiters \subseteq Callers \cup Ops
    /\ syncWorkerLock \in Ops \cup {Free}
    /\ nodeLock \in Ops \cup Tasks \cup {Free}
    /\ nodeWaiters \subseteq Ops \cup Tasks
    /\ latest \in Users /\ taken \in Users
    /\ acked \in Users /\ discarded \in Users
    /\ stranded \in BOOLEAN

-----------------------------------------------------------------------------
(* Spawning the worker *)

Alive(t) == wpc[t] # "done"
WorkerAlive == \E t \in Tasks : t = syncWorkerTask /\ Alive(t)

\* Event.set wakes every waiter.
Woken(places) == [t \in Tasks |-> IF places[t] = "waiting" THEN "woken" ELSE places[t]]

\* Mutant: done() is not asked, a finished task counts as running.
EnsureUnlessKnown(places) ==
    IF syncWorkerTask # NoTask
    THEN wpc' = places /\ UNCHANGED <<syncWorkerTask, stranded>>
    ELSE \E t \in Tasks : /\ ~Alive(t)
                          /\ syncWorkerTask' = t
                          /\ wpc' = [places EXCEPT ![t] = "created"]
                          /\ stranded' = FALSE

\* Mutant: a worker that sleeps or waits for a lock is not seen.
SpawnWhenNotIdle(places) ==
    IF syncWorkerTask # NoTask /\ wpc[syncWorkerTask] \in {"created", "waiting", "woken", "batch"}
    THEN wpc' = places /\ UNCHANGED <<syncWorkerTask, stranded>>
    ELSE \E t \in Tasks : /\ ~Alive(t)
                          /\ syncWorkerTask' = t
                          /\ wpc' = [places EXCEPT ![t] = "created"]
                          /\ stranded' = FALSE

\* The body of _ensure_sync_worker_running: a task is created unless the known
\* one is not done() yet.
EnsureWorker(places) ==
    IF WorkerAlive
    THEN wpc' = places /\ UNCHANGED <<syncWorkerTask, stranded>>
    ELSE \E t \in Tasks : /\ ~Alive(t)
                          /\ syncWorkerTask' = t
                          /\ wpc' = [places EXCEPT ![t] = "created"]
                          /\ stranded' = FALSE

\* _sync_worker_lock is granted at once.
SyncLockFree == syncWorkerLock = Free /\ syncWaiters = {}

NextVersions(S) == [e \in Emails |-> IF e \in S THEN latest[e] + 1 ELSE Absent]

\* update_user (S has one email) and update_users: queue, set the event, and
\* make sure a worker runs. Only _sync_worker_lock, held while a disconnect
\* waits for the old worker, can suspend the call in between: it also waits
\* behind those who still wait when the lock is released.
UpdateUsers(c, S) ==
    /\ c \notin syncWaiters
    /\ S # {}
    /\ health \in CallerHealth
    /\ \A e \in S : latest[e] < MaxVersion
    /\ QueueUsers(NextVersions(S))
    /\ latest' = [e \in Emails |-> IF e \in S THEN latest[e] + 1 ELSE latest[e]]
    /\ IF SyncLockFree
       THEN EnsureWorker(Woken(wpc)) /\ UNCHANGED syncWaiters
       ELSE /\ syncWaiters' = syncWaiters \cup {c}
            /\ wpc' = Woken(wpc)
            /\ UNCHANGED <<syncWorkerTask, stranded>>
    /\ UNCHANGED <<sessionVars, failureVars, lockVars, batch, taken, acked, discarded>>

\* The call goes on once _sync_worker_lock is released.
EnsureAfterWait(c) ==
    /\ c \in syncWaiters
    /\ syncWorkerLock = Free
    /\ syncWaiters' = syncWaiters \ {c}
    /\ EnsureWorker(wpc)
    /\ UNCHANGED <<queueVars, sessionVars, failureVars, lockVars, batch,
                   latest, taken, acked, discarded>>

-----------------------------------------------------------------------------
(* The worker's loop *)

\* _node_lock once p has left its "async with".
Unheld(p) == IF nodeLock = p THEN Free ELSE nodeLock

\* What every way out of the current round does: the local users are gone and
\* a lock held for a chunked sync is released.
Move(t, place) ==
    /\ wpc' = [wpc EXCEPT ![t] = place]
    /\ batch' = [batch EXCEPT ![t] = NoUsers]
    /\ nodeLock' = Unheld(t)
    /\ UNCHANGED nodeWaiters

\* The non-empty result of _drain_pending_users goes to sync_users_chunked or
\* to _sync_batch_users, by its size. asyncio.Lock is first come, first
\* served: a task takes it at once only if nobody waits.
Dispatch(t) ==
    LET chunked == Cardinality(KeysOf(pendingUsers)) >= ChunkThreshold
        lockNow == nodeLock \in {Free, t} /\ nodeWaiters = {}
    IN  /\ pendingUsers # NoUsers
        /\ ClearQueue
        /\ batch' = [batch EXCEPT ![t] = pendingUsers]
        /\ taken' = [e \in Emails |->
                       IF pendingUsers[e] # Absent THEN pendingUsers[e] ELSE taken[e]]
        /\ \/ /\ chunked /\ lockNow
              /\ wpc' = [wpc EXCEPT ![t] = "chunk"]
              /\ nodeLock' = t
              /\ UNCHANGED nodeWaiters
           \/ /\ chunked /\ ~lockNow
              /\ wpc' = [wpc EXCEPT ![t] = "lockWait"]
              /\ nodeLock' = Unheld(t)
              /\ nodeWaiters' = nodeWaiters \cup {t}
           \/ /\ ~chunked
              /\ wpc' = [wpc EXCEPT ![t] = "batch"]
              /\ nodeLock' = Unheld(t)
              /\ UNCHANGED nodeWaiters

\* A flush emptied the queue between the event and the wake-up: the loop goes
\* round and finds the event cleared.
DrainNothing(t) ==
    /\ pendingUsers = NoUsers
    /\ ClearQueue
    /\ Move(t, IF shutdownEvent THEN "done" ELSE "waiting")
    /\ UNCHANGED taken

\* From the wait to the next suspension: only a HEALTHY node is served, a
\* BROKEN one is retried later with the queue untouched.
CheckHealth(t) ==
    \/ /\ health \in {"NOT_CONNECTED", "INVALID"}
       /\ Move(t, "done")
       /\ UNCHANGED <<queueVars, taken>>
    \/ /\ health = "BROKEN"
       /\ Move(t, "asleep")
       /\ UNCHANGED <<queueVars, taken>>
    \/ /\ health = "HEALTHY"
       /\ Dispatch(t) \/ DrainNothing(t)

\* From "while not self.is_shutting_down()" to the next suspension.
LoopHead(t) ==
    \/ /\ shutdownEvent
       /\ Move(t, "done")
       /\ UNCHANGED <<queueVars, taken>>
    \/ /\ ~shutdownEvent /\ ~workAvailable
       /\ Move(t, "waiting")
       /\ UNCHANGED <<queueVars, taken>>
    \/ /\ ~shutdownEvent /\ workAvailable
       /\ CheckHealth(t)

LoopVars == <<sessionVars, syncWorkerLock, syncWorkerTask, syncWaiters>>

WorkerFirstStep(t) ==
    /\ wpc[t] = "created"
    /\ LoopHead(t)
    /\ UNCHANGED <<LoopVars, failureVars, latest, acked, discarded, stranded>>

WorkerWake(t) ==
    /\ wpc[t] = "woken"
    /\ CheckHealth(t)
    /\ UNCHANGED <<LoopVars, failureVars, latest, acked, discarded, stranded>>

SleepOver(t) ==
    /\ wpc[t] = "asleep"
    /\ LoopHead(t)
    /\ UNCHANGED <<LoopVars, failureVars, latest, acked, discarded, stranded>>

\* The idle timer fires. It may do so after the event was set but before the
\* worker ran again: the pending cancellation wins over the result.
IdleTimeout(t) ==
    /\ wpc[t] \in {"waiting", "woken"}
    /\ wpc' = [wpc EXCEPT ![t] = "expired"]
    /\ UNCHANGED <<queueVars, sessionVars, failureVars, lockVars, batch,
                   syncWorkerTask, syncWaiters, history>>

\* wait_for raises TimeoutError and the worker leaves its loop.
WorkerExpire(t) ==
    /\ wpc[t] = "expired"
    /\ wpc' = [wpc EXCEPT ![t] = "done"]
    /\ stranded' = workAvailable
    /\ UNCHANGED <<queueVars, sessionVars, failureVars, lockVars, batch,
                   syncWorkerTask, syncWaiters, latest, taken, acked, discarded>>

\* The outcome of a sync: F are the users reported as failed. They are queued
\* again and the worker backs off; without any the loop goes on at once.
Settle(t, F) ==
    /\ acked' = [e \in Emails |->
                   IF e \in KeysOf(batch[t]) \ F THEN batch[t][e] ELSE acked[e]]
    /\ \/ /\ F = {}
          /\ ResetFailures
          /\ LoopHead(t)
       \/ /\ F # {}
          /\ RequeueUsers(Only(batch[t], F))
          /\ IncrementFailure
          /\ wpc' = [Woken(wpc) EXCEPT ![t] = "asleep"]
          /\ batch' = [batch EXCEPT ![t] = NoUsers]
          /\ nodeLock' = Unheld(t)
          /\ UNCHANGED <<nodeWaiters, taken>>
    /\ UNCHANGED <<LoopVars, latest, discarded, stranded>>

\* _sync_batch_users reports any part of the batch, gRPC after a broken stream
\* all of it, and raises nothing; the except branch has the effect of F = all.
BatchReturns(t) ==
    /\ wpc[t] = "batch"
    /\ \E F \in SUBSET KeysOf(batch[t]) : Settle(t, F)

ChunkAcquire(t) ==
    /\ wpc[t] = "lockWait"
    /\ nodeLock = Free
    /\ nodeLock' = t
    /\ nodeWaiters' = nodeWaiters \ {t}
    /\ wpc' = [wpc EXCEPT ![t] = "chunk"]
    /\ UNCHANGED <<queueVars, LoopVars, failureVars, batch, history>>

\* sync_users_chunked fails as a whole or not at all.
ChunkReturns(t) ==
    /\ wpc[t] = "chunk"
    /\ \E F \in {{}, KeysOf(batch[t])} : Settle(t, F)

\* The CancelledError of a disconnect ends the task wherever it is suspended;
\* the users it held are lost with it.
WorkerCancelled(t) ==
    /\ wpc[t] = "cancelled"
    /\ wpc' = [wpc EXCEPT ![t] = "done"]
    /\ batch' = [batch EXCEPT ![t] = NoUsers]
    /\ discarded' = Later(discarded, batch[t])
    /\ nodeLock' = Unheld(t)
    /\ nodeWaiters' = nodeWaiters \ {t}
    /\ UNCHANGED <<queueVars, LoopVars, failureVars, latest, taken, acked, stranded>>

\* The steps of a worker that the event loop, a sleep or a request completes.
WorkerStep(t) ==
    \/ WorkerFirstStep(t) \/ WorkerWake(t) \/ SleepOver(t)
    \/ WorkerExpire(t) \/ WorkerCancelled(t)
    \/ BatchReturns(t) \/ ChunkReturns(t)

WorkerNext ==
    \/ \E c \in Callers, S \in SUBSET Emails : UpdateUsers(c, S)
    \/ \E c \in Callers : EnsureAfterWait(c)
    \/ \E t \in Tasks : WorkerStep(t) \/ IdleTimeout(t) \/ ChunkAcquire(t)
=============================================================================
