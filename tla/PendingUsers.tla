---------------------------- MODULE PendingUsers ----------------------------
(***************************************************************************)
(* The queue of users waiting to be synchronised with the node: the        *)
(* dictionary Controller._pending_users (email -> User) and the event      *)
(* Controller._work_available.                                             *)
(*                                                                         *)
(* A User is abstracted to the order in which the application submitted    *)
(* it: version n of an email is the n-th user handed to update_user or     *)
(* update_users for that email. The dictionary is a total function whose   *)
(* value Absent says that the key is missing.                              *)
(*                                                                         *)
(* Every operator is the body of one method under _pending_users_lock.     *)
(* None of these bodies awaits anything, so on the event loop the lock is  *)
(* never contended and each body is one indivisible step.                  *)
(***************************************************************************)
EXTENDS Naturals

CONSTANT Emails         \* the keys of the dictionary

VARIABLES pendingUsers,     \* _pending_users
          workAvailable     \* _work_available.is_set()

Absent  == 0
Users   == [Emails -> Nat]
NoUsers == [e \in Emails |-> Absent]

\* The emails a dictionary holds, its restriction to some of them, and the
\* later version of each email in two dictionaries.
KeysOf(users) == {e \in Emails : users[e] # Absent}
Only(users, S) == [e \in Emails |-> IF e \in S THEN users[e] ELSE Absent]
Later(u, v) == [e \in Emails |-> IF u[e] > v[e] THEN u[e] ELSE v[e]]

PendingInit ==
    /\ pendingUsers = NoUsers
    /\ workAvailable = FALSE

\* update_user and update_users: the new version replaces a pending one.
QueueUsers(users) ==
    /\ pendingUsers' = [e \in Emails |->
                          IF users[e] # Absent THEN users[e] ELSE pendingUsers[e]]
    /\ workAvailable' = TRUE

\* Mutant: the event stays set.
ClearQueueKeepEvent ==
    /\ pendingUsers' = NoUsers
    /\ UNCHANGED workAvailable

\* flush_pending_users, the end of _cleanup_sync_worker, and the two branches
\* of _drain_pending_users, whose result is the queue before the step.
ClearQueue ==
    /\ pendingUsers' = NoUsers
    /\ workAvailable' = FALSE

\* Mutant: a failed user replaces the newer one.
RequeueOverwriting(users) ==
    /\ pendingUsers' = [e \in Emails |->
                          IF users[e] # Absent THEN users[e] ELSE pendingUsers[e]]
    /\ workAvailable' = (workAvailable \/ pendingUsers' # NoUsers)

\* Mutant: the worker is not told of the requeued users.
RequeueWithoutEvent(users) ==
    /\ pendingUsers' = [e \in Emails |->
                          IF pendingUsers[e] # Absent THEN pendingUsers[e] ELSE users[e]]
    /\ UNCHANGED workAvailable

\* _requeue_failed_users: a user comes back only if no other is pending for it.
RequeueUsers(users) ==
    /\ pendingUsers' = [e \in Emails |->
                          IF pendingUsers[e] # Absent THEN pendingUsers[e] ELSE users[e]]
    /\ workAvailable' = (workAvailable \/ pendingUsers' # NoUsers)

\* The event is set exactly while something is queued: a worker that waits on
\* the event misses no work, and one that is woken normally finds some.
EventMatchesQueue == workAvailable <=> pendingUsers # NoUsers
=============================================================================
