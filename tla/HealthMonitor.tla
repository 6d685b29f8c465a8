---------------------------- MODULE HealthMonitor ----------------------------
(***************************************************************************)
(* The health check (_check_node_health of both transports) as a           *)
(* background task of the session: connect creates it, disconnect and the  *)
(* next connect cancel and join it (_cleanup_tasks, under _task_lock).     *)
(*                                                                         *)
(* start passes no tasks to connect today: this is the protocol of connect *)
(* with the task it is made for. Calls of connect and disconnect exclude   *)
(* each other, as start and stop make them under _node_lock, so _task_lock *)
(* is never contended. A health check is in one of these places:           *)
(*   created     its first step is scheduled                               *)
(*   asking      in get_backend_stats, with the health it has read         *)
(*   pausing     between two checks, after an answer or a failure          *)
(*   cancelled   cancel() was called, its last step is scheduled           *)
(*   done                                                                  *)
(* Intervals are not modelled: a pause may end at any time.                *)
(***************************************************************************)
EXTENDS NodeState

CONSTANTS Checks,           \* identities of health-check tasks, reused
          MaxRetries        \* max_retries (3), and bound: retries are counted
                            \* up to here, as the code only asks whether they
                            \* have reached it

ASSUME RetryAssumption == MaxRetries \in Nat \ {0}

VARIABLES cpc,              \* where each health check is
          lastHealth,       \* its local last_health
          retries,          \* its local retries
          tasks,            \* _tasks
          session,          \* where the current connect or disconnect is
          answering         \* the node answers get_backend_stats in time

vars == <<health, versionsKnown, shutdownEvent, failureCount, hardResetEvent,
          cpc, lastHealth, retries, tasks, session, answering>>
failureVars == <<failureCount, hardResetEvent>>
checkVars   == <<cpc, lastHealth, retries>>

CheckPlaces == {"created", "asking", "pausing", "cancelled", "done"}
Calls == {"idle", "connectJoin", "disconnectJoin", "closing"}

TypeOK ==
    /\ NodeStateTypeOK
    /\ cpc \in [Checks -> CheckPlaces]
    /\ lastHealth \in [Checks -> Healths]
    /\ retries \in [Checks -> 0..MaxRetries]
    /\ tasks \in SUBSET Checks
    /\ session \in Calls
    /\ answering \in BOOLEAN

Init ==
    /\ NodeStateInit
    /\ cpc = [k \in Checks |-> "done"]
    /\ lastHealth = [k \in Checks |-> "NOT_CONNECTED"]
    /\ retries = [k \in Checks |-> 0]
    /\ tasks = {}
    /\ session = "idle"
    /\ answering \in BOOLEAN

-----------------------------------------------------------------------------
(* The health check *)

\* From the head of the loop to the request. A node that is NOT_CONNECTED or
\* INVALID is not checked any more.
NextRound(k) ==
    /\ cpc[k] \in {"created", "pausing"}
    /\ \/ /\ shutdownEvent \/ health \in {"NOT_CONNECTED", "INVALID"}
          /\ cpc' = [cpc EXCEPT ![k] = "done"]
          /\ UNCHANGED lastHealth
       \/ /\ ~shutdownEvent /\ health \in Connected
          /\ cpc' = [cpc EXCEPT ![k] = "asking"]
          /\ lastHealth' = [lastHealth EXCEPT ![k] = health]
    /\ UNCHANGED <<health, versionsKnown, shutdownEvent, failureVars, retries,
                   tasks, session, answering>>

\* Mutant: a recovered node stays BROKEN.
NodeAnswersUnnoticed(k) ==
    /\ cpc[k] = "asking" /\ answering
    /\ cpc' = [cpc EXCEPT ![k] = "pausing"]
    /\ retries' = [retries EXCEPT ![k] = 0]
    /\ UNCHANGED <<health, versionsKnown, shutdownEvent, failureVars, lastHealth,
                   tasks, session, answering>>

\* The node answers: HEALTHY again if it was BROKEN when the round began.
NodeAnswers(k) ==
    /\ cpc[k] = "asking" /\ answering
    /\ cpc' = [cpc EXCEPT ![k] = "pausing"]
    /\ health' = IF lastHealth[k] = "BROKEN" THEN HealthAssigned("HEALTHY") ELSE health
    /\ retries' = [retries EXCEPT ![k] = 0]
    /\ UNCHANGED <<versionsKnown, shutdownEvent, failureVars, lastHealth, tasks,
                   session, answering>>

\* A request that fails or times out is the failed-th in a row of check k. If
\* these are too many, the node is BROKEN.
Failure(k, failed, tooMany) ==
    /\ cpc[k] = "asking" /\ ~answering
    /\ cpc' = [cpc EXCEPT ![k] = "pausing"]
    /\ retries' = [retries EXCEPT ![k] = failed]
    /\ health' = IF tooMany /\ lastHealth[k] # "BROKEN" THEN HealthAssigned("BROKEN") ELSE health
    /\ UNCHANGED <<versionsKnown, shutdownEvent, failureVars, lastHealth, tasks,
                   session, answering>>

\* Mutant: the count starts again in every round.
NodeFailsUncounted(k) == Failure(k, 1, 1 >= MaxRetries)

\* get_backend_stats fails: one more retry, counted up to the bound.
NodeFails(k) ==
    LET failed == IF retries[k] < MaxRetries THEN retries[k] + 1 ELSE MaxRetries
    IN  Failure(k, failed, failed >= MaxRetries)

CheckCancelled(k) ==
    /\ cpc[k] = "cancelled"
    /\ cpc' = [cpc EXCEPT ![k] = "done"]
    /\ UNCHANGED <<health, versionsKnown, shutdownEvent, failureVars, lastHealth,
                   retries, tasks, session, answering>>

CheckStep(k) == NextRound(k) \/ NodeAnswers(k) \/ NodeFails(k) \/ CheckCancelled(k)

-----------------------------------------------------------------------------
(* connect and disconnect *)

\* The start of _cleanup_tasks: with tasks in the list, those that are not done
\* are cancelled and the call suspends to join them.
CleanupBegins(place) ==
    /\ tasks # {}
    /\ cpc' = [k \in Checks |-> IF k \in tasks /\ cpc[k] # "done" THEN "cancelled" ELSE cpc[k]]
    /\ session' = place

\* The rest of connect. An INVALID node raises, after its versions are stored,
\* and start disconnects. (Until then the shutdown event is clear.)
ConnectEnds ==
    /\ versionsKnown' = TRUE
    /\ \/ /\ health # "INVALID"
          /\ health' = "HEALTHY"
          /\ \E k \in Checks :
                /\ cpc[k] = "done"
                /\ cpc' = [cpc EXCEPT ![k] = "created"]
                /\ retries' = [retries EXCEPT ![k] = 0]
                /\ tasks' = {k}
          /\ session' = "idle"
          /\ shutdownEvent' = FALSE
          /\ UNCHANGED lastHealth
       \/ /\ health = "INVALID"
          /\ shutdownEvent' = TRUE
          /\ tasks' = {}
          /\ session' = "closing"
          /\ UNCHANGED <<health, checkVars>>

\* connect: the shutdown event and the failures are reset before the tasks of
\* the last session are joined.
CallConnect ==
    /\ session = "idle"
    /\ ResetFailures
    /\ \/ /\ CleanupBegins("connectJoin")
          /\ shutdownEvent' = FALSE
          /\ UNCHANGED <<health, versionsKnown, lastHealth, retries, tasks>>
       \/ /\ tasks = {}
          /\ ConnectEnds
    /\ UNCHANGED answering

\* Mutant: connect does not wait for the cancelled tasks.
ConnectUnjoined ==
    /\ session = "connectJoin"
    /\ ConnectEnds
    /\ UNCHANGED <<failureVars, answering>>

ConnectJoined ==
    /\ session = "connectJoin"
    /\ \A k \in tasks : cpc[k] = "done"
    /\ ConnectEnds
    /\ UNCHANGED <<failureVars, answering>>

\* Mutant: disconnect cancels nothing.
DisconnectForgetting ==
    /\ session = "idle"
    /\ health # "NOT_CONNECTED"
    /\ shutdownEvent' = TRUE
    /\ session' = "closing"
    /\ tasks' = {}
    /\ UNCHANGED <<health, versionsKnown, failureVars, checkVars, answering>>

\* disconnect, called by stop on a node that is not NOT_CONNECTED.
CallDisconnect ==
    /\ session = "idle"
    /\ health # "NOT_CONNECTED"
    /\ shutdownEvent' = TRUE
    /\ \/ CleanupBegins("disconnectJoin")
       \/ /\ tasks = {} /\ session' = "closing"
          /\ UNCHANGED cpc
    /\ UNCHANGED <<health, versionsKnown, failureVars, lastHealth, retries, tasks, answering>>

DisconnectJoined ==
    /\ session = "disconnectJoin"
    /\ \A k \in tasks : cpc[k] = "done"
    /\ tasks' = {}
    /\ session' = "closing"
    /\ UNCHANGED <<health, versionsKnown, shutdownEvent, failureVars, checkVars, answering>>

\* The application abandons connect or disconnect while it joins the checks.
\* The cancellation is passed on to the checks, which have been cancelled before,
\* so the call still ends after them, and then raises: nothing else is done, the
\* list keeps the finished checks, and start does not disconnect.
CallAbandoned ==
    /\ session \in {"connectJoin", "disconnectJoin"}
    /\ \A k \in tasks : cpc[k] = "done"
    /\ session' = "idle"
    /\ UNCHANGED <<health, versionsKnown, shutdownEvent, failureVars, checkVars,
                   tasks, answering>>

\* The end of disconnect. Between the tasks and here it may suspend once more to
\* join the synchronisation worker, which takes a cancellation for the worker's.
CloseSession ==
    /\ session = "closing"
    /\ versionsKnown' = FALSE
    /\ health' = HealthAssigned("NOT_CONNECTED")
    /\ session' = "idle"
    /\ UNCHANGED <<shutdownEvent, failureVars, checkVars, tasks, answering>>

\* set_health, called by the application: HEALTHY or BROKEN on a node it has
\* connected, INVALID any time.
SetHealth(h) ==
    /\ h # "INVALID" => health # "NOT_CONNECTED"
    /\ health' = HealthAssigned(h)
    /\ UNCHANGED <<versionsKnown, shutdownEvent, failureVars, checkVars, tasks,
                   session, answering>>

\* The node stops answering in time, or answers again.
NodeChanges ==
    /\ answering' = ~answering
    /\ UNCHANGED <<health, versionsKnown, shutdownEvent, failureVars, checkVars,
                   tasks, session>>

-----------------------------------------------------------------------------
Next ==
    \/ \E k \in Checks : CheckStep(k)
    \/ CallConnect \/ ConnectJoined
    \/ CallDisconnect \/ DisconnectJoined \/ CallAbandoned \/ CloseSession
    \/ \E h \in {"HEALTHY", "BROKEN", "INVALID"} : SetHealth(h)
    \/ NodeChanges

Spec == Init /\ [][Next]_vars

\* Requests end by their timeouts, pauses end, and a call goes on when what it
\* joins is done. Nobody is obliged to call, and the node does as it likes.
Fairness ==
    /\ \A k \in Checks : WF_vars(CheckStep(k))
    /\ WF_vars(ConnectJoined) /\ WF_vars(DisconnectJoined) /\ WF_vars(CloseSession)

FairSpec == Spec /\ Fairness

-----------------------------------------------------------------------------
(* Properties *)

\* No health check survives its session: when a node is disconnected none is
\* unfinished, so that a late answer cannot report a health.
NoCheckOutlivesSession ==
    health = "NOT_CONNECTED" => \A k \in Checks : cpc[k] = "done"

\* There is never more than one health check, across reconnects: two would
\* report with different counts.
OneCheck == \A j, k \in Checks : cpc[j] # "done" /\ cpc[k] # "done" => j = k

\* A check that has not been cancelled watches the node.
Watched == \E k \in Checks : cpc[k] \in {"created", "asking", "pausing"}

\* A node that stops answering is reported BROKEN, whatever the application
\* reports meanwhile.
LossNoticed == <>[](Watched /\ ~answering) => []<>(health = "BROKEN")

\* A node that answers again is reported HEALTHY.
ReturnNoticed == <>[](Watched /\ answering) => []<>(health = "HEALTHY")
=============================================================================
