------------------------- MODULE HealthMonitorProofs -------------------------
(***************************************************************************)
(* Proofs of the safety properties of HealthMonitor. That a check ends     *)
(* with its session and that there is one check at most both follow from   *)
(* the discipline of _tasks: every check that is not done is in the list,  *)
(* the list has one element at most, and it is emptied only after its      *)
(* elements have been cancelled and joined.                                *)
(***************************************************************************)
EXTENDS HealthMonitor, TLAPS

\* The list of tasks, and what a suspended connect or disconnect has done to it.
TasksInv ==
    /\ \A k \in Checks : cpc[k] # "done" => k \in tasks
    /\ \A j, k \in tasks : j = k
    /\ session \in {"connectJoin", "disconnectJoin"}
          => \A k \in tasks : cpc[k] \in {"cancelled", "done"}
    /\ session = "closing" => tasks = {}
    /\ health = "NOT_CONNECTED" => tasks = {}

MonitorInv == TypeOK /\ TasksInv /\ VersionsMatchHealth

\* The reset of the failures, and a count of zero retries, are within bounds.
LEMMA ZeroWithinBounds ==
    /\ 0 \in 0..MaxFailures /\ 0 \in 0..MaxRetries
    /\ ResetFailures => failureCount' \in 0..MaxFailures /\ hardResetEvent' \in BOOLEAN
<1>1. 0 \in 0..MaxFailures
      BY ThresholdAssumption DEF ThresholdAssumption
<1>2. 0 \in 0..MaxRetries
      BY RetryAssumption DEF RetryAssumption
<1> QED BY <1>1, <1>2 DEF ResetFailures

\* A step of a check keeps the list, and moves one task that is not done, to
\* "done" or, unless it has been cancelled, to another place. It assigns a
\* health of a connected node, if any.
LEMMA CheckMoves ==
    ASSUME TypeOK, NEW k \in Checks, CheckStep(k)
    PROVE  /\ cpc[k] # "done"
           /\ \E place \in CheckPlaces :
                 /\ cpc' = [cpc EXCEPT ![k] = place]
                 /\ cpc[k] = "cancelled" => place = "done"
           /\ health' \in {health, HealthAssigned("HEALTHY"), HealthAssigned("BROKEN")}
           /\ lastHealth' \in [Checks -> Healths]
           /\ retries' \in [Checks -> 0..MaxRetries]
           /\ UNCHANGED <<versionsKnown, shutdownEvent, failureVars, tasks, session, answering>>
<1> USE DEF TypeOK, NodeStateTypeOK, CheckPlaces, Healths
<1>1. CASE NextRound(k)
      BY <1>1 DEF NextRound, Connected
<1>2. CASE NodeAnswers(k)
      BY <1>2, RetryAssumption DEF NodeAnswers, RetryAssumption
<1>3. CASE NodeFails(k)
      <2> DEFINE failed == IF retries[k] < MaxRetries THEN retries[k] + 1 ELSE MaxRetries
      <2>1. failed \in 0..MaxRetries
            BY RetryAssumption DEF RetryAssumption
      <2>2. Failure(k, failed, failed >= MaxRetries)
            BY <1>3 DEF NodeFails
      <2> HIDE DEF failed
      <2> QED BY <2>1, <2>2 DEF Failure
<1>4. CASE CheckCancelled(k)
      BY <1>4 DEF CheckCancelled
<1> QED BY <1>1, <1>2, <1>3, <1>4 DEF CheckStep

\* The steps of the checks keep the invariant: one of them is not done, so the
\* session is not closed yet, and what it reports is the health of a session.
LEMMA CheckKeeps ==
    ASSUME MonitorInv, NEW k \in Checks, CheckStep(k)
    PROVE  MonitorInv'
<1> USE DEF MonitorInv, TypeOK, NodeStateTypeOK
<1>1. PICK place \in CheckPlaces :
          /\ cpc' = [cpc EXCEPT ![k] = place]
          /\ cpc[k] = "cancelled" => place = "done"
      BY CheckMoves
<1>2. health # "NOT_CONNECTED" /\ k \in tasks
      BY CheckMoves DEF TasksInv
<1>3. TypeOK'
      BY <1>1, CheckMoves DEF HealthAssigned, Healths, failureVars
<1>4. TasksInv'
      BY <1>1, <1>2, CheckMoves DEF TasksInv, HealthAssigned, CheckPlaces
<1>5. VersionsMatchHealth'
      BY <1>2, CheckMoves DEF VersionsMatchHealth, HealthAssigned, Connected, Healths
<1> QED BY <1>3, <1>4, <1>5

\* The end of connect: with no check left from the last session it creates one,
\* or leaves the session of an INVALID node.
LEMMA ConnectKeeps ==
    ASSUME MonitorInv, ConnectEnds, \A k \in Checks : cpc[k] = "done",
           failureCount' \in 0..MaxFailures, hardResetEvent' \in BOOLEAN, UNCHANGED answering
    PROVE  MonitorInv'
<1> USE DEF MonitorInv, TypeOK, NodeStateTypeOK, CheckPlaces, Calls, Healths
<1>1. CASE health # "INVALID"
      <2>1. PICK k \in Checks :
                /\ cpc' = [cpc EXCEPT ![k] = "created"]
                /\ retries' = [retries EXCEPT ![k] = 0]
                /\ tasks' = {k}
            BY <1>1 DEF ConnectEnds
      <2>2. /\ health' = "HEALTHY" /\ session' = "idle"
            /\ versionsKnown' = TRUE /\ shutdownEvent' = FALSE
            /\ UNCHANGED lastHealth
            BY <1>1 DEF ConnectEnds
      <2>3. TypeOK'
            BY <2>1, <2>2, ZeroWithinBounds
      <2>4. TasksInv'
            BY <2>1, <2>2 DEF TasksInv
      <2> QED BY <2>2, <2>3, <2>4 DEF VersionsMatchHealth
<1>2. CASE health = "INVALID"
      <2>1. /\ versionsKnown' = TRUE /\ shutdownEvent' = TRUE /\ tasks' = {}
            /\ session' = "closing" /\ UNCHANGED <<health, checkVars>>
            BY <1>2 DEF ConnectEnds
      <2> QED BY <1>2, <2>1 DEF TasksInv, VersionsMatchHealth, Connected, checkVars
<1> QED BY <1>1, <1>2

\* The inductive invariant: types, the discipline of _tasks, and versions that
\* agree with the health.
THEOREM MonitorInvariant == Spec => []MonitorInv
<1>1. Init => MonitorInv
      BY ZeroWithinBounds
      DEF Init, NodeStateInit, MonitorInv, TypeOK, NodeStateTypeOK, TasksInv,
          VersionsMatchHealth, CheckPlaces, Calls, Healths, Connected
<1>2. MonitorInv /\ [Next]_vars => MonitorInv'
      <2> SUFFICES ASSUME MonitorInv, [Next]_vars
                   PROVE  MonitorInv'
          OBVIOUS
      <2> USE DEF MonitorInv, TypeOK, NodeStateTypeOK, TasksInv, VersionsMatchHealth,
                  CheckPlaces, Calls, Healths, Connected
      <2>1. CASE \E k \in Checks : CheckStep(k)
            BY <2>1, CheckKeeps
      <2>2. CASE CallConnect
            <3>1. failureCount' \in 0..MaxFailures /\ hardResetEvent' \in BOOLEAN
                  BY <2>2, ZeroWithinBounds DEF CallConnect
            <3>2. CASE tasks = {}
                  BY <2>2, <3>1, <3>2, ConnectKeeps DEF CallConnect, CleanupBegins
            <3>3. CASE tasks # {}
                  <4>1. /\ cpc' = [k \in Checks |-> IF k \in tasks /\ cpc[k] # "done"
                                                    THEN "cancelled" ELSE cpc[k]]
                        /\ session' = "connectJoin" /\ shutdownEvent' = FALSE
                        /\ UNCHANGED <<health, versionsKnown, lastHealth, retries, tasks, answering>>
                        BY <2>2, <3>3 DEF CallConnect, CleanupBegins
                  <4> QED BY <3>1, <3>3, <4>1
            <3> QED BY <3>2, <3>3
      <2>3. CASE ConnectJoined
            <3>1. \A k \in Checks : cpc[k] = "done"
                  BY <2>3 DEF ConnectJoined
            <3> QED BY <2>3, <3>1, ConnectKeeps DEF ConnectJoined, failureVars
      <2>4. CASE CallDisconnect
            BY <2>4 DEF CallDisconnect, CleanupBegins, failureVars
      <2>5. CASE DisconnectJoined
            BY <2>5 DEF DisconnectJoined, failureVars, checkVars
      <2>5a. CASE CallAbandoned
            BY <2>5a DEF CallAbandoned, failureVars, checkVars
      <2>6. CASE CloseSession
            BY <2>6 DEF CloseSession, HealthAssigned, failureVars, checkVars
      <2>7. CASE \E h \in {"HEALTHY", "BROKEN", "INVALID"} : SetHealth(h)
            BY <2>7 DEF SetHealth, HealthAssigned, failureVars, checkVars
      <2>8. CASE NodeChanges
            BY <2>8 DEF NodeChanges, failureVars, checkVars
      <2>9. CASE UNCHANGED vars
            BY <2>9 DEF vars
      <2> QED BY <2>1, <2>2, <2>3, <2>4, <2>5, <2>6, <2>7, <2>8, <2>5a, <2>9
                DEF Next
<1> QED BY <1>1, <1>2, PTL DEF Spec

\* Every variable keeps its type, over all connects, disconnects and checks.
THEOREM MonitorTypes == Spec => []TypeOK
<1>1. MonitorInv => TypeOK
      BY DEF MonitorInv
<1> QED BY <1>1, MonitorInvariant, PTL

\* A disconnected node has no health check that could still report a health.
THEOREM CheckEndsWithSession == Spec => []NoCheckOutlivesSession
<1>1. MonitorInv => NoCheckOutlivesSession
      BY DEF MonitorInv, TasksInv, NoCheckOutlivesSession
<1> QED BY <1>1, MonitorInvariant, PTL

\* Reconnecting never leaves two health checks running.
THEOREM SingleCheck == Spec => []OneCheck
<1>1. MonitorInv => OneCheck
      BY DEF MonitorInv, TasksInv, OneCheck
<1> QED BY <1>1, MonitorInvariant, PTL

\* A late report of a health check never contradicts the versions.
THEOREM ReportsFollowVersions == Spec => []VersionsMatchHealth
<1>1. MonitorInv => VersionsMatchHealth
      BY DEF MonitorInv
<1> QED BY <1>1, MonitorInvariant, PTL

\* What NodeBridge assumes of a health check: it does what the application may do
\* with set_health (the action SetHealth there), or nothing to the node's state.
ReportsHealth ==
    /\ \/ UNCHANGED health
       \/ \E h \in {"HEALTHY", "BROKEN"} : health # "NOT_CONNECTED" /\ health' = HealthAssigned(h)
    /\ UNCHANGED <<versionsKnown, shutdownEvent, failureVars>>

\* Every step of a health check is one that NodeBridge allows, however it races
\* with connect, disconnect and the application: no answer is reported once the
\* node is disconnected.
THEOREM ChecksReport == Spec => [][\A k \in Checks : CheckStep(k) => ReportsHealth]_vars
<1>1. ASSUME MonitorInv, NEW k \in Checks, CheckStep(k)
      PROVE  ReportsHealth
      <2>1. /\ cpc[k] # "done" /\ health' \in {health, HealthAssigned("HEALTHY"), HealthAssigned("BROKEN")}
            /\ UNCHANGED <<versionsKnown, shutdownEvent, failureVars>>
            BY <1>1, CheckMoves DEF MonitorInv
      <2>2. health # "NOT_CONNECTED"
            BY <1>1, <2>1 DEF MonitorInv, TasksInv
      <2> QED BY <2>1, <2>2 DEF ReportsHealth
<1>2. MonitorInv => [\A k \in Checks : CheckStep(k) => ReportsHealth]_vars
      BY <1>1
<1> QED BY <1>2, MonitorInvariant, PTL
=============================================================================
