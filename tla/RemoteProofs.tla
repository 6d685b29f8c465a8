---------------------------- MODULE RemoteProofs ----------------------------
(***************************************************************************)
(* Proofs about RemoteNode. Every step of it is a step of NodeBridge or    *)
(* leaves the bridge alone, so that the theorems about NodeBridge hold of  *)
(* a bridge with its node; then the bridge and the node are in step.       *)
(***************************************************************************)
EXTENDS RemoteNode, SessionProofs

-----------------------------------------------------------------------------
(* The bridge in RemoteNode is the one of NodeBridge *)

\* Every step of the bridge with its node is one of the bridge, or leaves it alone.
LEMMA RemoteStep == [RemoteNext]_remoteVars => [Next]_vars
<1> SUFFICES ASSUME [RemoteNext]_remoteVars PROVE Next \/ UNCHANGED vars
    OBVIOUS
<1>1. ASSUME NEW o \in Ops,
             \/ StartCalled(o) \/ StartSucceeds(o) \/ StartUndone(o) \/ StartRaises(o)
             \/ StopReturns(o)
      PROVE  Next
      BY <1>1 DEF StartCalled, StartSucceeds, StartUndone, StartRaises, StopReturns, Next
<1>2. ASSUME NEW o \in Ops, OtherSteps(o)
      PROVE  Next
      BY <1>2 DEF OtherSteps, Next
<1>3. ASSUME NEW o \in Ops, StopIgnored(o) \/ NodeStarts(o) \/ NodeStops(o)
      PROVE  UNCHANGED vars
      BY <1>3 DEF StopIgnored, NodeStarts, NodeStops
<1>4. ASSUME (\E request \in {"start", "stop"} : NodeActsLate(request)) \/ NodeFalls
      PROVE  UNCHANGED vars
      BY <1>4 DEF NodeActsLate, NodeFalls
<1>5. CASE WorkerNext /\ UNCHANGED <<opc, nodeVars>>
      BY <1>5 DEF Next
<1>6. ASSUME \/ \E h \in {"HEALTHY", "BROKEN", "INVALID"} : SetHealth(h)
             \/ FlushPendingUsers
             \/ \E c \in Callers : UpdateAbandoned(c)
      PROVE  Next
      BY <1>6 DEF Next
<1>7. CASE UNCHANGED remoteVars
      BY <1>7 DEF remoteVars
<1> QED BY <1>1, <1>2, <1>3, <1>4, <1>5, <1>6, <1>7 DEF RemoteNext

\* All that is proved of NodeBridge holds here.
THEOREM BridgeKept == RemoteSpec => Spec
<1>1. RemoteInit => Init
      BY DEF RemoteInit
<1> QED BY <1>1, RemoteStep, PTL DEF RemoteSpec, Spec

-----------------------------------------------------------------------------
(* Type correctness *)

\* The steps that concern neither the node's state nor a request to it: no call
\* begins or ends to wait for an answer to Start or Stop that has come already.
LEMMA OtherPlaces ==
    ASSUME TypeOK, NEW o \in Ops, OtherSteps(o)
    PROVE  /\ opc[o] \notin {"startRpc", "stopRpc"}
           /\ \A p \in Ops \ {o} : opc'[p] = opc[p]
BY DEF OtherSteps, StartLocked, StartCleansUp, StartJoined, Joined, CallStop, StopDirectly,
       StopQueued, StopLocked, StopCleansUp, StopJoined, Disconnect, CleanupLocked,
       CleanupSyncWorker, CallSyncUsers, Acquire, Handed, SyncUsersLocked, CallAbandoned,
       RequestReturns, TypeOK, OpPlaces

\* Every variable keeps its type, and every answer belongs to a request in
\* flight of its kind.
THEOREM RemoteTypes == RemoteSpec => []RemoteTypeOK
<1>1. RemoteInit => RemoteTypeOK
      BY InitType DEF RemoteInit, RemoteTypeOK, Answers
<1>2. RemoteTypeOK /\ [RemoteNext]_remoteVars => RemoteTypeOK'
      <2> SUFFICES ASSUME RemoteTypeOK, [RemoteNext]_remoteVars PROVE RemoteTypeOK'
          OBVIOUS
      <2>1. TypeOK /\ TypeOK'
            BY RemoteStep, NextType DEF RemoteTypeOK
      <2> USE <2>1 DEF RemoteTypeOK, Answers
      <2>2. ASSUME UNCHANGED <<opc, nodeVars>> PROVE RemoteTypeOK'
            BY <2>2 DEF nodeVars
      <2>3. ASSUME NEW o \in Ops, OtherSteps(o), UNCHANGED nodeVars PROVE RemoteTypeOK'
            BY <2>3, OtherPlaces DEF nodeVars
      <2>4. ASSUME NEW o \in Ops, StartCalled(o) PROVE RemoteTypeOK'
            BY <2>4 DEF StartCalled, CallStart, Acquire, TypeOK
      <2>5. ASSUME NEW o \in Ops, StartSucceeds(o) PROVE RemoteTypeOK'
            BY <2>5 DEF StartSucceeds, StartConnects, Forget, TypeOK
      <2>6. ASSUME NEW o \in Ops, StartUndone(o) PROVE RemoteTypeOK'
            BY <2>6 DEF StartUndone, StartRejected, Disconnect, CleanupSyncWorker, Forget, TypeOK
      <2>7. ASSUME NEW o \in Ops, StartRaises(o) PROVE RemoteTypeOK'
            BY <2>7 DEF StartRaises, StartFails, Forget, GivenUp, TypeOK
      <2>8. ASSUME NEW o \in Ops, StopIgnored(o) PROVE RemoteTypeOK'
            BY <2>8 DEF StopIgnored, Undisturbed, vars
      <2>9. ASSUME NEW o \in Ops, StopReturns(o) PROVE RemoteTypeOK'
            BY <2>9 DEF StopReturns, RequestReturns, Undisturbed, Forget, GivenUp, TypeOK
      <2>10. ASSUME NEW o \in Ops, NodeStarts(o) \/ NodeStops(o) PROVE RemoteTypeOK'
             BY <2>10 DEF NodeStarts, NodeStops, vars
      <2>11. ASSUME (\E request \in {"start", "stop"} : NodeActsLate(request)) \/ NodeFalls
             PROVE  RemoteTypeOK'
             BY <2>11 DEF NodeActsLate, NodeFalls, vars
      <2>12. ASSUME \/ \E h \in {"HEALTHY", "BROKEN", "INVALID"} : SetHealth(h)
                    \/ FlushPendingUsers
                    \/ \E c \in Callers : UpdateAbandoned(c)
             PROVE  UNCHANGED opc
             BY <2>12 DEF SetHealth, FlushPendingUsers, UpdateAbandoned
      <2>13. CASE UNCHANGED remoteVars
             BY <2>2, <2>13 DEF remoteVars, vars
      <2> QED BY <2>2, <2>3, <2>4, <2>5, <2>6, <2>7, <2>8, <2>9, <2>10, <2>11, <2>12, <2>13
              DEF RemoteNext
<1> QED BY <1>1, <1>2, PTL DEF RemoteSpec

-----------------------------------------------------------------------------
(* The node in step *)

\* A call from whose answer the bridge has yet to draw its conclusion.
Settled(o) == opc[o] \notin {"stopRpc", "startLock", "startJoin"} /\ answer[o] = "none"

\* The inductive invariant. Apart from the faults, bridge and node agree when no
\* answer is on its way, an answer on its way tells the state of the node, and a
\* call that waits for Stop, or has undone a start, has disconnected the bridge.
RemoteInv ==
    /\ (~fault /\ health # "INVALID" /\ \A o \in Ops : Settled(o))
          => (running <=> health \in Connected)
    /\ \A o \in Ops :
         /\ (~fault /\ answer[o] = "started") => running
         /\ (~fault /\ answer[o] = "stopped") => ~running
         /\ opc[o] = "stopRpc" => health \notin Connected
         /\ opc[o] \in {"startLock", "startJoin"} => fault
         /\ stopped => opc[o] \notin {"startWait", "startRpc", "startLock", "startJoin"}
    /\ stopped => health \notin Connected /\ (~fault => ~running)

\* Two calls never wait for an answer at the same time (_node_lock).
LEMMA OneRequest ==
    ASSUME TypeOK, ControlInv, NEW o \in Ops, NEW p \in Ops,
           opc[o] \in {"startRpc", "stopRpc"} \cup Locking \cup Joining,
           opc[p] \in {"startRpc", "stopRpc"} \cup Locking \cup Joining
    PROVE  o = p
BY DEF ControlInv, Locking, Joining

\* What disconnect and its end do to the health.
LEMMA ClosedHealth ==
    CloseSession => health' \notin Connected /\ (health = "INVALID" => health' = "INVALID")
BY DEF CloseSession, HealthAssigned, Connected

\* The steps that leave the node alone: they close the session only for a Stop
\* request or to undo a start, and begin no start.
LEMMA OtherEffects ==
    ASSUME TypeOK, NEW o \in Ops, OtherSteps(o)
    PROVE  /\ opc'[o] \in {"startWait", "startRpc"} => opc[o] = "startWait"
           /\ opc'[o] \in {"startLock", "startJoin"} => opc[o] = "startLock"
           /\ \/ /\ health' = health /\ opc'[o] # "stopRpc"
                 /\ opc[o] = "startLock" => opc'[o] = "startJoin"
              \/ /\ health' \notin Connected
                 /\ opc'[o] = "stopRpc" \/ opc[o] \in {"startLock", "startJoin"}
<1> USE ClosedHealth DEF TypeOK, OpPlaces
<1>1. CASE StartLocked(o) \/ SyncUsersLocked(o) \/ CallAbandoned(o) \/ RequestReturns(o)
      BY <1>1 DEF StartLocked, SyncUsersLocked, CallAbandoned, RequestReturns, Handed, sessionVars
<1>2. CASE StartJoined(o) \/ StopJoined(o)
      BY <1>2 DEF StartJoined, StopJoined, Joined
<1>3. ASSUME NEW join, NEW place, NEW known, CleanupSyncWorker(o, join, place, known)
      PROVE  \/ opc'[o] = join /\ health' = health
             \/ opc'[o] = place /\ health' \notin Connected
      BY <1>3 DEF CleanupSyncWorker
<1>4. ASSUME Disconnect(o, "stopLock", "stopJoin", "stopRpc", versionsKnown)
      PROVE  \/ opc'[o] \in {"stopLock", "stopJoin"} /\ health' = health
             \/ opc'[o] = "stopRpc" /\ health' \notin Connected
      BY <1>3, <1>4 DEF Disconnect
<1>6. CASE CallStop(o) \/ StopLocked(o)
      BY <1>4, <1>6 DEF CallStop, StopDirectly, StopQueued, StopLocked, Handed, sessionVars
<1>7. CASE StartCleansUp(o) \/ StopCleansUp(o)
      BY <1>3, <1>7 DEF StartCleansUp, StopCleansUp, CleanupLocked
<1>5. CASE \E flush \in BOOLEAN : CallSyncUsers(o, flush)
      BY <1>5 DEF CallSyncUsers, Acquire, sessionVars
<1> QED BY <1>1, <1>2, <1>5, <1>6, <1>7 DEF OtherSteps

\* Every step keeps the invariant.
LEMMA RemoteNextInv ==
    IInv /\ RemoteTypeOK /\ RemoteInv /\ [RemoteNext]_remoteVars => RemoteInv'
<1> SUFFICES ASSUME IInv, RemoteTypeOK, RemoteInv, [RemoteNext]_remoteVars
             PROVE  RemoteInv'
    OBVIOUS
<1> USE DEF RemoteTypeOK, Answers, Settled, IInv
<1>1. ASSUME UNCHANGED <<opc, health, nodeVars>> PROVE RemoteInv'
      BY <1>1 DEF nodeVars, RemoteInv
<1>2. ASSUME NEW o \in Ops, OtherSteps(o), UNCHANGED nodeVars PROVE RemoteInv'
      BY <1>2, OtherPlaces, OtherEffects DEF nodeVars, RemoteInv
<1>3. ASSUME NEW o \in Ops, StartCalled(o) PROVE RemoteInv'
      <2>1. /\ opc[o] = "idle" /\ opc'[o] \in {"startWait", "startRpc"}
            /\ \A p \in Ops \ {o} : opc'[p] = opc[p]
            /\ UNCHANGED <<health, running, answer, fault>> /\ stopped' = FALSE
            BY <1>3 DEF StartCalled, CallStart, Acquire, sessionVars, TypeOK
      <2> QED BY <2>1 DEF RemoteInv
<1>4. ASSUME NEW o \in Ops, StartSucceeds(o) PROVE RemoteInv'
      <2>1. /\ opc[o] = "startRpc" /\ opc'[o] = "idle" /\ health' = "HEALTHY"
            /\ answer[o] = "started" /\ answer'[o] = "none"
            /\ \A p \in Ops \ {o} : opc'[p] = opc[p] /\ answer'[p] = answer[p]
            /\ UNCHANGED <<running, fault, stopped>>
            BY <1>4 DEF StartSucceeds, StartConnects, Forget, TypeOK
      <2>2. \A p \in Ops \ {o} : opc[p] \notin {"stopRpc", "startLock", "startJoin"}
            BY <2>1, OneRequest DEF Locking, Joining
      <2> QED BY <2>1, <2>2 DEF RemoteInv, Connected
<1>5. ASSUME NEW o \in Ops, StartUndone(o) PROVE RemoteInv'
      <2>1. /\ opc[o] = "startRpc" /\ opc'[o] \in {"startLock", "startJoin", "idle"}
            /\ \A p \in Ops \ {o} : opc'[p] = opc[p] /\ answer'[p] = answer[p]
            /\ answer'[o] = "none" /\ fault' = TRUE /\ UNCHANGED <<running, stopped>>
            /\ health' = health \/ health' \notin Connected
            BY <1>5, ClosedHealth
            DEF StartUndone, StartRejected, Disconnect, CleanupSyncWorker, Forget, TypeOK
      <2> QED BY <2>1 DEF RemoteInv
<1>6. ASSUME NEW o \in Ops, StartRaises(o) PROVE RemoteInv'
      <2>1. /\ opc[o] = "startRpc" /\ opc'[o] = "idle"
            /\ \A p \in Ops \ {o} : opc'[p] = opc[p] /\ answer'[p] = answer[p]
            /\ answer'[o] = "none" /\ UNCHANGED <<health, running, stopped>>
            /\ fault' = TRUE \/ (fault' = fault /\ answer[o] = "none")
            BY <1>6 DEF StartRaises, StartFails, Forget, sessionVars, TypeOK
      <2> QED BY <2>1 DEF RemoteInv
<1>7. ASSUME NEW o \in Ops, StopIgnored(o) PROVE RemoteInv'
      <2>1. /\ opc[o] = "idle" /\ health = "NOT_CONNECTED"
            /\ UNCHANGED <<opc, health, running, answer, fault>>
            /\ stopped' => \A p \in Ops \ {o} :
                             opc[p] \notin {"startWait", "startRpc", "startLock", "startJoin", "stopRpc"}
            BY <1>7 DEF StopIgnored, Undisturbed, Unsettled, vars
      <2>2. stopped' => \A p \in Ops : Settled(p)
            BY <2>1
      <2> QED BY <2>1, <2>2 DEF RemoteInv, Connected
<1>8. ASSUME NEW o \in Ops, StopReturns(o) PROVE RemoteInv'
      <2>1. /\ opc[o] = "stopRpc" /\ opc'[o] = "idle"
            /\ \A p \in Ops \ {o} : opc'[p] = opc[p] /\ answer'[p] = answer[p]
            /\ answer'[o] = "none" /\ UNCHANGED <<health, running>>
            /\ fault' = TRUE \/ (fault' = fault /\ answer[o] = "stopped")
            /\ stopped' => \A p \in Ops \ {o} :
                             opc[p] \notin {"startWait", "startRpc", "startLock", "startJoin", "stopRpc"}
            BY <1>8 DEF StopReturns, RequestReturns, Undisturbed, Unsettled, Forget, sessionVars,
                        TypeOK
      <2> QED BY <2>1 DEF RemoteInv
<1>9. ASSUME NEW o \in Ops, NodeStarts(o) \/ NodeStops(o) PROVE RemoteInv'
      <2>1. /\ opc[o] \in {"startRpc", "stopRpc"} /\ UNCHANGED <<opc, health, stopped>>
            /\ \A p \in Ops \ {o} : answer'[p] = answer[p]
            /\ answer'[o] = "started" => running'
            /\ answer'[o] = "stopped" => ~running'
            /\ answer'[o] # "none"
            /\ opc[o] = "startRpc" \/ ~running'
            BY <1>9 DEF NodeStarts, NodeStops, vars
      <2>2. \A p \in Ops \ {o} : opc[p] \notin {"startRpc", "stopRpc", "startLock", "startJoin"}
            BY <2>1, OneRequest DEF Locking, Joining
      <2> QED BY <2>1, <2>2 DEF RemoteInv
<1>10. ASSUME (\E request \in {"start", "stop"} : NodeActsLate(request)) \/ NodeFalls
       PROVE  RemoteInv'
       BY <1>10 DEF NodeActsLate, NodeFalls, vars, RemoteInv
<1>11. ASSUME NEW h \in {"HEALTHY", "BROKEN", "INVALID"}, SetHealth(h), UNCHANGED nodeVars
       PROVE  RemoteInv'
       <2>1. UNCHANGED opc /\ (health' \in Connected => health \in Connected)
             /\ (health' # "INVALID" => health' \in Connected)
             BY <1>11 DEF SetHealth, HealthAssigned, Connected, TypeOK, WorkerTypeOK,
                          NodeStateTypeOK, Healths
       <2> QED BY <1>11, <2>1 DEF RemoteInv, nodeVars, Connected
<1>12. ASSUME FlushPendingUsers \/ \E c \in Callers : UpdateAbandoned(c)
       PROVE  UNCHANGED <<opc, health>>
       BY <1>12 DEF FlushPendingUsers, UpdateAbandoned, sessionVars
<1>13. WorkerNext => UNCHANGED health
       BY HealthKept DEF sessionVars
<1>14. CASE UNCHANGED remoteVars
       BY <1>1, <1>14 DEF remoteVars, vars
<1> QED BY <1>1, <1>2, <1>3, <1>4, <1>5, <1>6, <1>7, <1>8, <1>9, <1>10, <1>11, <1>12, <1>13,
           <1>14 DEF RemoteNext

\* The invariant holds of every behaviour.
THEOREM RemoteInvariant == RemoteSpec => []RemoteInv
<1>1. RemoteInit => RemoteInv
      BY DEF RemoteInit, Init, WorkerInit, NodeStateInit, RemoteInv, Connected
<1> QED BY <1>1, RemoteNextInv, BridgeKept, Invariant, RemoteTypes, PTL DEF RemoteSpec

\* When no start or stop is under way, bridge and node agree, apart from what
\* the bridge cannot know or does not follow up.
THEOREM InStep == RemoteSpec => []NodeInStep
<1>1. RemoteTypeOK /\ RemoteInv => NodeInStep
      BY DEF RemoteTypeOK, RemoteInv, Settled, NodeInStep, Connected, Answers, Locking, Joining
<1> QED BY <1>1, RemoteTypes, RemoteInvariant, PTL

\* A stop that returned, and that no start overlaps or follows, is effective.
THEOREM StopEffective == RemoteSpec => []StopHolds
<1>1. RemoteInv => StopHolds
      BY DEF RemoteInv, StopHolds, Connected
<1> QED BY <1>1, RemoteInvariant, PTL
=============================================================================
