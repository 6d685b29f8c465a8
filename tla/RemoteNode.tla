----------------------------- MODULE RemoteNode -----------------------------
(***************************************************************************)
(* NodeBridge together with the node it represents: whether the node runs, *)
(* and what becomes of the Start and Stop requests on their way to it.     *)
(*                                                                         *)
(* The node is the environment. It executes a request at some moment while *)
(* the call waits, or, when the call has given up, later or never; it may  *)
(* refuse to start, and stop by itself at any time (a crash, a restart, or *)
(* the end of keep_alive). The bridge learns of the node only through the  *)
(* answers to its requests.                                                *)
(***************************************************************************)
EXTENDS NodeBridge

VARIABLES running,          \* the node has started and not stopped
          answer,           \* what the node answered to each call in flight
          late,             \* requests given up that may still be executed
          fault,            \* history: the bridge was not told of a change
          stopped           \* history: an undisturbed stop returned, no start since

nodeVars == <<running, answer, late, fault, stopped>>
remoteVars == <<vars, nodeVars>>

Answers == {"none", "started", "refused", "stopped"}
Unsettled == {"startWait", "startRpc", "startLock", "startJoin", "stopRpc"}

RemoteInit ==
    /\ Init
    /\ running = FALSE
    /\ answer = [o \in Ops |-> "none"]
    /\ late = {}
    /\ fault = FALSE
    /\ stopped = FALSE

\* An answer belongs to a request in flight of its kind.
RemoteTypeOK ==
    /\ TypeOK
    /\ running \in BOOLEAN
    /\ answer \in [Ops -> Answers]
    /\ \A o \in Ops :
         /\ answer[o] \in {"started", "refused"} => opc[o] = "startRpc"
         /\ answer[o] = "stopped" => opc[o] = "stopRpc"
    /\ late \subseteq {"start", "stop"}
    /\ fault \in BOOLEAN
    /\ stopped \in BOOLEAN

Forget(o) == answer' = [answer EXCEPT ![o] = "none"]

\* No other call has a Start or Stop request to send or to wait for.
Undisturbed(o) == \A p \in Ops \ {o} : opc[p] \notin Unsettled

\* A request that is given up before the node has executed it may be executed
\* later, or never.
GivenUp(request) == late' \in {late, late \cup {request}}

-----------------------------------------------------------------------------
(* The bridge *)

StartCalled(o) ==
    /\ CallStart(o)
    /\ stopped' = FALSE
    /\ UNCHANGED <<running, answer, late, fault>>

\* The answer is "started", and connect succeeds.
StartSucceeds(o) ==
    /\ answer[o] = "started"
    /\ StartConnects(o)
    /\ Forget(o)
    /\ UNCHANGED <<running, late, fault, stopped>>

\* The answer is "started", but connect raises: the bridge disconnects and
\* sends no Stop request, and the node goes on running.
StartUndone(o) ==
    /\ answer[o] = "started"
    /\ StartRejected(o)
    /\ Forget(o)
    /\ fault' = TRUE
    /\ UNCHANGED <<running, late, stopped>>

\* The call raises: the node refused, or its answer was lost, or the request
\* failed or timed out before the node executed it. The health stays what it
\* was, also when the node has been started or stopped by the request.
StartRaises(o) ==
    /\ StartFails(o)
    /\ \/ answer[o] = "none" /\ GivenUp("start") /\ UNCHANGED fault
       \/ answer[o] # "none" /\ fault' = TRUE /\ UNCHANGED late
    /\ Forget(o)
    /\ UNCHANGED <<running, stopped>>

\* Mutant: stop treats a BROKEN node as disconnected.
StopIgnoredBroken(o) ==
    /\ opc[o] = "idle" /\ health \in {"NOT_CONNECTED", "BROKEN"}
    /\ stopped' = Undisturbed(o)
    /\ UNCHANGED <<vars, running, answer, late, fault>>

\* stop on a node that is NOT_CONNECTED: it returns without a request, even if
\* a start, or the request of another stop, is under way. Only without one does
\* the node count as stopped.
StopIgnored(o) ==
    /\ opc[o] = "idle" /\ health = "NOT_CONNECTED"
    /\ stopped' = Undisturbed(o)
    /\ UNCHANGED <<vars, running, answer, late, fault>>

\* stop returns whether or not its request succeeded. If it did not, the node
\* may go on running, or stop later.
StopReturns(o) ==
    /\ opc[o] = "stopRpc"
    /\ RequestReturns(o)
    /\ stopped' = Undisturbed(o)
    /\ \/ answer[o] = "none" /\ fault' = TRUE /\ GivenUp("stop")
       \/ answer[o] # "none" /\ UNCHANGED <<fault, late>>
    /\ Forget(o)
    /\ UNCHANGED running

\* All that concerns neither the node's state nor a Start or Stop request.
OtherSteps(o) ==
    \/ StartLocked(o) \/ StartCleansUp(o) \/ StartJoined(o)
    \/ CallStop(o) \/ StopLocked(o) \/ StopCleansUp(o) \/ StopJoined(o)
    \/ \E flush \in BOOLEAN : CallSyncUsers(o, flush)
    \/ SyncUsersLocked(o) \/ CallAbandoned(o)
    \/ opc[o] = "syncRpc" /\ RequestReturns(o)

-----------------------------------------------------------------------------
(* The node *)

\* A Start request is executed: the node runs afterwards, or has refused and
\* does not. From here on the bridge is told of what happened.
NodeStarts(o) ==
    /\ opc[o] = "startRpc" /\ answer[o] = "none"
    /\ running' \in BOOLEAN
    /\ answer' = [answer EXCEPT ![o] = IF running' THEN "started" ELSE "refused"]
    /\ fault' = FALSE
    /\ UNCHANGED <<vars, late, stopped>>

NodeStops(o) ==
    /\ opc[o] = "stopRpc" /\ answer[o] = "none"
    /\ running' = FALSE
    /\ answer' = [answer EXCEPT ![o] = "stopped"]
    /\ fault' = FALSE
    /\ UNCHANGED <<vars, late, stopped>>

\* A request is executed that the bridge has given up.
NodeActsLate(request) ==
    /\ request \in late
    /\ late' = late \ {request}
    /\ running' = (request = "start")
    /\ fault' = TRUE
    /\ UNCHANGED <<vars, answer, stopped>>

\* The node stops by itself.
NodeFalls ==
    /\ running
    /\ running' = FALSE
    /\ fault' = TRUE
    /\ UNCHANGED <<vars, answer, late, stopped>>

-----------------------------------------------------------------------------
RemoteNext ==
    \/ WorkerNext /\ UNCHANGED <<opc, nodeVars>>
    \/ \E o \in Ops :
         \/ StartCalled(o) \/ StartSucceeds(o) \/ StartUndone(o) \/ StartRaises(o)
         \/ StopIgnored(o) \/ StopReturns(o)
         \/ OtherSteps(o) /\ UNCHANGED nodeVars
         \/ NodeStarts(o) \/ NodeStops(o)
    \/ \E h \in {"HEALTHY", "BROKEN", "INVALID"} : SetHealth(h) /\ UNCHANGED nodeVars
    \/ FlushPendingUsers /\ UNCHANGED nodeVars
    \/ \E c \in Callers : UpdateAbandoned(c) /\ UNCHANGED nodeVars
    \/ \E request \in {"start", "stop"} : NodeActsLate(request)
    \/ NodeFalls

RemoteSpec == RemoteInit /\ [][RemoteNext]_remoteVars

-----------------------------------------------------------------------------
(* Properties *)

\* When no start or stop is under way, the bridge calls the node connected
\* exactly if it runs; apart from what the bridge cannot know or does not
\* follow up: a node that falls, a request executed after it was given up, a
\* Start answered "refused" or not at all, a Stop that was not executed, and a
\* start undone by connect. Overlapping calls do not make them differ.
NodeInStep ==
    (~fault /\ health # "INVALID"
       /\ \A o \in Ops : opc[o] \notin {"startRpc", "stopRpc"} \cup Locking \cup Joining)
        => (running <=> health \in {"HEALTHY", "BROKEN"})

\* A stop that returned is effective: without a start that overlaps or follows
\* it, and without one of those faults, the node does not run and the bridge
\* does not take it for connected. (A stop that overlaps the first start of a
\* node returns at once and has no effect, as the health is still
\* NOT_CONNECTED; one that overlaps the request of another stop returns at once
\* while the node still runs.)
StopHolds ==
    stopped => /\ health \notin {"HEALTHY", "BROKEN"}
               /\ ~fault => ~running
=============================================================================
