------------------------------ MODULE NodeState ------------------------------
(***************************************************************************)
(* What the controller knows of its node: _health, the two version         *)
(* strings, _shutdown_event, and the hard-reset mechanism                  *)
(* (_user_sync_failure_count and _hard_reset_event).                       *)
(*                                                                         *)
(* The bodies under _health_lock, _version_lock and _failure_count_lock    *)
(* await nothing but locks of the same kind, so each operator below is one *)
(* indivisible step of the event loop. _node_version and _core_version are *)
(* always assigned together: versionsKnown says whether they are non-empty.*)
(***************************************************************************)
EXTENDS Naturals

CONSTANTS HardResetThreshold,   \* _hard_reset_threshold (5 in the code)
          MaxFailures           \* bound: failures are counted up to here

ASSUME ThresholdAssumption ==
    /\ HardResetThreshold \in Nat \ {0}
    /\ MaxFailures \in Nat
    /\ MaxFailures >= HardResetThreshold

VARIABLES health,           \* _health
          versionsKnown,    \* _node_version and _core_version are not ""
          shutdownEvent,    \* _shutdown_event.is_set()
          failureCount,     \* _user_sync_failure_count
          hardResetEvent    \* _hard_reset_event.is_set()

Healths == {"NOT_CONNECTED", "BROKEN", "HEALTHY", "INVALID"}
Connected == {"HEALTHY", "BROKEN"}

NodeStateInit ==
    /\ health = "NOT_CONNECTED"
    /\ versionsKnown = FALSE
    /\ shutdownEvent = FALSE
    /\ failureCount = 0
    /\ hardResetEvent = FALSE

NodeStateTypeOK ==
    /\ health \in Healths
    /\ versionsKnown \in BOOLEAN
    /\ shutdownEvent \in BOOLEAN
    /\ failureCount \in 0..MaxFailures
    /\ hardResetEvent \in BOOLEAN

\* The health after an attempt to assign h: INVALID cannot be left.
\* Mutant: INVALID is overwritten.
HealthAssignedUnguarded(h) == h
HealthAssigned(h) == IF health = "INVALID" THEN "INVALID" ELSE h

\* The count after one more failure. It only matters whether it has reached the
\* threshold, so it stays at MaxFailures once there.
OneMore == IF failureCount < MaxFailures THEN failureCount + 1 ELSE failureCount

\* _increment_user_sync_failure
IncrementFailure ==
    /\ failureCount' = OneMore
    /\ hardResetEvent' = (hardResetEvent \/ failureCount' >= HardResetThreshold)

\* Mutant: a success takes back one failure only.
ResetDecrementing ==
    /\ failureCount' = failureCount - 1
    /\ hardResetEvent' = FALSE

\* _reset_user_sync_failure_count, and the same reset at the start of connect
ResetFailures ==
    /\ failureCount' = 0
    /\ hardResetEvent' = FALSE

\* A hard reset is requested exactly while the batches failed since the last
\* successful one, or since the last connect, have reached the threshold.
HardResetMatchesCount == hardResetEvent <=> failureCount >= HardResetThreshold

\* Versions and health change together: a connected node has its versions, a
\* disconnected one has none (the comments of connect and disconnect).
VersionsMatchHealth ==
    /\ health \in Connected => versionsKnown
    /\ health = "NOT_CONNECTED" => ~versionsKnown
==============================================================================
