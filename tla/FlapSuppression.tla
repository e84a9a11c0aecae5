---------------------------- MODULE FlapSuppression ----------------------------
(***************************************************************************)
(* The pure decisions of app/poller/change_detector.py: the health of a    *)
(* poller and the flap-suppression buffer.  No variables: the state        *)
(* machines ChangeDetector and StatusPipeline are built on these operators.*)
(*                                                                         *)
(* Times are kept as ages.  pending_status_since is only ever compared     *)
(* with "now", so a decision takes the outcome of that comparison          *)
(* (dwelled) instead of two timestamps.                                    *)
(***************************************************************************)
EXTENDS Integers

CONSTANTS
  ConfirmThreshold,   \* settings.alert_confirm_threshold_polls
  RecoveryThreshold,  \* settings.alert_recovery_threshold_polls
  MinDwell,           \* settings.alert_min_state_duration_seconds, in ticks
  FailureThreshold    \* settings.poller_failure_threshold

(* config.py declares the thresholds with Field(gt=0), the dwell with ge=0. *)
ASSUME ThresholdAssumption ==
  /\ ConfirmThreshold  \in Nat \ {0}
  /\ RecoveryThreshold \in Nat \ {0}
  /\ FailureThreshold  \in Nat \ {0}
  /\ MinDwell          \in Nat

-----------------------------------------------------------------------------
(* Vocabulary. *)

Observable    == {"operational", "degraded", "partial_outage", "major_outage"}
ServiceStatus == Observable \cup {"unknown"}
Health        == {"healthy", "degraded", "broken"}

NoStatus == "none"   \* SQL NULL in a status column

STATUS_SEVERITY ==
  [operational |-> 0, degraded |-> 1, partial_outage |-> 2,
   major_outage |-> 3, unknown |-> -1]

IsGoingWorse(from, to) == STATUS_SEVERITY[to] > STATUS_SEVERITY[from]

Threshold(from, to) ==
  IF IsGoingWorse(from, to) THEN ConfirmThreshold ELSE RecoveryThreshold

-----------------------------------------------------------------------------
(* The pending buffer (pending_status, pending_status_count).              *)

(* The count only ever meets the two thresholds, so it is kept up to the   *)
(* larger of them: CountCap bounds it without changing any decision.       *)
CountCap ==
  IF ConfirmThreshold > RecoveryThreshold THEN ConfirmThreshold ELSE RecoveryThreshold

CountUp(n) == IF n < CountCap THEN n + 1 ELSE CountCap

Pending   == [status : Observable \cup {NoStatus}, count : 0..CountCap]
NoPending == [status |-> NoStatus, count |-> 0]

(* Mutation of Accumulate: every poll starts the count again. *)
AccumulateRestarts(poll, pending) == [status |-> poll, count |-> 1]

(* The buffer after one more poll of a status that is not the committed    *)
(* one: the same target counts up, another target starts again at one.     *)
Accumulate(poll, pending) ==
  [status |-> poll,
   count  |-> IF poll = pending.status THEN CountUp(pending.count) ELSE 1]

(* The age of pending_status_since, in ticks; it is compared with MinDwell *)
(* only, and stops counting there.                                         *)
Older(age) == IF age < MinDwell THEN age + 1 ELSE MinDwell

(* Mutation of Ready: no dwell. *)
ReadyAtOnce(from, to, count, dwelled) == count >= Threshold(from, to)
(* May a target seen count times replace the committed status?  dwelled    *)
(* says whether it has been pending for the minimum duration.              *)
Ready(from, to, count, dwelled) ==
  count >= Threshold(from, to) /\ (IsGoingWorse(from, to) => dwelled)

(* _update_pending: the new buffer, and the status to promote if any.      *)
Keep(buffer)  == [pending |-> buffer, promoted |-> NoStatus]
Promote(poll) == [pending |-> NoPending, promoted |-> poll]

UpdatePending(poll, current, pending, dwelled) ==
  LET next == Accumulate(poll, pending)
  IN  IF poll = current THEN Keep(NoPending)
      ELSE IF Ready(current, poll, next.count, dwelled) THEN Promote(poll)
      ELSE Keep(next)

-----------------------------------------------------------------------------
(* Poller health.                                                          *)

ComputeNewHealth(failures, succeeded) ==
  IF succeeded THEN "healthy"
  ELSE IF failures >= FailureThreshold THEN "broken" ELSE "degraded"

(* consecutive_failures only meets FailureThreshold; FailureCap is one     *)
(* above it, so that the poll after the crossing is still a change.        *)
FailureCap == FailureThreshold + 1

NewFailures(failures, succeeded) ==
  IF succeeded THEN 0 ELSE IF failures < FailureCap THEN failures + 1 ELSE FailureCap

(* Mutation of HealthNews: the recovery is forgotten.                      *)
HealthNewsOneWay(previous, new) ==
  IF previous # "broken" /\ new = "broken" THEN "broken" ELSE "none"
(* The PollerHealthChange a poll emits: only into and out of "broken".     *)
HealthNews(previous, new) ==
  CASE previous # "broken" /\ new = "broken"  -> "broken"
    [] previous = "broken" /\ new = "healthy" -> "recovered"
    [] OTHER -> "none"
=============================================================================
