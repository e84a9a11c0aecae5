---------------------------- MODULE ChangeDetector ----------------------------
(***************************************************************************)
(* One automated service as app/poller/change_detector.py keeps it: the    *)
(* columns of its services row that a poll reads and writes, with every    *)
(* poll and every override taken as one step.  (StatusPipeline opens the   *)
(* steps up and lets them interleave.)                                     *)
(***************************************************************************)
EXTENDS FlapSuppression

VARIABLES
  vendor,      \* what the vendor's status page reports
  status,      \* services.current_status
  pending,     \* services.pending_status, pending_status_count
  age,         \* age of services.pending_status_since, 0 when it is NULL
  failures,    \* services.consecutive_failures
  health,      \* services.poller_health
  healthNews,  \* PollerHealthChange emitted by the last poll, or "none"
  announced,   \* history: the last PollerHealthChange said "broken"
  run          \* history: the current run of identical reports

row     == <<status, pending, age>>
poller  == <<failures, health, healthNews, announced>>
vars    == <<vendor, row, poller, run>>

(* The specification this one implements, over status and run. *)
Abstract == INSTANCE ConfirmedStatus WITH status <- status, run <- run

TypeOK ==
  /\ vendor \in Observable
  /\ status \in ServiceStatus
  /\ pending \in Pending
  /\ age \in 0..MinDwell
  /\ failures \in 0..FailureCap
  /\ health \in Health
  /\ healthNews \in {"none", "broken", "recovered"}
  /\ announced \in BOOLEAN
  /\ run \in Abstract!Run

-----------------------------------------------------------------------------
(* A freshly seeded row: status unknown, poller healthy, nothing pending.  *)
Init ==
  /\ vendor \in Observable
  /\ status = "unknown"
  /\ pending = NoPending
  /\ age = 0
  /\ failures = 0
  /\ health = "healthy"
  /\ healthNews = "none"
  /\ announced = FALSE
  /\ run = Abstract!NoRun

(* The health trail every poll updates, whatever its outcome.              *)
UpdateHealth(succeeded) ==
  /\ failures' = NewFailures(failures, succeeded)
  /\ health' = ComputeNewHealth(failures', succeeded)
  /\ healthNews' = HealthNews(health, health')
  /\ announced' = IF healthNews' = "none" THEN announced ELSE healthNews' = "broken"

(* Mutation of TargetAge: pending_since is renewed by every poll. *)
TargetAgeRenewed(poll) == 0

(* The age the buffer's target will have: zero when the target is new.     *)
TargetAge(poll) == IF poll = pending.status THEN age ELSE 0

(* detect_changes for a result that carries the vendor's status.           *)
PollSucceeds ==
  LET decision == UpdatePending(vendor, status, pending, TargetAge(vendor) >= MinDwell)
  IN  /\ UpdateHealth(TRUE)
      /\ pending' = decision.pending
      /\ age' = IF decision.pending.status = NoStatus THEN 0 ELSE TargetAge(vendor)
      /\ status' = IF decision.promoted = NoStatus THEN status ELSE decision.promoted
      /\ run' = Abstract!Extend(run, vendor)
      /\ UNCHANGED vendor

(* detect_changes for an UNKNOWN result: health only, the loop continues.  *)
PollFails ==
  /\ UpdateHealth(FALSE)
  /\ UNCHANGED <<vendor, row, run>>

(* An override takes effect at once and clears the buffer.                 *)
SetStatus(s) ==
  /\ s # status
  /\ status' = s
  /\ pending' = NoPending
  /\ age' = 0
  /\ run' = Abstract!NoRun
  /\ UNCHANGED <<vendor, poller>>

(* apply_manual_update; the same status again changes nothing modelled.    *)
ManualUpdate == \E s \in ServiceStatus : SetStatus(s)

(* _apply_webhook_change; an unrecognised payload (UNKNOWN) is dropped.    *)
WebhookUpdate == \E s \in Observable : SetStatus(s)

(* Time passes; the vendor's page changes.                                 *)
Tick ==
  /\ age' = IF pending.status = NoStatus THEN 0 ELSE Older(age)
  /\ run' = IF run.status = NoStatus THEN run ELSE [run EXCEPT !.age = Older(@)]
  /\ UNCHANGED <<vendor, status, pending, poller>>

VendorMoves ==
  /\ \E s \in Observable : vendor' = s
  /\ UNCHANGED <<row, poller, run>>

Override == ManualUpdate \/ WebhookUpdate
Next == PollSucceeds \/ PollFails \/ ManualUpdate \/ WebhookUpdate \/ Tick \/ VendorMoves

(* The scheduler polls for as long as the process lives and time does not  *)
(* stop; that an answer arrives again and again is asked of the vendor.    *)
Fairness == WF_vars(PollSucceeds) /\ WF_vars(Tick)

Spec == Init /\ [][Next]_vars /\ Fairness

-----------------------------------------------------------------------------
(* Properties.                                                             *)

(* The buffer and its reset rules (_update_pending, the clears in          *)
(* apply_manual_update and the webhook) amount to the promise: the status  *)
(* moves with a report exactly when the run of reports confirms it.        *)
ImplementsConfirmedStatus == Abstract!AbstractSpec

(* The buffer is a view of the run: with a target pending, they agree on   *)
(* target, length and age; with none, the run is empty or of the committed *)
(* status.  No reset is missing and none is superfluous.                   *)
BufferIsRun ==
  IF pending.status = NoStatus
  THEN run.status \in {NoStatus, status}
  ELSE run = [status |-> pending.status, count |-> pending.count, age |-> age]

(* The two health columns never contradict each other: broken exactly from *)
(* the threshold on, healthy exactly at zero.  It is why a broken poller   *)
(* cannot slip back to "degraded" and skip its "recovered" announcement.   *)
HealthIsFailures ==
  /\ (health = "broken")  <=> (failures >= FailureThreshold)
  /\ (health = "healthy") <=> (failures = 0)

(* Operators were last told "broken" exactly when the poller is broken     *)
(* (the #poller-health channel of scheduler.py tells the truth).           *)
AnnouncedIsHealth == announced <=> (health = "broken")

(* What operators were told of a poller is how often it failed.            *)
HealthIsTold == HealthIsFailures /\ AnnouncedIsHealth

(* An announcement is always news: two "broken" in a row, or a "recovered" *)
(* without a "broken" before it, would spam the channel every cycle.       *)
NewsIsNews ==
  [][(PollSucceeds \/ PollFails) /\ healthNews' # "none"
       => (healthNews' = "broken") # announced]_vars

(* A vendor that settles on a status is eventually believed, whatever was  *)
(* pending before, unless overrides never stop.                            *)
VendorIsBelieved ==
  \A s \in Observable :
    (<>[](vendor = s) /\ <>[][~Override]_vars) => <>[](status = s)
=============================================================================
