------------------------- MODULE ChangeDetectorProofs -------------------------
(***************************************************************************)
(* Proofs about ChangeDetector, for every choice of thresholds and dwell.  *)
(***************************************************************************)
EXTENDS ChangeDetector, TLAPS

-----------------------------------------------------------------------------
(* Lemmas about the operators of FlapSuppression.                          *)

(* The counters' caps are positive and dominate the thresholds. *)
LEMMA CapFacts ==
  /\ CountCap \in Nat \ {0}
  /\ \A from, to : Threshold(from, to) \in 1..CountCap
  /\ FailureCap \in Nat /\ FailureThreshold < FailureCap
  BY ThresholdAssumption DEF CountCap, Threshold, FailureCap

LEMMA CountUpType == ASSUME NEW n \in 0..CountCap PROVE CountUp(n) \in 1..CountCap
  BY CapFacts DEF CountUp

LEMMA OlderType == ASSUME NEW a \in 0..MinDwell PROVE Older(a) \in 0..MinDwell
  BY ThresholdAssumption DEF Older

LEMMA ZeroAge == 0 \in 0..MinDwell
  BY ThresholdAssumption

LEMMA AccumulateType ==
  ASSUME NEW p \in Pending, NEW s \in Observable
  PROVE  Accumulate(s, p) \in Pending /\ Accumulate(s, p).status = s
  <1>1. p.count \in 0..CountCap
    BY DEF Pending
  <1>2. (IF s = p.status THEN CountUp(p.count) ELSE 1) \in 0..CountCap
    BY <1>1, CountUpType, CapFacts
  <1>. QED BY <1>2 DEF Accumulate, Pending

LEMMA NoPendingType == NoPending \in Pending /\ NoPending.status = NoStatus
  BY CapFacts DEF NoPending, Pending

LEMMA NoStatusIsNoStatus == NoStatus \notin ServiceStatus
  BY DEF NoStatus, ServiceStatus, Observable

(* A poll does one of three things to the buffer and the status. *)
LEMMA UpdatePendingCases ==
  ASSUME NEW poll, NEW current, NEW p, NEW dwelled,
         NEW d, d = UpdatePending(poll, current, p, dwelled),
         NEW next, next = Accumulate(poll, p)
  PROVE  \/ poll = current /\ d = Keep(NoPending)
         \/ /\ poll # current /\ d = Promote(poll)
            /\ Ready(current, poll, next.count, dwelled)
         \/ /\ poll # current /\ d = Keep(next)
            /\ ~Ready(current, poll, next.count, dwelled)
  BY DEF UpdatePending

(* Whatever is polled, the new buffer is a buffer and what is promoted, if *)
(* anything, is an observable status.                                      *)
LEMMA UpdatePendingType ==
  ASSUME NEW poll \in Observable, NEW current, NEW p \in Pending, NEW dwelled
  PROVE  /\ UpdatePending(poll, current, p, dwelled).pending \in Pending
         /\ UpdatePending(poll, current, p, dwelled).promoted \in Observable \cup {NoStatus}
  <1>. DEFINE d == UpdatePending(poll, current, p, dwelled)
              next == Accumulate(poll, p)
  <1>1. next \in Pending
    BY AccumulateType
  <1>2. \/ d = Keep(NoPending) \/ d = Promote(poll) \/ d = Keep(next)
    BY UpdatePendingCases
  <1>. QED BY <1>1, <1>2, NoPendingType DEF Keep, Promote

-----------------------------------------------------------------------------
(* Lemmas about the abstract specification's operators.                    *)

(* The abstract specification's vocabulary is this one's. *)
LEMMA SameVocabulary ==
  /\ Abstract!NoStatus = NoStatus
  /\ Abstract!Run = [status : Observable \cup {NoStatus}, count : 0..CountCap,
                     age : 0..MinDwell]
  /\ Abstract!NoRun = [status |-> NoStatus, count |-> 0, age |-> 0]
  BY DEF Abstract!NoStatus, Abstract!Run, Abstract!NoRun, Abstract!Observable,
         Abstract!CountCap, NoStatus, Observable, CountCap

LEMMA NoRunType == Abstract!NoRun \in Abstract!Run
  BY SameVocabulary, CapFacts, ZeroAge

LEMMA SameExtend ==
  ASSUME NEW r, NEW s
  PROVE  Abstract!Extend(r, s) =
           IF r.status = s THEN [r EXCEPT !.count = CountUp(@)]
                           ELSE [status |-> s, count |-> 1, age |-> 0]
  BY DEF Abstract!Extend, Abstract!CountUp, Abstract!CountCap, CountUp, CountCap

LEMMA ExtendType ==
  ASSUME NEW r \in Abstract!Run, NEW s \in Observable
  PROVE  Abstract!Extend(r, s) \in Abstract!Run /\ Abstract!Extend(r, s).status = s
  <1>1. r.count \in 0..CountCap
    BY SameVocabulary
  <1>2. CountUp(r.count) \in 0..CountCap /\ 1 \in 0..CountCap
    BY <1>1, CountUpType, CapFacts
  <1>3. CASE r.status = s
    BY <1>2, <1>3, SameExtend, SameVocabulary
  <1>4. CASE r.status # s
    BY <1>2, <1>4, SameExtend, SameVocabulary, ZeroAge
  <1>. QED BY <1>3, <1>4

-----------------------------------------------------------------------------
(* Type correctness.                                                       *)

LEMMA HealthType ==
  ASSUME TypeOK, NEW ok \in BOOLEAN, UpdateHealth(ok)
  PROVE  /\ failures' \in 0..FailureCap
         /\ health' \in Health
         /\ healthNews' \in {"none", "broken", "recovered"}
         /\ announced' \in BOOLEAN
  <1>1. failures' \in 0..FailureCap
    BY CapFacts DEF TypeOK, UpdateHealth, NewFailures
  <1>2. health' \in Health
    BY DEF UpdateHealth, ComputeNewHealth, Health
  <1>3. healthNews' \in {"none", "broken", "recovered"}
    BY DEF UpdateHealth, HealthNews
  <1>4. announced' \in BOOLEAN
    BY DEF UpdateHealth, TypeOK
  <1>. QED BY <1>1, <1>2, <1>3, <1>4

LEMMA TypeInductive == TypeOK /\ [Next]_vars => TypeOK'
  <1>. SUFFICES ASSUME TypeOK, [Next]_vars PROVE TypeOK'
    OBVIOUS
  <1>1. CASE PollSucceeds
    <2>. DEFINE d == UpdatePending(vendor, status, pending, TargetAge(vendor) >= MinDwell)
    <2>3. d.pending \in Pending /\ d.promoted \in Observable \cup {NoStatus}
      BY UpdatePendingType DEF TypeOK
    <2>4. pending' \in Pending /\ status' \in ServiceStatus
      BY <1>1, <2>3 DEF PollSucceeds, TypeOK, ServiceStatus
    <2>5. age' \in 0..MinDwell
      BY <1>1, ZeroAge DEF PollSucceeds, TypeOK, TargetAge
    <2>6. run' \in Abstract!Run
      BY <1>1, ExtendType DEF PollSucceeds, TypeOK
    <2>7. UpdateHealth(TRUE) /\ vendor' \in Observable
      BY <1>1 DEF PollSucceeds, TypeOK
    <2>. QED BY <2>4, <2>5, <2>6, <2>7, HealthType DEF TypeOK
  <1>2. CASE PollFails
    BY <1>2, HealthType DEF PollFails, TypeOK, row
  <1>3. ASSUME NEW s \in ServiceStatus, SetStatus(s) PROVE TypeOK'
    BY <1>3, NoPendingType, NoRunType, ZeroAge DEF SetStatus, TypeOK, poller
  <1>4. CASE ManualUpdate
    BY <1>3, <1>4 DEF ManualUpdate
  <1>5. CASE WebhookUpdate
    BY <1>3, <1>5 DEF WebhookUpdate, ServiceStatus
  <1>6. CASE Tick
    <2>1. age' \in 0..MinDwell
      BY <1>6, OlderType, ZeroAge DEF Tick, TypeOK
    <2>2. run.age \in 0..MinDwell /\ run \in Abstract!Run
      BY SameVocabulary DEF TypeOK
    <2>3. run' \in Abstract!Run
      BY <1>6, <2>2, OlderType, SameVocabulary DEF Tick
    <2>. QED BY <1>6, <2>1, <2>3 DEF Tick, TypeOK, poller
  <1>7. CASE VendorMoves
    BY <1>7 DEF VendorMoves, TypeOK, row, poller
  <1>8. CASE UNCHANGED vars
    BY <1>8 DEF vars, row, poller, TypeOK
  <1>. QED BY <1>1, <1>2, <1>4, <1>5, <1>6, <1>7, <1>8 DEF Next

(* Every reachable state of the row, the poller and the run is well typed: *)
(* the buffer never holds "unknown", and no counter or age leaves its cap. *)
THEOREM TypeCorrect == Spec => []TypeOK
  <1>1. ASSUME Init PROVE TypeOK
    <2>1. failures \in 0..FailureCap /\ age \in 0..MinDwell
      BY <1>1, CapFacts, ZeroAge DEF Init
    <2>2. pending \in Pending /\ run \in Abstract!Run
      BY <1>1, NoPendingType, NoRunType DEF Init
    <2>3. status \in ServiceStatus /\ health \in Health
      BY <1>1 DEF Init, ServiceStatus, Health
    <2>4. announced \in BOOLEAN
      BY <1>1 DEF Init
    <2>. QED BY <1>1, <2>1, <2>2, <2>3, <2>4 DEF Init, TypeOK
  <1>. QED BY <1>1, TypeInductive, PTL DEF Spec

-----------------------------------------------------------------------------
(* The buffer and the run.                                                 *)

(* A report of another status than the committed one extends the run to    *)
(* what the buffer accumulates.                                            *)
LEMMA RunOfTarget ==
  ASSUME TypeOK, BufferIsRun, vendor # status
  PROVE  Abstract!Extend(run, vendor) =
           [status |-> vendor, count |-> Accumulate(vendor, pending).count,
            age |-> TargetAge(vendor)]
  <1>1. vendor # NoStatus /\ run \in Abstract!Run
    BY NoStatusIsNoStatus DEF TypeOK, ServiceStatus
  <1>2. CASE vendor = pending.status
    <2>1. run = [status |-> vendor, count |-> pending.count, age |-> age]
      BY <1>1, <1>2 DEF BufferIsRun
    <2>2. Abstract!Extend(run, vendor) = [run EXCEPT !.count = CountUp(@)]
      BY <2>1, SameExtend
    <2>3. Abstract!Extend(run, vendor)
            = [status |-> vendor, count |-> CountUp(pending.count), age |-> age]
      BY <2>1, <2>2
    <2>. QED BY <1>2, <2>3 DEF Accumulate, TargetAge
  <1>3. CASE vendor # pending.status
    <2>1. run.status # vendor
      BY <1>1, <1>3 DEF BufferIsRun
    <2>. QED BY <1>3, <2>1, SameExtend DEF Accumulate, TargetAge
  <1>. QED BY <1>2, <1>3

(* After an accepted report the buffer still mirrors the run. *)
LEMMA BufferPoll ==
  ASSUME TypeOK, BufferIsRun, PollSucceeds PROVE BufferIsRun'
  <1>. DEFINE d == UpdatePending(vendor, status, pending, TargetAge(vendor) >= MinDwell)
              next == Accumulate(vendor, pending)
              ext == Abstract!Extend(run, vendor)
  <1>1. /\ run' = ext
        /\ pending' = d.pending
        /\ age' = IF d.pending.status = NoStatus THEN 0 ELSE TargetAge(vendor)
        /\ status' = IF d.promoted = NoStatus THEN status ELSE d.promoted
    BY DEF PollSucceeds
  <1>2. /\ vendor \in Observable /\ vendor # NoStatus
        /\ run \in Abstract!Run /\ pending \in Pending
    BY NoStatusIsNoStatus DEF TypeOK, ServiceStatus
  <1>3. ext.status = vendor
    BY <1>2, ExtendType
  <1>4. CASE vendor = status /\ d = Keep(NoPending)
    BY <1>1, <1>3, <1>4, NoPendingType DEF BufferIsRun, Keep
  <1>5. CASE d = Promote(vendor)
    BY <1>1, <1>2, <1>3, <1>5, NoPendingType DEF BufferIsRun, Promote
  <1>6. CASE vendor # status /\ d = Keep(next)
    <2>1. pending' = next /\ next.status = vendor /\ age' = TargetAge(vendor)
      BY <1>1, <1>2, <1>6, AccumulateType DEF Keep
    <2>2. ext = [status |-> vendor, count |-> next.count, age |-> TargetAge(vendor)]
      BY <1>6, RunOfTarget
    <2>. QED BY <1>1, <1>2, <2>1, <2>2 DEF BufferIsRun
  <1>. QED BY <1>4, <1>5, <1>6, UpdatePendingCases

LEMMA BufferSet ==
  ASSUME NEW s, SetStatus(s) PROVE BufferIsRun'
  BY NoPendingType, SameVocabulary DEF SetStatus, BufferIsRun

LEMMA BufferTick ==
  ASSUME TypeOK, BufferIsRun, Tick PROVE BufferIsRun'
  <1>1. /\ pending' = pending /\ status' = status
        /\ age' = IF pending.status = NoStatus THEN 0 ELSE Older(age)
        /\ run' = IF run.status = NoStatus THEN run ELSE [run EXCEPT !.age = Older(@)]
    BY DEF Tick
  <1>2. CASE pending.status = NoStatus
    <2>1. run \in Abstract!Run
      BY DEF TypeOK
    <2>2. run'.status = run.status
      BY <1>1, <2>1, SameVocabulary
    <2>. QED BY <1>1, <1>2, <2>2 DEF BufferIsRun
  <1>3. CASE pending.status # NoStatus
    <2>1. run = [status |-> pending.status, count |-> pending.count, age |-> age]
      BY <1>3 DEF BufferIsRun
    <2>2. run' = [status |-> pending.status, count |-> pending.count, age |-> Older(age)]
      BY <1>1, <1>3, <2>1
    <2>. QED BY <1>1, <1>3, <2>2 DEF BufferIsRun
  <1>. QED BY <1>2, <1>3

LEMMA BufferInductive == TypeOK /\ BufferIsRun /\ [Next]_vars => BufferIsRun'
  <1>. SUFFICES ASSUME TypeOK, BufferIsRun, [Next]_vars PROVE BufferIsRun'
    OBVIOUS
  <1>1. CASE PollSucceeds
    BY <1>1, BufferPoll
  <1>2. CASE PollFails
    BY <1>2 DEF PollFails, row, BufferIsRun
  <1>3. CASE ManualUpdate
    BY <1>3, BufferSet DEF ManualUpdate
  <1>4. CASE WebhookUpdate
    BY <1>4, BufferSet DEF WebhookUpdate
  <1>5. CASE Tick
    BY <1>5, BufferTick
  <1>6. CASE VendorMoves
    BY <1>6 DEF VendorMoves, row, BufferIsRun
  <1>7. CASE UNCHANGED vars
    BY <1>7 DEF vars, row, BufferIsRun
  <1>. QED BY <1>1, <1>2, <1>3, <1>4, <1>5, <1>6, <1>7 DEF Next

(* Whatever polls, overrides and time do, the pending buffer is the run of *)
(* identical reports since the last override.                              *)
THEOREM BufferMirrorsRun == Spec => []BufferIsRun
  <1>1. Init => BufferIsRun
    BY NoPendingType, SameVocabulary DEF Init, BufferIsRun
  <1>. QED BY <1>1, BufferInductive, TypeCorrect, PTL DEF Spec

-----------------------------------------------------------------------------
(* Poller health news.                                                     *)

HealthInv == HealthIsFailures /\ AnnouncedIsHealth

LEMMA HealthStep ==
  ASSUME TypeOK, HealthInv, NEW ok \in BOOLEAN, UpdateHealth(ok)
  PROVE  /\ HealthInv'
         /\ healthNews' # "none" => ((healthNews' = "broken") # announced)
  <1>1. /\ announced \in BOOLEAN /\ announced <=> (health = "broken")
        /\ healthNews' = HealthNews(health, health')
        /\ announced' = IF healthNews' = "none" THEN announced
                                               ELSE healthNews' = "broken"
    BY DEF TypeOK, HealthInv, AnnouncedIsHealth, UpdateHealth
  <1>2. /\ HealthIsFailures'
        /\ health = "broken" => health' # "degraded"
    <2>1. /\ failures \in 0..FailureCap
          /\ failures' = NewFailures(failures, ok)
          /\ health' = ComputeNewHealth(failures', ok)
          /\ (health = "broken") => (failures >= FailureThreshold)
      BY DEF TypeOK, UpdateHealth, HealthInv, HealthIsFailures
    <2>2. CASE ok = TRUE
      BY <2>1, <2>2, ThresholdAssumption
         DEF NewFailures, ComputeNewHealth, HealthIsFailures
    <2>3. CASE ok = FALSE
      BY <2>1, <2>3, CapFacts, ThresholdAssumption
         DEF NewFailures, ComputeNewHealth, HealthIsFailures
    <2>. QED BY <2>2, <2>3
  <1>3. health' \in Health
    BY HealthType DEF TypeOK
  <1>4. CASE health # "broken" /\ health' = "broken"
    <2>1. healthNews' = "broken"
      BY <1>1, <1>4 DEF HealthNews
    <2>. QED BY <1>1, <1>2, <1>4, <2>1 DEF HealthInv, AnnouncedIsHealth
  <1>5. CASE health = "broken" /\ health' = "healthy"
    <2>1. healthNews' = "recovered"
      BY <1>1, <1>5 DEF HealthNews
    <2>. QED BY <1>1, <1>2, <1>5, <2>1 DEF HealthInv, AnnouncedIsHealth
  <1>6. CASE (health = "broken") <=> (health' = "broken")
    <2>1. ~(health # "broken" /\ health' = "broken")
          /\ ~(health = "broken" /\ health' = "healthy")
      BY <1>6
    <2>2. healthNews' = "none"
      BY <1>1, <2>1 DEF HealthNews
    <2>. QED BY <1>1, <1>2, <1>6, <2>2 DEF HealthInv, AnnouncedIsHealth
  <1>. QED BY <1>2, <1>3, <1>4, <1>5, <1>6 DEF Health

LEMMA HealthInductive == TypeOK /\ HealthInv /\ [Next]_vars => HealthInv'
  <1>. SUFFICES ASSUME TypeOK, HealthInv, [Next]_vars PROVE HealthInv'
    OBVIOUS
  <1>1. CASE PollSucceeds
    BY <1>1, HealthStep DEF PollSucceeds
  <1>2. CASE PollFails
    BY <1>2, HealthStep DEF PollFails
  <1>3. CASE UNCHANGED poller
    BY <1>3 DEF poller, HealthInv, HealthIsFailures, AnnouncedIsHealth
  <1>4. ManualUpdate \/ WebhookUpdate \/ Tick \/ VendorMoves \/ UNCHANGED vars
        => UNCHANGED poller
    BY DEF ManualUpdate, WebhookUpdate, SetStatus, Tick, VendorMoves, vars
  <1>. QED BY <1>1, <1>2, <1>3, <1>4 DEF Next

LEMMA HealthInitially == Init => HealthInv
  BY ThresholdAssumption DEF Init, HealthInv, HealthIsFailures, AnnouncedIsHealth

(* The health column and the failure count always agree, and operators     *)
(* were last told the poller's actual condition.                           *)
THEOREM HealthIsAnnounced == Spec => []HealthIsTold
  <1>1. HealthInv => HealthIsTold
    BY DEF HealthInv, HealthIsTold
  <1>. QED BY <1>1, HealthInitially, HealthInductive, TypeCorrect, PTL DEF Spec

(* No health announcement ever repeats the one before it. *)
THEOREM NewsAlternates == Spec => NewsIsNews
  <1>1. ASSUME TypeOK, HealthInv, PollSucceeds \/ PollFails, healthNews' # "none"
        PROVE  (healthNews' = "broken") # announced
    BY <1>1, HealthStep DEF PollSucceeds, PollFails
  <1>2. TypeOK /\ HealthInv
        => [(PollSucceeds \/ PollFails) /\ healthNews' # "none"
            => (healthNews' = "broken") # announced]_vars
    BY <1>1
  <1>. QED
    BY <1>2, HealthInitially, HealthInductive, TypeCorrect, PTL DEF Spec, NewsIsNews

-----------------------------------------------------------------------------
(* ChangeDetector implements ConfirmedStatus.                              *)

LEMMA SameConfirmed ==
  ASSUME NEW from, NEW r
  PROVE  Abstract!Confirmed(from, r) <=>
           r.status # from /\ Ready(from, r.status, r.count, r.age >= MinDwell)
  BY DEF Abstract!Confirmed, Ready, Abstract!Threshold, Abstract!IsGoingWorse,
         Abstract!STATUS_SEVERITY, Threshold, IsGoingWorse, STATUS_SEVERITY

LEMMA ReportStep ==
  ASSUME TypeOK, BufferIsRun, PollSucceeds PROVE Abstract!Report(vendor)
  <1>. DEFINE d == UpdatePending(vendor, status, pending, TargetAge(vendor) >= MinDwell)
              next == Accumulate(vendor, pending)
  <1>1. /\ run' = Abstract!Extend(run, vendor)
        /\ status' = IF d.promoted = NoStatus THEN status ELSE d.promoted
    BY DEF PollSucceeds
  <1>2. vendor # NoStatus /\ run'.status = vendor
    BY <1>1, ExtendType, NoStatusIsNoStatus DEF TypeOK, ServiceStatus
  <1>3. CASE vendor = status /\ d = Keep(NoPending)
    <2>1. ~Abstract!Confirmed(status, run')
      BY <1>2, <1>3, SameConfirmed
    <2>. QED BY <1>1, <1>3, <2>1 DEF Abstract!Report, Keep
  <1>4. ASSUME vendor # status
        PROVE  Abstract!Confirmed(status, run')
                 <=> Ready(status, vendor, next.count, TargetAge(vendor) >= MinDwell)
    <2>1. run' = [status |-> vendor, count |-> next.count, age |-> TargetAge(vendor)]
      BY <1>1, <1>4, RunOfTarget
    <2>. QED BY <1>4, <2>1, SameConfirmed
  <1>5. CASE /\ vendor # status /\ d = Promote(vendor)
             /\ Ready(status, vendor, next.count, TargetAge(vendor) >= MinDwell)
    BY <1>1, <1>2, <1>4, <1>5 DEF Abstract!Report, Promote
  <1>6. CASE /\ vendor # status /\ d = Keep(next)
             /\ ~Ready(status, vendor, next.count, TargetAge(vendor) >= MinDwell)
    BY <1>1, <1>4, <1>6 DEF Abstract!Report, Keep
  <1>. QED BY <1>3, <1>5, <1>6, UpdatePendingCases

LEMMA RefinementStep ==
  ASSUME TypeOK, BufferIsRun, [Next]_vars
  PROVE  [Abstract!AbstractNext]_(Abstract!abstractVars)
  <1>1. CASE PollSucceeds
    <2>1. vendor \in Abstract!Observable
      BY DEF TypeOK, Observable, Abstract!Observable
    <2>. QED BY <1>1, <2>1, ReportStep DEF Abstract!AbstractNext
  <1>2. ASSUME NEW s \in ServiceStatus, SetStatus(s) PROVE Abstract!AbstractNext
    <2>1. Abstract!Override(s)
      BY <1>2 DEF SetStatus, Abstract!Override
    <2>2. s \in Abstract!ServiceStatus
      BY DEF ServiceStatus, Observable, Abstract!ServiceStatus, Abstract!Observable
    <2>. QED BY <2>1, <2>2 DEF Abstract!AbstractNext
  <1>3. CASE ManualUpdate
    BY <1>2, <1>3 DEF ManualUpdate
  <1>4. CASE WebhookUpdate
    BY <1>2, <1>4 DEF WebhookUpdate, ServiceStatus
  <1>5. CASE Tick
    <2>1. CASE run.status = NoStatus
      BY <1>5, <2>1 DEF Tick, Abstract!abstractVars
    <2>2. CASE run.status # NoStatus
      <3>1. Abstract!Age
        BY <1>5, <2>2
           DEF Tick, Abstract!Age, Abstract!Older, Older, Abstract!NoStatus, NoStatus
      <3>. QED BY <3>1 DEF Abstract!AbstractNext
    <2>. QED BY <2>1, <2>2
  <1>6. CASE PollFails \/ VendorMoves \/ UNCHANGED vars
    BY <1>6 DEF PollFails, VendorMoves, vars, row, Abstract!abstractVars
  <1>. QED BY <1>1, <1>3, <1>4, <1>5, <1>6 DEF Next

(* Flap suppression with its buffer implements the promise stated over the *)
(* run of reports alone.                                                   *)
THEOREM Refinement == Spec => ImplementsConfirmedStatus
  <1>1. Init => Abstract!AbstractInit
    BY DEF Init, Abstract!AbstractInit
  <1>. QED
    BY <1>1, RefinementStep, TypeCorrect, BufferMirrorsRun, PTL
       DEF Spec, ImplementsConfirmedStatus, Abstract!AbstractSpec
=============================================================================
