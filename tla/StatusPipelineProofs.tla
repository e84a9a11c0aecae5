------------------------- MODULE StatusPipelineProofs -------------------------
(***************************************************************************)
(* Proofs about StatusPipeline, for any number of services, admins and     *)
(* webhook requests and every choice of thresholds.                        *)
(***************************************************************************)
EXTENDS StatusPipeline, TLAPS

-----------------------------------------------------------------------------
(* What the operators of FlapSuppression give the statements to write.     *)

LEMMA NoPendingType == NoPending \in Pending /\ NoPending.status = NoStatus
BY ThresholdAssumption DEF NoPending, Pending, CountCap

LEMMA UpdatePendingCases ==
  ASSUME NEW seen, NEW current, NEW p, NEW dwelled,
         NEW d, d = UpdatePending(seen, current, p, dwelled),
         NEW next, next = Accumulate(seen, p)
  PROVE  \/ seen = current /\ d = Keep(NoPending)
         \/ /\ seen # current /\ d = Promote(seen)
            /\ Ready(current, seen, next.count, dwelled)
         \/ /\ seen # current /\ d = Keep(next)
            /\ ~Ready(current, seen, next.count, dwelled)
BY DEF UpdatePending

LEMMA UpdatePendingType ==
  ASSUME NEW seen \in Observable, NEW current, NEW p \in Pending, NEW dwelled
  PROVE  /\ UpdatePending(seen, current, p, dwelled).pending \in Pending
         /\ UpdatePending(seen, current, p, dwelled).promoted \in Observable \cup {NoStatus}
<1>1. Accumulate(seen, p) \in Pending
  <2>1. p.count \in 0..CountCap /\ 1 \in 0..CountCap
    BY ThresholdAssumption DEF Pending, CountCap
  <2>2. (IF seen = p.status THEN CountUp(p.count) ELSE 1) \in 0..CountCap
    BY <2>1, ThresholdAssumption DEF CountUp, CountCap
  <2> QED BY <2>2 DEF Accumulate, Pending
<1> QED BY <1>1, UpdatePendingCases, NoPendingType DEF Keep, Promote

-----------------------------------------------------------------------------
(* What the statements do to the connection's view.                        *)

LEMMA WriteStatusEffect ==
  ASSUME db \in Database, NEW s \in Service, NEW new \in ServiceStatus, WriteStatus(s, new)
  PROVE  /\ db' \in Database /\ db'.last = db.last
         /\ \A t \in Service : db'.row[t].status = IF t = s THEN new ELSE db.row[t].status
  BY DEF WriteStatus, Database, Row

LEMMA WritePendingEffect ==
  ASSUME db \in Database, NEW s \in Service, NEW new \in Pending, WritePending(s, new)
  PROVE  /\ db' \in Database /\ db'.last = db.last
         /\ \A t \in Service : db'.row[t].status = db.row[t].status
  BY DEF WritePending, Database, Row

LEMMA WriteOverrideEffect ==
  ASSUME db \in Database, NEW s \in Service, NEW new \in ServiceStatus, WriteOverride(s, new)
  PROVE  /\ db' \in Database /\ db'.last = db.last
         /\ \A t \in Service : db'.row[t].status = IF t = s THEN new ELSE db.row[t].status
  BY NoPendingType DEF WriteOverride, Database, Row

LEMMA InsertEventEffect ==
  ASSUME db \in Database, NEW s \in Service, NEW new \in ServiceStatus, InsertEvent(s, new)
  PROVE  /\ db' \in Database
         /\ \A t \in Service : /\ db'.row[t].status = db.row[t].status
                               /\ db'.last[t] = IF t = s THEN new ELSE db.last[t]
  BY DEF InsertEvent, Database

LEMMA SeededType == Seeded \in Database /\ Agree(Seeded)
  <1>1. "unknown" \in ServiceStatus
    BY DEF ServiceStatus
  <1>. QED BY <1>1, NoPendingType DEF Seeded, Database, Row, Agree

LEMMA NoPlanType == NoPlan \in Plan
  BY NoPendingType DEF NoPlan, Plan

-----------------------------------------------------------------------------
(* Type correctness.  Beyond the types it takes where each coroutine can   *)
(* stand, and that its local variables are set while it needs them.        *)

PollerPlaces  == {"idle", "wait", "batch", "promote", "event", "route"}
RequestPlaces == {"idle", "wait", "event", "commit", "route"}

LocalsSet ==
  /\ pc[Poller] \in PollerPlaces
  /\ pc[Poller] \in {"promote", "event"} =>
       cur \in Service /\ plan[cur].promoted \in Observable
  /\ \A p \in Request : /\ pc[p] \in RequestPlaces
                        /\ pc[p] \in {"wait", "event", "commit"} => req[p] \in Job

TypeInv == TypeOK /\ LocalsSet

(* One coroutine moves, the others stay where they are. *)
LEMMA GotoEffect ==
  ASSUME pc \in [Proc -> Locations], NEW p \in Proc, NEW l \in Locations, Goto(p, l)
  PROVE  /\ pc' \in [Proc -> Locations] /\ pc'[p] = l
         /\ \A q \in Proc : q # p => pc'[q] = pc[q]
  BY DEF Goto

LEMMA ProcFacts ==
  /\ Poller \in Proc /\ Poller \notin Request /\ Request \subseteq Proc
  /\ \A p \in Proc : p # Poller => p \in Request
  BY ProcessAssumption DEF Proc

(* The actions of the requests leave the poll cycle's part alone, and      *)
(* conversely.                                                             *)
LEMMA PollerStays ==
  ASSUME TypeInv, UNCHANGED poll, pc'[Poller] = pc[Poller]
  PROVE  /\ plan' \in [Service -> Plan]
         /\ todo' \subseteq Service /\ cur' \in Service \cup {NoOne} /\ changes' \subseteq Service
         /\ pc'[Poller] \in PollerPlaces
         /\ pc'[Poller] \in {"promote", "event"} =>
              cur' \in Service /\ plan'[cur'].promoted \in Observable
  BY DEF TypeInv, TypeOK, LocalsSet, poll

LEMMA RequestsStay ==
  ASSUME TypeInv, UNCHANGED req, \A p \in Request : pc'[p] = pc[p]
  PROVE  /\ req' \in [Request -> Job \cup {NoJob}]
         /\ \A p \in Request : /\ pc'[p] \in RequestPlaces
                               /\ pc'[p] \in {"wait", "event", "commit"} => req'[p] \in Job
  BY DEF TypeInv, TypeOK, LocalsSet

LEMMA TypePollRead ==
  ASSUME TypeInv, NEW result \in [Service -> Observations \cup {"unknown"}], PollRead(result)
  PROVE  TypeInv'
  <1>1. \A s \in Answered(result) : s \in Service /\ result[s] \in Observable
    BY ProcessAssumption DEF Answered
  <1>2. \A s \in Service : db.row[s].pending \in Pending
    BY DEF TypeInv, TypeOK, Database, Row
  <1>3. PICK dwelled \in [Service -> IF MinDwell = 0 THEN {TRUE} ELSE BOOLEAN] :
          plan' = [s \in Service |->
            IF s \in Answered(result)
            THEN UpdatePending(result[s], db.row[s].status, db.row[s].pending, dwelled[s])
            ELSE NoPlan]
    BY DEF PollRead
  <1>4. \A s \in Answered(result) :
          UpdatePending(result[s], db.row[s].status, db.row[s].pending, dwelled[s]) \in Plan
    <2>. TAKE s \in Answered(result)
    <2>. DEFINE d == UpdatePending(result[s], db.row[s].status, db.row[s].pending, dwelled[s])
    <2>1. d.pending \in Pending /\ d.promoted \in Observable \cup {NoStatus}
      BY <1>1, <1>2, UpdatePendingType
    <2>2. \/ d = Keep(NoPending) \/ d = Promote(result[s])
          \/ d = Keep(Accumulate(result[s], db.row[s].pending))
      BY UpdatePendingCases
    <2>. QED BY <2>1, <2>2 DEF Plan, Keep, Promote
  <1>5. plan' \in [Service -> Plan]
    BY <1>3, <1>4, NoPlanType
  <1>6. /\ pc' \in [Proc -> Locations] /\ pc'[Poller] = "wait"
        /\ \A q \in Request : pc'[q] = pc[q]
    BY GotoEffect, ProcFacts DEF PollRead, TypeInv, TypeOK, Locations
  <1>7. since' \in [Service -> 0..2] /\ todo' \subseteq Service
    BY <1>1 DEF PollRead, TypeInv, TypeOK
  <1>8. req' \in [Request -> Job \cup {NoJob}] /\ UNCHANGED <<db, disk, lock, cur, changes, req, dirty>>
    BY DEF PollRead, TypeInv, TypeOK
  <1>9. \A p \in Request : /\ pc'[p] \in RequestPlaces
                          /\ pc'[p] \in {"wait", "event", "commit"} => req'[p] \in Job
    BY <1>6, <1>8, RequestsStay
  <1>. QED BY <1>5, <1>6, <1>7, <1>8, <1>9 DEF TypeInv, TypeOK, LocalsSet, PollerPlaces

LEMMA TypePollSteps ==
  ASSUME TypeInv, PollLock \/ PollStep PROVE TypeInv'
  <1>1. ASSUME NEW l \in Locations, Goto(Poller, l)
        PROVE  /\ pc' \in [Proc -> Locations] /\ pc'[Poller] = l
               /\ \A q \in Request : pc'[q] = pc[q]
    BY <1>1, GotoEffect, ProcFacts DEF TypeInv, TypeOK
  <1>2. CASE PollLock
    <2>1. pc' \in [Proc -> Locations] /\ pc'[Poller] = "batch" /\ \A q \in Request : pc'[q] = pc[q]
      BY <1>1, <1>2 DEF PollLock, Locations
    <2>. QED BY <1>2, <2>1, RequestsStay, ProcFacts
             DEF PollLock, Acquire, poll, TypeInv, TypeOK, LocalsSet, PollerPlaces
  <1>3. ASSUME NEW s \in Service, PollPending(s) PROVE TypeInv'
    <2>1. plan[s] \in Plan /\ plan[s].pending \in Pending
      BY DEF TypeInv, TypeOK, Plan
    <2>2. db' \in Database /\ dirty' \subseteq Proc
      BY <1>3, <2>1, WritePendingEffect, ProcFacts DEF PollPending, TypeInv, TypeOK, Uncommitted
    <2>3. CASE plan[s].promoted = NoStatus
      <3>1. UNCHANGED <<pc, cur>> /\ todo' \subseteq Service /\ pc[Poller] = "batch"
        BY <1>3, <2>3 DEF PollPending, TypeInv, TypeOK
      <3>. QED BY <1>3, <2>2, <3>1 DEF PollPending, TypeInv, TypeOK, LocalsSet
    <2>4. CASE plan[s].promoted # NoStatus
      <3>1. pc' \in [Proc -> Locations] /\ pc'[Poller] = "promote" /\ \A q \in Request : pc'[q] = pc[q]
        BY <1>1, <1>3, <2>4 DEF PollPending, Locations
      <3>2. plan[s].promoted \in Observable
        BY <2>1, <2>4 DEF Plan
      <3>. QED BY <1>3, <2>2, <2>4, <3>1, <3>2, RequestsStay
               DEF PollPending, TypeInv, TypeOK, LocalsSet, PollerPlaces
    <2>. QED BY <2>3, <2>4
  <1>4. CASE PollPromote
    <2>1. cur \in Service /\ plan[cur].promoted \in Observable
      BY <1>4 DEF PollPromote, TypeInv, LocalsSet
    <2>2. db' \in Database /\ dirty' \subseteq Proc
      BY <1>4, <2>1, WriteStatusEffect, ProcFacts
         DEF PollPromote, TypeInv, TypeOK, Uncommitted, ServiceStatus
    <2>3. pc' \in [Proc -> Locations] /\ pc'[Poller] = "event" /\ \A q \in Request : pc'[q] = pc[q]
      BY <1>1, <1>4 DEF PollPromote, Locations
    <2>. QED BY <1>4, <2>1, <2>2, <2>3, RequestsStay
             DEF PollPromote, poll, TypeInv, TypeOK, LocalsSet, PollerPlaces
  <1>5. CASE PollEvent
    <2>1. cur \in Service /\ plan[cur].promoted \in Observable
      BY <1>5 DEF PollEvent, TypeInv, LocalsSet
    <2>2. db' \in Database /\ dirty' \subseteq Proc
      BY <1>5, <2>1, InsertEventEffect, ProcFacts
         DEF PollEvent, TypeInv, TypeOK, Uncommitted, ServiceStatus
    <2>3. pc' \in [Proc -> Locations] /\ pc'[Poller] = "batch" /\ \A q \in Request : pc'[q] = pc[q]
      BY <1>1, <1>5 DEF PollEvent, Locations
    <2>. QED BY <1>5, <2>1, <2>2, <2>3, RequestsStay
             DEF PollEvent, TypeInv, TypeOK, LocalsSet, PollerPlaces
  <1>6. CASE PollCommit
    <2>1. /\ pc' \in [Proc -> Locations] /\ pc'[Poller] \in {"idle", "route"}
          /\ \A q \in Request : pc'[q] = pc[q]
      BY <1>1, <1>6 DEF PollCommit, Locations
    <2>2. NoPlans \in [Service -> Plan]
      BY NoPlanType DEF NoPlans
    <2>. QED BY <1>6, <2>1, <2>2, RequestsStay
             DEF PollCommit, Commit, Release, DropPoll, TypeInv, TypeOK, LocalsSet, PollerPlaces
  <1>. QED BY <1>2, <1>3, <1>4, <1>5, <1>6 DEF PollStep

(* A request that moves to l with job j. *)
LEMMA RequestMoves ==
  ASSUME TypeInv, NEW p \in Request, NEW l \in RequestPlaces, NEW j \in Job \cup {NoJob},
         l \in {"wait", "event", "commit"} => j \in Job,
         Goto(p, l), req' = [req EXCEPT ![p] = j]
  PROVE  /\ pc' \in [Proc -> Locations] /\ pc'[Poller] = pc[Poller]
         /\ req' \in [Request -> Job \cup {NoJob}]
         /\ \A q \in Request : /\ pc'[q] \in RequestPlaces
                               /\ pc'[q] \in {"wait", "event", "commit"} => req'[q] \in Job
  <1>1. l \in Locations
    BY DEF RequestPlaces, Locations
  <1>2. /\ pc' \in [Proc -> Locations] /\ pc'[p] = l
        /\ \A q \in Proc : q # p => pc'[q] = pc[q]
    BY <1>1, GotoEffect, ProcFacts DEF TypeInv, TypeOK
  <1>3. req' \in [Request -> Job \cup {NoJob}] /\ req'[p] = j
    BY DEF TypeInv, TypeOK
  <1>4. \A q \in Request : q # p => req'[q] = req[q] /\ pc'[q] = pc[q]
    BY <1>2, ProcFacts DEF TypeInv, TypeOK
  <1>. QED BY <1>2, <1>3, <1>4, ProcFacts DEF TypeInv, LocalsSet

LEMMA TypeRequests ==
  ASSUME TypeInv, NEW p \in Request,
         \/ \E s \in Service, t \in Targets : Read(p, s, t)
         \/ OverrideRow(p) \/ OverrideEvent(p) \/ OverrideCommit(p) \/ ManualSame(p)
  PROVE  TypeInv'
  <1>1. pc[p] \in {"wait", "event", "commit"} => req[p] \in Job
    BY DEF TypeInv, LocalsSet
  <1>2. ASSUME NEW s \in Service, NEW t \in Targets, Read(p, s, t) PROVE TypeInv'
    <2>. DEFINE j == [svc |-> s, target |-> t, seen |-> db.row[s].status]
    <2>1. j \in Job
      BY ProcessAssumption DEF TypeInv, TypeOK, Database, Row, Job
    <2>. HIDE DEF j
    <2>2. Goto(p, "wait") /\ req' = [req EXCEPT ![p] = j]
      BY <1>2 DEF Read, j
    <2>. QED BY <1>2, <2>1, <2>2, RequestMoves, PollerStays
             DEF Read, TypeInv, TypeOK, LocalsSet, RequestPlaces, poll
  <1>3. CASE OverrideRow(p)
    <2>1. req[p] \in Job /\ req[p].svc \in Service /\ req[p].target \in ServiceStatus
      BY <1>1, <1>3 DEF OverrideRow, Job
    <2>2. db' \in Database /\ dirty' \subseteq Proc
      BY <1>3, <2>1, WriteOverrideEffect, ProcFacts DEF OverrideRow, TypeInv, TypeOK, Uncommitted
    <2>3. since' \in [Service -> 0..2]
      <3>1. \/ since' = [since EXCEPT ![req[p].svc] = 0] \/ since' = since
        BY <1>3 DEF OverrideRow
      <3>2. since \in [Service -> 0..2] /\ 0 \in 0..2
        BY DEF TypeInv, TypeOK
      <3>. QED BY <3>1, <3>2
    <2>4. Goto(p, "event") /\ req' = [req EXCEPT ![p] = req[p]] /\ lock' = p
      BY <1>3 DEF OverrideRow, Acquire, TypeInv, TypeOK
    <2>. QED BY <1>3, <2>1, <2>2, <2>3, <2>4, RequestMoves, PollerStays, ProcFacts
             DEF OverrideRow, TypeInv, TypeOK, LocalsSet, RequestPlaces, poll
  <1>4. CASE OverrideEvent(p)
    <2>1. req[p] \in Job /\ req[p].svc \in Service /\ req[p].target \in ServiceStatus
      BY <1>1, <1>4 DEF OverrideEvent, Job
    <2>2. db' \in Database /\ dirty' \subseteq Proc
      BY <1>4, <2>1, InsertEventEffect, ProcFacts DEF OverrideEvent, TypeInv, TypeOK, Uncommitted
    <2>3. Goto(p, "commit") /\ req' = [req EXCEPT ![p] = req[p]]
      BY <1>4 DEF OverrideEvent, TypeInv, TypeOK
    <2>. QED BY <1>4, <2>1, <2>2, <2>3, RequestMoves, PollerStays
             DEF OverrideEvent, TypeInv, TypeOK, LocalsSet, RequestPlaces, poll
  <1>5. CASE OverrideCommit(p)
    BY <1>5, RequestMoves, PollerStays
       DEF OverrideCommit, Commit, Release, DropJob, TypeInv, TypeOK, LocalsSet, RequestPlaces, poll
  <1>6. CASE ManualSame(p)
    BY <1>6, RequestMoves, PollerStays
       DEF ManualSame, Commit, DropJob, TypeInv, TypeOK, LocalsSet, RequestPlaces, poll
  <1>. QED BY <1>2, <1>3, <1>4, <1>5, <1>6

LEMMA TypeRest ==
  ASSUME TypeInv,
         \/ \E p \in Proc : Route(p) \/ Fail(p)
         \/ SloCommit \/ Crash \/ UNCHANGED vars
  PROVE  TypeInv'
  <1>1. NoPlans \in [Service -> Plan]
    BY NoPlanType DEF NoPlans
  <1>2. ASSUME NEW p \in Proc, Route(p) PROVE TypeInv'
    <2>1. /\ pc' \in [Proc -> Locations] /\ pc'[p] = "idle"
          /\ \A q \in Proc : q # p => pc'[q] = pc[q]
      BY <1>2, GotoEffect DEF Route, Locations, TypeInv, TypeOK
    <2>. QED BY <1>2, <2>1, ProcFacts
             DEF Route, Commit, poll, TypeInv, TypeOK, LocalsSet, PollerPlaces, RequestPlaces
  <1>3. ASSUME Fail(Poller) PROVE TypeInv'
    <2>1. /\ pc' \in [Proc -> Locations] /\ pc'[Poller] = "idle"
          /\ \A q \in Request : pc'[q] = pc[q]
      BY <1>3, GotoEffect, ProcFacts DEF Fail, Locations, TypeInv, TypeOK
    <2>. QED BY <1>1, <1>3, <2>1, RequestsStay
             DEF Fail, Release, DropPoll, TypeInv, TypeOK, LocalsSet, PollerPlaces
  <1>4. ASSUME NEW p \in Request, Fail(p) PROVE TypeInv'
    <2>1. Goto(p, "idle") /\ DropJob(p) /\ UNCHANGED <<poll, db, disk, dirty, since>> /\ lock' = NoOne
      BY <1>4, ProcFacts DEF Fail, Release
    <2>. QED BY <2>1, RequestMoves, PollerStays
             DEF DropJob, TypeInv, TypeOK, LocalsSet, RequestPlaces
  <1>5. CASE SloCommit
    BY <1>5 DEF SloCommit, Commit, poll, TypeInv, TypeOK, LocalsSet
  <1>6. CASE Crash
    <2>1. pc' \in [Proc -> Locations] /\ \A p \in Proc : pc'[p] = "idle"
      BY <1>6 DEF Crash, AllIdle, Locations
    <2>. QED BY <1>1, <1>6, <2>1, ProcFacts
             DEF Crash, DropPoll, NoJobs, TypeInv, TypeOK, LocalsSet, PollerPlaces, RequestPlaces
  <1>7. CASE UNCHANGED vars
    BY <1>7 DEF vars, poll, TypeInv, TypeOK, LocalsSet
  <1>. QED BY <1>2, <1>3, <1>4, <1>5, <1>6, <1>7, ProcFacts

(* The steps of Next, sorted by who takes them. *)
LEMMA NextCases ==
  ASSUME [Next]_vars
  PROVE  \/ \E result \in [Service -> Observations \cup {"unknown"}] : PollRead(result)
         \/ PollLock \/ PollStep
         \/ \E p \in Request : \/ \E s \in Service, t \in Targets : Read(p, s, t)
                               \/ OverrideRow(p) \/ OverrideEvent(p) \/ OverrideCommit(p)
                               \/ ManualSame(p)
         \/ \E p \in Proc : Route(p) \/ Fail(p)
         \/ SloCommit \/ Crash \/ UNCHANGED vars
  <1>1. NewRequest => \E p \in Request, s \in Service, t \in Targets : Read(p, s, t)
    BY DEF NewRequest, ManualRead, WebhookRead, Request
  <1>2. (\E p \in Admin : ManualSame(p)) => \E p \in Request : ManualSame(p)
    BY DEF Request
  <1>. QED BY <1>1, <1>2 DEF Next

LEMMA TypeInductive == TypeInv /\ [Next]_vars => TypeInv'
  <1>. SUFFICES ASSUME TypeInv, [Next]_vars PROVE TypeInv'
    OBVIOUS
  <1>. QED BY NextCases, TypePollRead, TypePollSteps, TypeRequests, TypeRest

LEMMA TypeInvariant == Spec => []TypeInv
  <1>1. ASSUME Init PROVE TypeInv
    <2>1. NoPlans \in [Service -> Plan] /\ NoJobs \in [Request -> Job \cup {NoJob}]
      BY NoPlanType DEF NoPlans, NoJobs
    <2>2. pc \in [Proc -> Locations] /\ \A p \in Proc : pc[p] = "idle"
      BY <1>1 DEF Init, AllIdle, Locations
    <2>. QED BY <1>1, <2>1, <2>2, SeededType, ProcFacts
             DEF Init, TypeInv, TypeOK, LocalsSet, PollerPlaces, RequestPlaces
  <1>. QED BY <1>1, TypeInductive, PTL DEF Spec

(* However the writers of a status interleave, fail or crash, the shared   *)
(* state stays well typed: no "unknown" report reaches the pending buffer, *)
(* and no statement runs on a job or a decision that was never read.       *)
THEOREM TypeCorrect == Spec => []TypeOK
  BY TypeInvariant, PTL DEF TypeInv

-----------------------------------------------------------------------------
(* The write lock.                                                         *)

(* Three ways to move without disturbing LockHeldInside: stay inside or    *)
(* outside, enter with the lock, leave and give it back.                   *)
LEMMA LockStep ==
  ASSUME TypeInv, LockHeldInside, NEW p \in Proc, NEW l \in Locations, Goto(p, l),
         \/ lock' = lock /\ (l \in Critical <=> pc[p] \in Critical)
         \/ Acquire(p) /\ l \in Critical
         \/ Release(p) /\ l \notin Critical
  PROVE  LockHeldInside'
  <1>1. pc'[p] = l /\ \A q \in Proc : q # p => pc'[q] = pc[q]
    BY GotoEffect DEF TypeInv, TypeOK
  <1>2. NoOne \notin Proc
    BY ProcessAssumption
  <1>. QED BY <1>1, <1>2 DEF LockHeldInside, Acquire, Release

LEMMA LockInductive == TypeInv /\ LockHeldInside /\ [Next]_vars => LockHeldInside'
  <1>. SUFFICES ASSUME TypeInv, LockHeldInside, [Next]_vars PROVE LockHeldInside'
    OBVIOUS
  <1>1. CASE \E result \in [Service -> Observations \cup {"unknown"}] : PollRead(result)
    BY <1>1, LockStep, ProcFacts DEF PollRead, Locations, Critical
  <1>2. CASE PollLock
    BY <1>2, LockStep, ProcFacts DEF PollLock, Locations, Critical
  <1>3. CASE PollStep
    <2>1. ASSUME NEW s \in Service, PollPending(s) PROVE LockHeldInside'
      <3>1. CASE UNCHANGED <<pc, lock>>
        BY <3>1 DEF LockHeldInside
      <3>2. CASE Goto(Poller, "promote")
        BY <2>1, <3>2, LockStep, ProcFacts DEF PollPending, Locations, Critical
      <3>. QED BY <2>1, <3>1, <3>2 DEF PollPending
    <2>2. CASE PollPromote
      BY <2>2, LockStep, ProcFacts DEF PollPromote, Locations, Critical
    <2>3. CASE PollEvent
      BY <2>3, LockStep, ProcFacts DEF PollEvent, Locations, Critical
    <2>4. CASE PollCommit
      BY <2>4, LockStep, ProcFacts DEF PollCommit, Locations, Critical
    <2>. QED BY <1>3, <2>1, <2>2, <2>3, <2>4 DEF PollStep
  <1>4. ASSUME NEW p \in Request, NEW s \in Service, NEW t \in Targets, Read(p, s, t)
        PROVE  LockHeldInside'
    BY <1>4, LockStep, ProcFacts DEF Read, Locations, Critical
  <1>5. ASSUME NEW p \in Request,
               OverrideRow(p) \/ OverrideEvent(p) \/ OverrideCommit(p) \/ ManualSame(p)
        PROVE  LockHeldInside'
    BY <1>5, LockStep, ProcFacts
       DEF OverrideRow, OverrideEvent, OverrideCommit, ManualSame, Locations, Critical
  <1>6. ASSUME NEW p \in Proc, Route(p) \/ Fail(p) PROVE LockHeldInside'
    BY <1>6, LockStep DEF Route, Fail, Locations, Critical
  <1>7. CASE Crash
    <2>1. lock' = NoOne /\ NoOne \notin Proc /\ \A p \in Proc : pc'[p] = "idle"
      BY <1>7, ProcessAssumption DEF Crash, AllIdle
    <2>. QED BY <2>1 DEF LockHeldInside, Critical
  <1>8. CASE SloCommit \/ UNCHANGED vars
    BY <1>8 DEF SloCommit, vars, LockHeldInside
  <1>. QED BY <1>1, <1>2, <1>3, <1>4, <1>5, <1>6, <1>7, <1>8, NextCases

LEMMA LockInitially == Init => LockHeldInside
  <1>1. ASSUME Init PROVE lock = NoOne /\ NoOne \notin Proc /\ \A p \in Proc : pc[p] = "idle"
    BY <1>1, ProcessAssumption DEF Init, AllIdle
  <1>. QED BY <1>1 DEF LockHeldInside, Critical

(* The write lock is held exactly by the coroutine that is between its     *)
(* first statement and its commit, also when statements raise: nothing     *)
(* leaks it and no two writers are ever inside together.                   *)
THEOREM LockIsHeldInside == Spec => []LockHeldInside
  BY LockInitially, LockInductive, TypeInvariant, PTL DEF Spec

-----------------------------------------------------------------------------
(* Whose statements are uncommitted.                                       *)

LEMMA AlertStep ==
  ASSUME TypeInv, NoAlertBeforeCommit, NEW p \in Proc, NEW l \in Locations, Goto(p, l),
         \/ dirty' = {}
         \/ dirty' \subseteq dirty \cup {p} /\ l # "route"
  PROVE  NoAlertBeforeCommit'
  <1>1. pc'[p] = l /\ \A q \in Proc : q # p => pc'[q] = pc[q]
    BY GotoEffect DEF TypeInv, TypeOK
  <1>. QED BY <1>1 DEF NoAlertBeforeCommit

LEMMA AlertInductive == TypeInv /\ NoAlertBeforeCommit /\ [Next]_vars => NoAlertBeforeCommit'
  <1>. SUFFICES ASSUME TypeInv, NoAlertBeforeCommit, [Next]_vars PROVE NoAlertBeforeCommit'
    OBVIOUS
  <1>1. CASE \E result \in [Service -> Observations \cup {"unknown"}] : PollRead(result)
    BY <1>1, AlertStep, ProcFacts DEF PollRead, Locations
  <1>2. CASE PollLock
    BY <1>2, AlertStep, ProcFacts DEF PollLock, Locations
  <1>3. CASE PollStep
    <2>1. ASSUME NEW s \in Service, PollPending(s) PROVE NoAlertBeforeCommit'
      <3>1. pc[Poller] = "batch" /\ dirty' = dirty \cup {Poller}
        BY <2>1 DEF PollPending, Uncommitted
      <3>2. CASE UNCHANGED pc
        BY <3>1, <3>2 DEF NoAlertBeforeCommit
      <3>3. CASE Goto(Poller, "promote")
        BY <3>1, <3>3, AlertStep, ProcFacts DEF Locations
      <3>. QED BY <2>1, <3>2, <3>3 DEF PollPending
    <2>2. CASE PollPromote
      BY <2>2, AlertStep, ProcFacts DEF PollPromote, Uncommitted, Locations
    <2>3. CASE PollEvent
      BY <2>3, AlertStep, ProcFacts DEF PollEvent, Uncommitted, Locations
    <2>4. CASE PollCommit
      BY <2>4, AlertStep, ProcFacts DEF PollCommit, Commit, Locations
    <2>. QED BY <1>3, <2>1, <2>2, <2>3, <2>4 DEF PollStep
  <1>4. ASSUME NEW p \in Request, NEW s \in Service, NEW t \in Targets, Read(p, s, t)
        PROVE  NoAlertBeforeCommit'
    BY <1>4, AlertStep, ProcFacts DEF Read, Locations
  <1>5. ASSUME NEW p \in Request,
               OverrideRow(p) \/ OverrideEvent(p) \/ OverrideCommit(p) \/ ManualSame(p)
        PROVE  NoAlertBeforeCommit'
    BY <1>5, AlertStep, ProcFacts
       DEF OverrideRow, OverrideEvent, OverrideCommit, ManualSame, Uncommitted, Commit, Locations
  <1>6. ASSUME NEW p \in Proc, Route(p) \/ Fail(p) PROVE NoAlertBeforeCommit'
    BY <1>6, AlertStep DEF Route, Fail, Commit, Locations
  <1>7. CASE Crash \/ SloCommit
    BY <1>7 DEF Crash, SloCommit, Commit, NoAlertBeforeCommit
  <1>8. CASE UNCHANGED vars
    BY <1>8 DEF vars, NoAlertBeforeCommit
  <1>. QED BY <1>1, <1>2, <1>3, <1>4, <1>5, <1>6, <1>7, <1>8, NextCases

(* Whatever fails, crashes or commits in between, a coroutine that has     *)
(* gone on to alerting has its change on disk.                             *)
THEOREM AlertsFollowCommits == Spec => []NoAlertBeforeCommit
  <1>1. Init => NoAlertBeforeCommit
    BY DEF Init, NoAlertBeforeCommit
  <1>. QED BY <1>1, AlertInductive, TypeInvariant, PTL DEF Spec

-----------------------------------------------------------------------------
(* The event log, as long as no statement raises inside a critical section *)
(* and nobody commits without the lock.                                    *)

NoSurprises == ~MayFail /\ ~SloEnabled

(* The service a coroutine has moved in the connection's view but not yet  *)
(* logged, and the status it is about to log.                              *)
Unlogged(s) ==
  \/ /\ pc[Poller] = "event" /\ cur = s
     /\ db.row[s].status = plan[s].promoted
  \/ \E p \in Request : /\ pc[p] = "event" /\ req[p].svc = s
                         /\ db.row[s].status = req[p].target

(* A coroutine that is about to log finds the row as it wrote it. *)
Promised ==
  /\ pc[Poller] = "event" => db.row[cur].status = plan[cur].promoted
  /\ \A p \in Request : pc[p] = "event" => db.row[req[p].svc].status = req[p].target

LogInv ==
  /\ Agree(disk)
  /\ Promised
  /\ \A s \in Service : db.row[s].status = db.last[s] \/ Unlogged(s)

(* With the lock free nothing is unlogged. *)
LEMMA FreeAgrees ==
  ASSUME LockHeldInside, LogInv, lock = NoOne PROVE Agree(db)
  <1>1. \A p \in Proc : pc[p] # "event"
    BY ProcessAssumption DEF LockHeldInside, Critical
  <1>. QED BY <1>1, ProcFacts DEF LogInv, Unlogged, Agree

(* Nor is it while somebody stands inside at another statement. *)
LEMMA InsideAgrees ==
  ASSUME LockHeldInside, LogInv, NEW p \in Proc, pc[p] \in Critical, pc[p] # "event"
  PROVE  Agree(db)
  <1>1. lock = p /\ \A q \in Proc : pc[q] = "event" => lock = q
    BY DEF LockHeldInside, Critical
  <1>. QED BY <1>1, ProcFacts DEF LogInv, Unlogged, Agree

(* After a step of the lock's holder, or with the lock free, that does not *)
(* lead to an INSERT nobody is about to log; if row and log agree then,    *)
(* LogInv is kept.                                                         *)
LEMMA LogAgrees ==
  ASSUME TypeInv, LockHeldInside, NEW p \in Proc, lock \in {p, NoOne},
         \/ \E l \in Locations : l # "event" /\ Goto(p, l)
         \/ UNCHANGED pc /\ pc[p] # "event",
         Agree(disk'), Agree(db')
  PROVE  LogInv'
  <1>1. pc'[p] # "event" /\ \A q \in Proc : q # p => pc'[q] = pc[q]
    BY GotoEffect DEF TypeInv, TypeOK
  <1>2. \A q \in Proc : q # p => pc[q] # "event"
    BY ProcessAssumption DEF LockHeldInside, Critical
  <1>. QED BY <1>1, <1>2, ProcFacts DEF LogInv, Promised, Agree

LEMMA LogPoll ==
  ASSUME TypeInv, LockHeldInside, LogInv, PollStep PROVE LogInv'
  <1>1. ASSUME NEW s \in Service, PollPending(s) PROVE LogInv'
    <2>1. Agree(db) /\ disk' = disk /\ plan[s].pending \in Pending
      BY <1>1, InsideAgrees, ProcFacts DEF PollPending, Critical, TypeInv, TypeOK, Plan
    <2>2. Agree(db')
      BY <1>1, <2>1, WritePendingEffect DEF PollPending, Agree, TypeInv, TypeOK
    <2>3. /\ lock = Poller /\ pc[Poller] = "batch"
          /\ UNCHANGED pc \/ Goto(Poller, "promote")
      BY <1>1, ProcFacts DEF PollPending, LockHeldInside, Critical
    <2>. QED BY <2>1, <2>2, <2>3, LogAgrees, ProcFacts DEF LogInv, Agree, Locations
  <1>2. CASE PollPromote
    <2>1. /\ Agree(db) /\ disk' = disk /\ plan' = plan /\ cur' = cur
          /\ cur \in Service /\ plan[cur].promoted \in ServiceStatus
      BY <1>2, InsideAgrees, ProcFacts
         DEF PollPromote, Critical, poll, TypeInv, LocalsSet, ServiceStatus
    <2>2. /\ db'.last = db.last
          /\ \A t \in Service : db'.row[t].status
                = IF t = cur THEN plan[cur].promoted ELSE db.row[t].status
      BY <1>2, <2>1, WriteStatusEffect DEF PollPromote, TypeInv, TypeOK
    <2>3. pc'[Poller] = "event"
      BY <1>2, GotoEffect, ProcFacts DEF PollPromote, Locations, TypeInv, TypeOK
    <2>4. \A q \in Request : pc'[q] # "event"
      BY <1>2, GotoEffect, ProcFacts
         DEF PollPromote, LockHeldInside, Critical, Locations, TypeInv, TypeOK
    <2>. QED BY <2>1, <2>2, <2>3, <2>4 DEF LogInv, Promised, Unlogged, Agree
  <1>3. CASE PollEvent
    <2>1. /\ disk' = disk /\ pc[Poller] = "event" /\ InsertEvent(cur, plan[cur].promoted)
          /\ cur \in Service /\ plan[cur].promoted \in ServiceStatus
      BY <1>3 DEF PollEvent, TypeInv, LocalsSet, ServiceStatus
    <2>2. \A p \in Request : pc[p] # "event"
      BY <2>1, ProcFacts DEF LockHeldInside, Critical
    <2>3. /\ db.row[cur].status = plan[cur].promoted
          /\ \A s \in Service : s # cur => db.row[s].status = db.last[s]
      BY <2>1, <2>2 DEF LogInv, Promised, Unlogged
    <2>4. \A t \in Service :
            /\ db'.row[t].status = db.row[t].status
            /\ db'.last[t] = IF t = cur THEN plan[cur].promoted ELSE db.last[t]
      BY <2>1, InsertEventEffect DEF TypeInv, TypeOK
    <2>5. Agree(db')
      BY <2>3, <2>4 DEF Agree
    <2>6. lock = Poller /\ Goto(Poller, "batch")
      BY <1>3, ProcFacts DEF PollEvent, LockHeldInside, Critical
    <2>. QED BY <2>1, <2>5, <2>6, LogAgrees, ProcFacts DEF LogInv, Agree, Locations
  <1>4. CASE PollCommit
    <2>1. Agree(db) /\ disk' = db /\ db' = db
      BY <1>4, InsideAgrees, ProcFacts DEF PollCommit, Commit, Critical
    <2>2. lock = Poller /\ (Goto(Poller, "idle") \/ Goto(Poller, "route"))
      BY <1>4 DEF PollCommit, Release
    <2>. QED BY <2>1, <2>2, LogAgrees, ProcFacts DEF Agree, Locations
  <1>. QED BY <1>1, <1>2, <1>3, <1>4 DEF PollStep

LEMMA LogOverride ==
  ASSUME TypeInv, LockHeldInside, LogInv, NEW p \in Request,
         OverrideRow(p) \/ OverrideEvent(p) \/ OverrideCommit(p) \/ ManualSame(p)
  PROVE  LogInv'
  <1>1. CASE OverrideRow(p)
    <2>1. /\ Agree(db) /\ disk' = disk /\ req' = req
          /\ WriteOverride(req[p].svc, req[p].target)
          /\ req[p].svc \in Service /\ req[p].target \in ServiceStatus
      BY <1>1, FreeAgrees DEF OverrideRow, Acquire, TypeInv, LocalsSet, Job
    <2>2. /\ db'.last = db.last
          /\ \A t \in Service : db'.row[t].status
                = IF t = req[p].svc THEN req[p].target ELSE db.row[t].status
      BY <2>1, WriteOverrideEffect DEF TypeInv, TypeOK
    <2>3. pc'[p] = "event"
      BY <1>1, GotoEffect, ProcFacts DEF OverrideRow, Locations, TypeInv, TypeOK
    <2>4. \A q \in Proc : q # p => pc'[q] # "event"
      BY <1>1, GotoEffect, ProcFacts, ProcessAssumption
         DEF OverrideRow, Acquire, LockHeldInside, Critical, Locations, TypeInv, TypeOK
    <2>. QED BY <2>1, <2>2, <2>3, <2>4, ProcFacts DEF LogInv, Promised, Unlogged, Agree
  <1>2. CASE OverrideEvent(p)
    <2>1. /\ disk' = disk /\ pc[p] = "event" /\ InsertEvent(req[p].svc, req[p].target)
          /\ req[p].svc \in Service /\ req[p].target \in ServiceStatus
      BY <1>2 DEF OverrideEvent, TypeInv, LocalsSet, Job
    <2>2. \A q \in Proc : pc[q] = "event" => q = p
      BY <2>1, ProcFacts DEF LockHeldInside, Critical
    <2>3. /\ db.row[req[p].svc].status = req[p].target
          /\ \A s \in Service : s # req[p].svc => db.row[s].status = db.last[s]
      BY <2>1, <2>2, ProcFacts DEF LogInv, Promised, Unlogged
    <2>4. \A t \in Service :
            /\ db'.row[t].status = db.row[t].status
            /\ db'.last[t] = IF t = req[p].svc THEN req[p].target ELSE db.last[t]
      BY <2>1, InsertEventEffect DEF TypeInv, TypeOK
    <2>5. Agree(db')
      BY <2>3, <2>4 DEF Agree
    <2>6. lock = p /\ Goto(p, "commit")
      BY <1>2, ProcFacts DEF OverrideEvent, LockHeldInside, Critical
    <2>. QED BY <2>1, <2>5, <2>6, LogAgrees, ProcFacts DEF LogInv, Agree, Locations
  <1>3. CASE OverrideCommit(p)
    <2>1. Agree(db) /\ disk' = db /\ db' = db
      BY <1>3, InsideAgrees, ProcFacts DEF OverrideCommit, Commit, Critical
    <2>2. lock = p /\ Goto(p, "route")
      BY <1>3 DEF OverrideCommit, Release
    <2>. QED BY <2>1, <2>2, LogAgrees, ProcFacts DEF Agree, Locations
  <1>4. CASE ManualSame(p)
    <2>1. Agree(db) /\ db' = db /\ (disk' = db \/ disk' = disk)
      BY <1>4, FreeAgrees DEF ManualSame, Commit
    <2>2. lock = NoOne /\ Goto(p, "idle")
      BY <1>4 DEF ManualSame
    <2>. QED BY <2>1, <2>2, LogAgrees, ProcFacts DEF LogInv, Agree, Locations
  <1>. QED BY <1>1, <1>2, <1>3, <1>4

(* A coroutine that moves outside the critical section leaves what is      *)
(* unlogged as it is.                                                      *)
LEMMA LogOutside ==
  ASSUME TypeInv, LogInv, UNCHANGED <<db, disk>>,
         \/ /\ pc[Poller] # "event" /\ UNCHANGED req
            /\ pc'[Poller] # "event" /\ \A q \in Request : pc'[q] = pc[q]
         \/ /\ UNCHANGED poll /\ pc'[Poller] = pc[Poller]
            /\ \A q \in Request : (pc'[q] = pc[q] /\ req'[q] = req[q]) \/ "event" \notin {pc[q], pc'[q]}
  PROVE  LogInv'
  <1>1. ASSUME NEW s \in Service, Unlogged(s) PROVE Unlogged(s)'
    BY <1>1 DEF Unlogged, poll
  <1>2. Promised'
    BY DEF LogInv, Promised, poll
  <1>. QED BY <1>1, <1>2 DEF LogInv, Agree

LEMMA LogInductive ==
  ASSUME NoSurprises
  PROVE  TypeInv /\ LockHeldInside /\ LogInv /\ [Next]_vars => LogInv'
  <1>. SUFFICES ASSUME TypeInv, LockHeldInside, LogInv, [Next]_vars PROVE LogInv'
    OBVIOUS
  <1>1. ASSUME NEW result \in [Service -> Observations \cup {"unknown"}], PollRead(result)
        PROVE  LogInv'
    <2>1. pc'[Poller] = "wait" /\ \A q \in Request : pc'[q] = pc[q]
      BY <1>1, GotoEffect, ProcFacts DEF PollRead, Locations, TypeInv, TypeOK
    <2>. QED BY <1>1, <2>1, LogOutside DEF PollRead
  <1>2. CASE PollLock
    <2>1. pc'[Poller] = "batch" /\ \A q \in Request : pc'[q] = pc[q]
      BY <1>2, GotoEffect, ProcFacts DEF PollLock, Locations, TypeInv, TypeOK
    <2>. QED BY <1>2, <2>1, LogOutside DEF PollLock
  <1>3. ASSUME NEW p \in Request, NEW s \in Service, NEW t \in Targets, Read(p, s, t)
        PROVE  LogInv'
    <2>1. pc'[p] = "wait" /\ \A q \in Proc : q # p => pc'[q] = pc[q]
      BY <1>3, GotoEffect, ProcFacts DEF Read, Locations, TypeInv, TypeOK
    <2>2. \A q \in Request : q # p => req'[q] = req[q]
      BY <1>3 DEF Read, TypeInv, TypeOK
    <2>3. pc[p] # "event" /\ UNCHANGED <<db, disk, poll>>
      BY <1>3 DEF Read
    <2>. QED BY <2>1, <2>2, <2>3, LogOutside, ProcFacts
  <1>4. ASSUME NEW p \in Proc, Route(p) PROVE LogInv'
    <2>1. Agree(db) /\ disk' = db /\ db' = db /\ lock = NoOne /\ Goto(p, "idle")
      BY <1>4, FreeAgrees DEF Route, Commit
    <2>. QED BY <2>1, LogAgrees DEF Agree, Locations
  <1>5. CASE Crash
    <2>1. disk' = disk /\ db' = disk /\ \A p \in Proc : pc'[p] = "idle"
      BY <1>5 DEF Crash, AllIdle
    <2>. QED BY <2>1, ProcFacts DEF LogInv, Promised, Agree
  <1>6. CASE UNCHANGED vars
    BY <1>6 DEF vars, poll, LogInv, Promised, Unlogged, Agree
  <1>7. ~SloCommit /\ \A p \in Proc : ~Fail(p)
    BY DEF NoSurprises, SloCommit, Fail
  <1>. QED BY <1>1, <1>2, <1>3, <1>4, <1>5, <1>6, <1>7, LogPoll, LogOverride, NextCases

(* Between any number of polls, admins and webhooks, across crashes at any *)
(* point, the services table and the status_events log tell the same story *)
(* on disk, and in memory whenever the lock is free.                       *)
THEOREM RowsMatchTheLog ==
  ASSUME NoSurprises PROVE Spec => []RowMatchesLog
  <1>1. Init => LogInv
    <2>1. Init => Agree(db) /\ Agree(disk)
      BY SeededType DEF Init
    <2>2. Init => \A p \in Proc : pc[p] = "idle"
      BY DEF Init, AllIdle
    <2>. QED BY <2>1, <2>2, ProcFacts DEF LogInv, Promised, Agree
  <1>2. LockHeldInside /\ LogInv => RowMatchesLog
    BY FreeAgrees DEF RowMatchesLog, LogInv
  <1>3. TypeInv /\ LockHeldInside /\ LogInv /\ [Next]_vars => LogInv'
    BY LogInductive
  <1>. QED BY <1>1, <1>2, <1>3, TypeInvariant, LockIsHeldInside, PTL DEF Spec

-----------------------------------------------------------------------------
(* Commits.                                                                *)

LEMMA OwnWorkInductive ==
  ASSUME ~MayFail
  PROVE  TypeInv /\ LockHeldInside /\ CommitsOwnWork /\ [Next]_vars => CommitsOwnWork'
  <1>. SUFFICES ASSUME TypeInv, LockHeldInside, CommitsOwnWork, [Next]_vars
                PROVE  CommitsOwnWork'
    OBVIOUS
  <1>1. dirty \subseteq Proc /\ NoOne \notin Proc
    BY ProcessAssumption DEF TypeInv, TypeOK
  <1>2. ASSUME NEW p \in Proc, Uncommitted(p), lock' = p, lock \in {p, NoOne}
        PROVE  CommitsOwnWork'
    BY <1>1, <1>2 DEF Uncommitted, CommitsOwnWork
  <1>3. CASE Commit
    BY <1>3 DEF Commit, CommitsOwnWork
  <1>4. CASE UNCHANGED dirty /\ (lock' = lock \/ lock = NoOne)
    BY <1>1, <1>4 DEF CommitsOwnWork
  <1>5. CASE \E result \in [Service -> Observations \cup {"unknown"}] : PollRead(result)
    BY <1>4, <1>5 DEF PollRead
  <1>6. CASE PollLock
    BY <1>4, <1>6 DEF PollLock, Acquire
  <1>7. CASE PollStep
    <2>1. pc[Poller] \in {"batch", "promote", "event"} => lock = Poller
      BY ProcFacts DEF LockHeldInside, Critical
    <2>. QED BY <1>2, <1>3, <1>7, <2>1, ProcFacts
             DEF PollStep, PollPending, PollPromote, PollEvent, PollCommit
  <1>8. ASSUME NEW p \in Request, NEW s \in Service, NEW t \in Targets, Read(p, s, t)
        PROVE  CommitsOwnWork'
    BY <1>4, <1>8 DEF Read
  <1>9. ASSUME NEW p \in Request,
               OverrideRow(p) \/ OverrideEvent(p) \/ OverrideCommit(p) \/ ManualSame(p)
        PROVE  CommitsOwnWork'
    <2>1. pc[p] = "event" => lock = p
      BY ProcFacts DEF LockHeldInside, Critical
    <2>. QED BY <1>2, <1>3, <1>4, <1>9, <2>1, ProcFacts
             DEF OverrideRow, OverrideEvent, OverrideCommit, ManualSame, Acquire
  <1>10. ASSUME NEW p \in Proc, Route(p) PROVE CommitsOwnWork'
    BY <1>3, <1>10 DEF Route
  <1>11. CASE SloCommit
    BY <1>3, <1>11 DEF SloCommit
  <1>12. CASE Crash \/ UNCHANGED vars
    BY <1>12 DEF Crash, vars, CommitsOwnWork
  <1>13. \A p \in Proc : ~Fail(p)
    BY DEF Fail
  <1>. QED BY <1>5, <1>6, <1>7, <1>8, <1>9, <1>10, <1>11, <1>12, <1>13, NextCases

(* As long as no statement raises, uncommitted statements belong to the    *)
(* holder of the lock: a commit never makes half of somebody else's        *)
(* transaction durable, except the SLO cycle's, which asks for no lock.    *)
THEOREM CommitsCarryOwnWork ==
  ASSUME ~MayFail PROVE Spec => []CommitsOwnWork
  <1>1. Init => CommitsOwnWork
    BY DEF Init, CommitsOwnWork
  <1>2. TypeInv /\ LockHeldInside /\ CommitsOwnWork /\ [Next]_vars => CommitsOwnWork'
    BY OwnWorkInductive
  <1>. QED BY <1>1, <1>2, TypeInvariant, LockIsHeldInside, PTL DEF Spec
=============================================================================
