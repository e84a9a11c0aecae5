---------------------------- MODULE StatusPipeline ----------------------------
(***************************************************************************)
(* The three writers of services.current_status on their one SQLite        *)
(* connection: the poll cycle (detect_changes), the admin endpoint         *)
(* (apply_manual_update) and the Statuspage webhook                        *)
(* (_apply_webhook_change), with the SLO cycle that commits beside them.   *)
(*                                                                         *)
(* Each of them SELECTs the row, then takes the write lock, then executes  *)
(* its statements and commits.  Every await is a point where the others    *)
(* run, so each statement is an action here.  All coroutines share one     *)
(* connection: they see each other's uncommitted statements (db), and a    *)
(* commit by any of them makes all of those durable (disk).                *)
(***************************************************************************)
EXTENDS FlapSuppression

CONSTANTS
  Service,       \* the polled services
  Admin, Hook,   \* concurrent admin and webhook requests
  Poller,        \* the poll job: max_instances=1, so there is one
  NoOne,         \* the write lock is free
  Targets,       \* statuses an admin or a webhook may set
  Observations,  \* statuses the vendors' pages may report
  SloEnabled,    \* settings.slo_burn_rate_enabled
  MayFail,       \* statements and vendor data may raise
  MayCrash       \* the process may be killed

Request == Admin \cup Hook
Proc    == Request \cup {Poller}

ASSUME ProcessAssumption ==
  /\ Admin \cap Hook = {} /\ Poller \notin Request /\ NoOne \notin Proc
  /\ Targets \subseteq ServiceStatus /\ Observations \subseteq Observable
  /\ {SloEnabled, MayFail, MayCrash} \subseteq BOOLEAN

VARIABLES
  db,       \* the connection's view: services rows and newest status_events
  disk,     \* the committed database
  lock,     \* holder of database._write_lock
  pc,       \* where each coroutine stands
  plan,     \* poll cycle: the decision taken for each service
  todo,     \* poll cycle: services of the batch still to be written
  cur,      \* poll cycle: the service being promoted
  changes,  \* poll cycle: the StatusChange list
  req,      \* requests: service, target and the current_status they read
  dirty,    \* history: coroutines with uncommitted statements
  since     \* history: polls that read a row since its last manual update

poll == <<plan, todo, cur, changes>>
vars == <<db, disk, lock, pc, poll, req, dirty, since>>

Row      == [status : ServiceStatus, pending : Pending]
Database == [row : [Service -> Row], last : [Service -> ServiceStatus]]
Plan     == [pending : Pending, promoted : Observable \cup {NoStatus}]
NoPlan   == [pending |-> NoPending, promoted |-> NoStatus]
Job      == [svc : Service, target : ServiceStatus, seen : ServiceStatus]
NoJob    == [svc |-> NoOne, target |-> NoStatus, seen |-> NoStatus]

AllIdle == [p \in Proc |-> "idle"]
NoJobs  == [p \in Request |-> NoJob]
NoPlans == [s \in Service |-> NoPlan]

Locations == {"idle", "wait", "batch", "promote", "event", "commit", "route"}
Critical  == {"batch", "promote", "event", "commit"}

TypeOK ==
  /\ db \in Database /\ disk \in Database
  /\ lock \in Proc \cup {NoOne}
  /\ pc \in [Proc -> Locations]
  /\ plan \in [Service -> Plan]
  /\ todo \subseteq Service /\ cur \in Service \cup {NoOne} /\ changes \subseteq Service
  /\ req \in [Request -> Job \cup {NoJob}]
  /\ dirty \subseteq Proc
  /\ since \in [Service -> 0..2]

-----------------------------------------------------------------------------
(* Statements and transactions.                                            *)

Goto(p, l) == pc' = [pc EXCEPT ![p] = l]

WriteStatus(s, new)   == db' = [db EXCEPT !.row[s].status = new]
WritePending(s, new)  == db' = [db EXCEPT !.row[s].pending = new]
WriteOverride(s, new) == db' = [db EXCEPT !.row[s] = [status |-> new, pending |-> NoPending]]

(* INSERT INTO status_events: last keeps the new_status of the newest row. *)
InsertEvent(s, new) == db' = [db EXCEPT !.last[s] = new]

Uncommitted(p) == dirty' = dirty \cup {p}

(* Mutation of Commit: db.commit() is forgotten. *)
CommitForgotten == UNCHANGED <<disk, dirty>>

(* Commit flushes the connection, whoever's statements it holds.           *)
Commit == disk' = db /\ dirty' = {}

(* The local variables of a coroutine go with it.                          *)
DropPoll   == plan' = NoPlans /\ todo' = {} /\ cur' = NoOne /\ changes' = {}
DropJob(p) == req' = [req EXCEPT ![p] = NoJob]

(* Mutation of Acquire: no "async with".                                   *)
AcquireUnlocked(p) == lock' = p

(* asyncio.Lock, taken together with the holder's first statement: until   *)
(* that statement there is nothing of the holder's to observe.             *)
Acquire(p) == lock = NoOne /\ lock' = p
Release(p) == lock = p /\ lock' = NoOne

-----------------------------------------------------------------------------
(* A seeded, quiet system.                                                 *)

Seeded == [row  |-> [s \in Service |-> [status |-> "unknown", pending |-> NoPending]],
           last |-> [s \in Service |-> "unknown"]]

Init ==
  /\ db = Seeded /\ disk = Seeded
  /\ lock = NoOne /\ pc = AllIdle
  /\ plan = NoPlans /\ todo = {} /\ cur = NoOne /\ changes = {}
  /\ req = NoJobs
  /\ dirty = {} /\ since = [s \in Service |-> 2]

-----------------------------------------------------------------------------
(* The poll cycle: run_poll_cycle and detect_changes.                      *)

(* The results the loop does not skip. *)
Answered(result) == {s \in Service : result[s] # "unknown"}

(* The SELECT of the current rows, once the pollers' results are in        *)
(* ("unknown" where a fetch failed).  A decision only depends on these     *)
(* rows and on "now", so it is fixed here; whether the minimum dwell has   *)
(* elapsed is left open.                                                   *)
PollRead(result) ==
  LET answered == Answered(result)
  IN  /\ pc[Poller] = "idle"
      /\ \E dwelled \in [Service -> IF MinDwell = 0 THEN {TRUE} ELSE BOOLEAN] :
           plan' = [s \in Service |->
             IF s \in answered
             THEN UpdatePending(result[s], db.row[s].status, db.row[s].pending, dwelled[s])
             ELSE NoPlan]
      /\ todo' = answered
      /\ since' = [s \in Service |->
             IF s \in answered /\ since[s] < 2 THEN since[s] + 1 ELSE since[s]]
      /\ Goto(Poller, "wait")
      /\ UNCHANGED <<db, disk, lock, cur, changes, req, dirty>>

PollLock ==
  /\ pc[Poller] = "wait"
  /\ Acquire(Poller)
  /\ Goto(Poller, "batch")
  /\ UNCHANGED <<db, disk, poll, req, dirty, since>>

(* "Always persist the pending-buffer updates".                            *)
PollPending(s) ==
  /\ pc[Poller] = "batch" /\ s \in todo
  /\ WritePending(s, plan[s].pending)
  /\ Uncommitted(Poller)
  /\ IF plan[s].promoted = NoStatus
     THEN /\ todo' = todo \ {s}
          /\ UNCHANGED <<pc, cur>>
     ELSE /\ cur' = s
          /\ Goto(Poller, "promote")
          /\ UNCHANGED todo
  /\ UNCHANGED <<disk, lock, plan, changes, req, since>>

PollPromote ==
  /\ pc[Poller] = "promote"
  /\ WriteStatus(cur, plan[cur].promoted)
  /\ Uncommitted(Poller)
  /\ Goto(Poller, "event")
  /\ UNCHANGED <<disk, lock, poll, req, since>>

PollEvent ==
  /\ pc[Poller] = "event"
  /\ InsertEvent(cur, plan[cur].promoted)
  /\ Uncommitted(Poller)
  /\ todo' = todo \ {cur}
  /\ cur' = NoOne
  /\ changes' = changes \cup {cur}
  /\ Goto(Poller, "batch")
  /\ UNCHANGED <<disk, lock, plan, req, since>>

(* The one commit at the end of the batch. *)
PollCommit ==
  /\ pc[Poller] = "batch" /\ todo = {}
  /\ Commit
  /\ Release(Poller)
  /\ Goto(Poller, IF changes = {} THEN "idle" ELSE "route")
  /\ DropPoll
  /\ UNCHANGED <<db, req, since>>

-----------------------------------------------------------------------------
(* Requests: apply_manual_update and _apply_webhook_change.                *)

Read(p, s, t) ==
  /\ pc[p] = "idle"
  /\ req' = [req EXCEPT ![p] = [svc |-> s, target |-> t, seen |-> db.row[s].status]]
  /\ Goto(p, "wait")
  /\ UNCHANGED <<db, disk, lock, poll, dirty, since>>

ManualRead(p) == \E s \in Service, t \in Targets : Read(p, s, t)

(* An unchanged status is a no-op before the lock is asked for.            *)
WebhookRead(p) ==
  \E s \in Service, t \in Targets \cap Observable :
     t # db.row[s].status /\ Read(p, s, t)

(* The UPDATE of the row, pending buffer included.                         *)
OverrideRow(p) ==
  /\ pc[p] = "wait"
  /\ req[p].target # req[p].seen
  /\ Acquire(p)
  /\ WriteOverride(req[p].svc, req[p].target)
  /\ Uncommitted(p)
  /\ since' = IF p \in Admin THEN [since EXCEPT ![req[p].svc] = 0] ELSE since
  /\ Goto(p, "event")
  /\ UNCHANGED <<disk, poll, req>>

OverrideEvent(p) ==
  /\ pc[p] = "event"
  /\ InsertEvent(req[p].svc, req[p].target)
  /\ Uncommitted(p)
  /\ Goto(p, "commit")
  /\ UNCHANGED <<disk, lock, poll, req, since>>

OverrideCommit(p) ==
  /\ pc[p] = "commit"
  /\ Commit
  /\ Release(p)
  /\ Goto(p, "route")
  /\ DropJob(p)
  /\ UNCHANGED <<db, poll, since>>

(* apply_manual_update for the status it read: the lock is taken and given *)
(* back, and a new detail text is committed.                               *)
ManualSame(p) ==
  /\ pc[p] = "wait"
  /\ req[p].target = req[p].seen
  /\ lock = NoOne
  /\ Commit \/ UNCHANGED <<disk, dirty>>
  /\ Goto(p, "idle")
  /\ DropJob(p)
  /\ UNCHANGED <<db, lock, poll, since>>

-----------------------------------------------------------------------------
(* After the commit, and around it.                                        *)

(* process_changes: its impact statement and its alert rows are written    *)
(* and committed under the lock (AlertEngine opens this up).               *)
Route(p) ==
  /\ pc[p] = "route"
  /\ lock = NoOne
  /\ Commit
  /\ Goto(p, "idle")
  /\ UNCHANGED <<db, lock, poll, req, since>>

(* run_slo_burn_rate_cycle inserts an alert row and commits, lock or not.  *)
SloCommit ==
  /\ SloEnabled
  /\ Commit
  /\ UNCHANGED <<db, lock, pc, poll, req, since>>

(* Mutation of Fail: lock.acquire() without try/finally.                   *)
FailKeepsLock(p) ==
  /\ MayFail
  /\ pc[p] \in Critical
  /\ Goto(p, "idle")
  /\ IF p = Poller THEN DropPoll /\ UNCHANGED req ELSE DropJob(p) /\ UNCHANGED poll
  /\ UNCHANGED <<db, disk, lock, dirty, since>>

(* A statement, or malformed vendor data, raises: "async with" gives the   *)
(* lock back, nothing rolls the statements back, the change list is lost.  *)
Fail(p) ==
  /\ MayFail
  /\ pc[p] \in Critical
  /\ Release(p)
  /\ Goto(p, "idle")
  /\ IF p = Poller THEN DropPoll /\ UNCHANGED req ELSE DropJob(p) /\ UNCHANGED poll
  /\ UNCHANGED <<db, disk, dirty, since>>

(* Killed and restarted: SQLite comes back with what was committed.        *)
Crash ==
  /\ MayCrash
  /\ db' = disk
  /\ lock' = NoOne /\ pc' = AllIdle /\ DropPoll /\ req' = NoJobs
  /\ dirty' = {}
  /\ UNCHANGED <<disk, since>>

-----------------------------------------------------------------------------
PollStep == (\E s \in Service : PollPending(s)) \/ PollPromote \/ PollEvent \/ PollCommit

NewRequest == (\E p \in Admin : ManualRead(p)) \/ (\E p \in Hook : WebhookRead(p))

Next ==
  \/ \E result \in [Service -> Observations \cup {"unknown"}] : PollRead(result)
  \/ PollLock
  \/ PollStep
  \/ NewRequest
  \/ \E p \in Request : OverrideRow(p) \/ OverrideEvent(p) \/ OverrideCommit(p)
  \/ \E p \in Admin : ManualSame(p)
  \/ \E p \in Proc : Route(p) \/ Fail(p)
  \/ SloCommit
  \/ Crash

(* asyncio.Lock wakes its waiters in order, so who waits gets it (SF); a   *)
(* coroutine past that point runs on (WF).  The poll job fires for ever,   *)
(* and every vendor answers again and again (SF on a complete read).       *)
PollAnswered == \E result \in [Service -> Observations] : PollRead(result)

Fairness ==
  /\ SF_vars(PollAnswered) /\ SF_vars(PollLock) /\ WF_vars(PollStep)
  /\ \A p \in Request :
       /\ SF_vars(OverrideRow(p))
       /\ WF_vars(OverrideEvent(p) \/ OverrideCommit(p))
  /\ \A p \in Admin : SF_vars(ManualSame(p))
  /\ \A p \in Proc : SF_vars(Route(p))

Spec     == Init /\ [][Next]_vars
FairSpec == Spec /\ Fairness

-----------------------------------------------------------------------------
(* Properties.                                                             *)

Agree(d) == \A s \in Service : d.row[s].status = d.last[s]

(* Every status on disk is the new_status of the newest event of its       *)
(* service, and so is every status in the connection's view while nobody   *)
(* holds the lock: a status change and its status_events row are one.      *)
RowMatchesLog == Agree(disk) /\ (lock = NoOne => Agree(db))

(* Uncommitted statements are the lock holder's: a commit made under the   *)
(* lock carries the work of the coroutine that commits and nobody else's.  *)
CommitsOwnWork == dirty \subseteq {lock}

(* Nobody is alerted of a change that a crash could still undo.            *)
NoAlertBeforeCommit == \A p \in Proc : pc[p] = "route" => p \notin dirty

(* The lock is held by a coroutine that is inside its critical section,    *)
(* and nobody else is inside one, whatever raised.                         *)
LockHeldInside == \A p \in Proc : (lock = p) <=> (pc[p] \in Critical)

(* A request that was read gets its answer, and the poll cycle its end.    *)
EveryoneFinishes == \A p \in Proc : pc[p] # "idle" ~> pc[p] = "idle"

(* A step of a coroutine that goes on: nothing arrives, nothing is killed. *)
Undisturbed ==
  \/ \E result \in [Service -> Observations \cup {"unknown"}] : PollRead(result)
  \/ PollLock \/ PollStep \/ SloCommit
  \/ \E p \in Request : OverrideRow(p) \/ OverrideEvent(p) \/ OverrideCommit(p)
  \/ \E p \in Admin : ManualSame(p)
  \/ \E p \in Proc : Route(p)

(* Stale reads and half-done batches do no lasting damage: when overrides, *)
(* crashes and raising statements cease and the vendors' pages keep        *)
(* reporting one status, every row ends up at that status.                 *)
VendorIsBelieved ==
  \A v \in Observable : Observations = {v} =>
    (<>[][Undisturbed]_vars => \A s \in Service : <>[](db.row[s].status = v))

(* apply_manual_update's comment: the buffer is cleared "so the next poll  *)
(* doesn't immediately try to promote the vendor's view back over the      *)
(* operator's".  The first poll to read the row after a manual update      *)
(* never promotes.                                                         *)
NextPollDefersToOperator == [][PollPromote => since[cur] # 1]_vars
=============================================================================
