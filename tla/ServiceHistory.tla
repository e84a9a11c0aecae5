----------------------------- MODULE ServiceHistory -----------------------------
(***************************************************************************)
(* What is made of the history of one service: incident reports and        *)
(* postmortems (app/reports.py, app/postmortems.py) when it recovers, the  *)
(* burn-rate cycle (app/alerting/burn_rate.py) that reads the same events, *)
(* and the Acknowledge button of what that cycle posts                     *)
(* (app/router_slack.py).                                                  *)
(*                                                                         *)
(* Writers confirm changes at any time (StatusPipeline is about them), on  *)
(* a status and a clock that they read before they waited for the lock; a  *)
(* writer that confirmed a recovery goes on to report it.  All run         *)
(* concurrently; reports and acknowledgements write under the write lock,  *)
(* the burn-rate cycle without it.                                         *)
(***************************************************************************)
EXTENDS Uptime, FiniteSets

CONSTANTS
  Bad,               \* the statuses besides operational and unknown
  Writer,            \* the poll cycle; admin and webhook requests
  Handler, User,     \* interactivity requests; who clicks in Slack
  ReportAfter,       \* the 60 seconds of generate_incident_report
  DedupWindow,       \* settings.alert_dedup_window_seconds
  Webhook,           \* SLACK_WEBHOOK_URL is configured
  SlackMayFail,
  Bounds             \* of clock, events, rows of log, clicks, how many changes a
                     \* writer's read is behind, how long it waits: taken together

Nobody == "nobody"   \* acknowledged_by IS NULL

ASSUME HistoryAssumption ==
  /\ Bad \subseteq {"degraded", "partial_outage", "major_outage"}
  /\ ReportAfter \in Nat \ {0} /\ DedupWindow \in Nat
  /\ Bounds \subseteq [clock : Nat, events : Nat, rows : Nat, clicks : Nat, behind : Nat, wait : Nat]
  /\ {Webhook, SlackMayFail} \subseteq BOOLEAN
  /\ Nobody \notin User /\ IsFiniteSet(Handler)

VARIABLES
  bound,        \* rigid: the bounds of this behaviour
  clock,
  status,       \* services.current_status
  events,       \* status_events, in the order of created_at
  maintenance,  \* a maintenance window is open
  reports,      \* incident_reports
  files,        \* postmortems: the reports whose draft was written
  task,         \* what a writer does after its change
  cycle,        \* the burn-rate cycle
  log,          \* alert_sent_log, the rows of burn-rate alerts
  button,       \* rows whose message in Slack has its button
  click,        \* the interactions that are being handled
  past,         \* history: the status in each tick
  dates,        \* history: how the rows of status_events are dated
  clicked       \* history: the interactions Slack delivered for a severity

history == <<status, events, maintenance, past, dates>>
written == <<reports, files>>
alerts  == <<log, button>>
slack   == <<click, clicked>>
vars    == <<bound, clock, history, written, task, cycle, alerts, slack>>

Status   == Bad \cup {"operational", "unknown"}
Severity == {"fast", "slow"}

Fired   == "fired"    \* suppressed_by IS NULL
Reason  == {"dedup", "maintenance_window", "webhook_not_configured"}
AtRest  == [at |-> "idle", resolved |-> 0]
Waiting == [at |-> "idle", message |-> 0, user |-> Nobody, row |-> 0]
Resting == [at |-> "idle", now |-> 0, todo |-> {}, severity |-> "none", by |-> "none"]

Init ==
  /\ bound \in Bounds
  /\ clock = 0 /\ status = "unknown" /\ events = <<>>
  /\ maintenance \in {FALSE, bound.rows > 0}   \* without alerts it changes nothing
  /\ past = <<>> /\ dates = "exact"
  /\ reports = {} /\ files = {}
  /\ task = [w \in Writer |-> AtRest]
  /\ cycle = Resting
  /\ log = <<>> /\ button = {}
  /\ click = [h \in Handler |-> Waiting] /\ clicked = [s \in Severity |-> 0]

-----------------------------------------------------------------------------
(* Time, and confirmed changes. *)

Tick ==
  /\ clock < bound.clock
  /\ clock' = clock + 1 /\ past' = Append(past, status)
  /\ UNCHANGED <<bound, status, events, maintenance, dates, written, task, cycle, alerts, slack>>

MaintenanceEnds ==
  /\ maintenance /\ maintenance' = FALSE
  /\ UNCHANGED <<bound, clock, status, events, past, dates, written, task, cycle, alerts, slack>>

(* The statuses that a writer may have read, and the times.                *)
Seen  == {status} \cup {IF i = 0 THEN "unknown" ELSE events[i].to :
                        i \in AtLeast(0, Len(events) - bound.behind)..Len(events)}
Times == AtLeast(0, clock - bound.wait)..clock

(* A row is read at the place of its created_at, after those of that time. *)
Precede(at) == {i \in DOMAIN events : events[i].at <= at}
Insert(row) == Seqs!InsertAt(events, Cardinality(Precede(row.at)) + 1, row)

(* "exact": in the tick they were written; "early": before it; and         *)
(* "disordered": one before another that had been written already.         *)
Dated(at) ==
  CASE Precede(at) # DOMAIN events                                       -> "disordered"
    [] Precede(at) = DOMAIN events /\ dates = "exact" /\ at < clock -> "early"
    [] OTHER                                                             -> dates

(* A row's previous_status and created_at are what its writer had read. A  *)
(* recovery takes the writer on to generate_incident_report.               *)
Change(w) ==
  /\ task[w].at = "idle" /\ Len(events) < bound.events
  /\ \E from \in Seen, at \in Times : \E s \in Status \ {from} :
       /\ status' = s
       /\ events' = Insert([from |-> from, to |-> s, at |-> at])
       /\ dates' = Dated(at)
       /\ task' = IF s = "operational" /\ from # "unknown"
                  THEN [task EXCEPT ![w] = [at |-> "recovered", resolved |-> 0]] ELSE task
  /\ UNCHANGED <<bound, clock, maintenance, past, written, cycle, alerts, slack>>

-----------------------------------------------------------------------------
(* generate_incident_report and write_postmortem.                          *)

(* resolved_at is taken; the service must still be operational.            *)
StillOperational(w) ==
  /\ task[w].at = "recovered"
  /\ task' = [task EXCEPT ![w] =
       IF status = "operational" THEN [at |-> "walk", resolved |-> clock] ELSE AtRest]
  /\ UNCHANGED <<bound, clock, history, written, cycle, alerts, slack>>

(* The write lock is held between the SELECT and the UPDATE of _update_ack. *)
LockIsFree == \A h \in Handler : click[h].at # "mark"

Report(resolved, incident) ==
  [started |-> incident[1].at, resolved |-> resolved, peak |-> Peak(incident), count |-> Len(incident)]

Reported(resolved, incident) ==
  Len(incident) >= 2 /\ resolved - incident[1].at >= ReportAfter

(* The walk reads the events as they are by now; the report is stored and  *)
(* its draft written, unless a file of that incident and end exists.       *)
Walk(w) ==
  /\ task[w].at = "walk" /\ LockIsFree
  /\ LET resolved == task[w].resolved incident == Incident(events)
     IN  IF Reported(resolved, incident)
         THEN LET report == Report(resolved, incident)
              IN  /\ reports' = reports \cup {report}
                  /\ files' = IF \E f \in files : f.started = report.started /\ f.resolved = resolved
                              THEN files ELSE files \cup {report}
         ELSE UNCHANGED written
  /\ task' = [task EXCEPT ![w] = AtRest]
  /\ UNCHANGED <<bound, clock, history, cycle, alerts, slack>>

-----------------------------------------------------------------------------
(* run_slo_burn_rate_cycle: evaluate, then route, record and send for each *)
(* breach, the fast one first.                                             *)

(* The windows all end at the cycle's now: later changes do not change      *)
(* them, unless they are dated before it.                                  *)
Evaluate ==
  /\ cycle.at = "idle" /\ Breaches(events, clock) # {}
  /\ Len(log) + Cardinality(Breaches(events, clock)) <= bound.rows
  /\ cycle' = [Resting EXCEPT !.at = "route", !.now = clock, !.todo = Breaches(events, clock)]
  /\ UNCHANGED <<bound, clock, history, written, task, alerts, slack>>

MostUrgent(todo) == IF "fast" \in todo THEN "fast" ELSE "slow"

(* Mutation of RecentlyAlerted: the edge of the window is outside. *)
RecentlyAlertedInside(s) ==
  \E i \in DOMAIN log : log[i].severity = s /\ log[i].by = Fired /\ log[i].at > clock - DedupWindow

(* was_recently_alerted, at the database's own time. *)
RecentlyAlerted(s) ==
  \E i \in DOMAIN log : log[i].severity = s /\ log[i].by = Fired /\ log[i].at >= clock - DedupWindow

(* route_slo_burn_rate_alert. *)
Routed(s) ==
  CASE RecentlyAlerted(s)                               -> "dedup"
    [] ~RecentlyAlerted(s) /\ maintenance               -> "maintenance_window"
    [] ~RecentlyAlerted(s) /\ ~maintenance /\ ~Webhook -> "webhook_not_configured"
    [] OTHER                                            -> Fired

Route ==
  /\ cycle.at = "route"
  /\ LET s == MostUrgent(cycle.todo)
     IN  cycle' = [cycle EXCEPT !.at = "record", !.todo = @ \ {s}, !.severity = s, !.by = Routed(s)]
  /\ UNCHANGED <<bound, clock, history, written, task, alerts, slack>>

(* Mutation of Onward: the last decision is kept. *)
OnwardKeeping == [cycle EXCEPT !.at = IF cycle.todo = {} THEN "idle" ELSE "route"]

Onward == IF cycle.todo = {} THEN Resting ELSE [cycle EXCEPT !.at = "route"]

(* record_slo_alert and its commit; a suppressed alert is recorded only.   *)
Record ==
  /\ cycle.at = "record"
  /\ log' = Append(log, [severity |-> cycle.severity, by |-> cycle.by, at |-> clock, acked |-> Nobody])
  /\ cycle' = IF cycle.by = Fired THEN [cycle EXCEPT !.at = "send"] ELSE Onward
  /\ UNCHANGED <<bound, clock, history, written, task, button, slack>>

(* The message carries the key of its row, if Slack takes it.              *)
Send ==
  /\ cycle.at = "send"
  /\ button' = button \cup {Len(log)} \/ (SlackMayFail /\ UNCHANGED button)
  /\ cycle' = Onward
  /\ UNCHANGED <<bound, clock, history, written, task, log, slack>>

-----------------------------------------------------------------------------
(* slack_interactivity. *)

(* A user clicks, or Slack delivers a click again, which is as if the user *)
(* had clicked twice.                                                      *)
Deliver(h) ==
  /\ click[h].at = "idle"
  /\ \E i \in button, u \in User :
       /\ clicked["fast"] + clicked["slow"] < bound.clicks
       /\ click' = [click EXCEPT ![h] = [at |-> "select", message |-> i, user |-> u, row |-> 0]]
       /\ clicked' = [clicked EXCEPT ![log[i].severity] = @ + 1]
  /\ UNCHANGED <<bound, clock, history, written, task, cycle, alerts>>

(* The rows with the key of the message that nobody has acknowledged.      *)
Unacked(h) ==
  {i \in DOMAIN log : log[i].severity = log[click[h].message].severity
                       /\ log[i].by = Fired /\ log[i].acked = Nobody}
Newest(S) == CHOOSE i \in S : \A j \in S : j <= i

(* Mutation of Select: without the lock. *)
SelectUnlocked(h) ==
  /\ click[h].at = "select" /\ Unacked(h) # {}
  /\ click' = [click EXCEPT ![h].at = "mark", ![h].row = Newest(Unacked(h))]
  /\ UNCHANGED <<bound, clock, history, written, task, cycle, alerts, clicked>>
(* No row, no acknowledgement: the message stays as it is.                 *)
Select(h) ==
  /\ click[h].at = "select" /\ LockIsFree
  /\ click' = [click EXCEPT ![h] = IF Unacked(h) = {} THEN Waiting
                                   ELSE [@ EXCEPT !.at = "mark", !.row = Newest(Unacked(h))]]
  /\ UNCHANGED <<bound, clock, history, written, task, cycle, alerts, clicked>>

(* Mutation of Mark: every row with the key. *)
MarkAll(h) ==
  /\ click[h].at = "mark"
  /\ log' = [i \in DOMAIN log |-> IF i \in Unacked(h) THEN [log[i] EXCEPT !.acked = click[h].user] ELSE log[i]]
  /\ click' = [click EXCEPT ![h].at = "replace"]
  /\ UNCHANGED <<bound, clock, history, written, task, cycle, button, clicked>>

Mark(h) ==
  /\ click[h].at = "mark"
  /\ log' = [log EXCEPT ![click[h].row].acked = click[h].user]
  /\ click' = [click EXCEPT ![h].at = "replace"]
  /\ UNCHANGED <<bound, clock, history, written, task, cycle, button, clicked>>

(* _post_response_url takes the button off the message that was clicked.   *)
Replace(h) ==
  /\ click[h].at = "replace"
  /\ button' = button \ {click[h].message} \/ (SlackMayFail /\ UNCHANGED button)
  /\ click' = [click EXCEPT ![h] = Waiting]
  /\ UNCHANGED <<bound, clock, history, written, task, cycle, log, clicked>>

-----------------------------------------------------------------------------
BurnStep  == Evaluate \/ Route \/ Record \/ Send
ClickStep == \E h \in Handler : Deliver(h) \/ Select(h) \/ Mark(h) \/ Replace(h)
WriteStep == \E w \in Writer : Change(w) \/ StillOperational(w) \/ Walk(w)

(* The bounds are reached. *)
TheEnd == clock = bound.clock /\ UNCHANGED vars

Next == Tick \/ MaintenanceEnds \/ WriteStep \/ BurnStep \/ ClickStep \/ TheEnd

Spec == Init /\ [][Next]_vars

-----------------------------------------------------------------------------
(* Properties.                                                             *)

Row == [severity : Severity, by : Reason \cup {Fired}, at : 0..bound.clock, acked : User \cup {Nobody}]

TypeOK ==
  /\ bound \in Bounds /\ clock \in 0..bound.clock /\ past \in [1..clock -> Status]
  /\ status \in Status /\ dates \in {"exact", "early", "disordered"}
  /\ \A i \in DOMAIN events : events[i] \in [from : Status, to : Status, at : 0..clock]
  /\ \A r \in reports : r.started <= r.resolved /\ r.resolved <= clock /\ r.peak \in Status
  /\ \A w \in Writer : task[w].at \in {"idle", "recovered", "walk"} /\ task[w].resolved <= clock
  /\ cycle.at \in {"idle", "route", "record", "send"} /\ cycle.now <= clock
  /\ cycle.at = "idle" => cycle = Resting
  /\ \A i \in DOMAIN log : log[i] \in Row
  /\ Len(log) <= bound.rows /\ button \subseteq DOMAIN log
  /\ \A h \in Handler : /\ click[h].at \in {"idle", "select", "mark", "replace"}
                         /\ click[h].message \in DOMAIN log \cup {0} /\ click[h].row \in DOMAIN log \cup {0}
  /\ clicked \in [Severity -> 0..bound.clicks]

(* What really was: the ticks of a window with a status in S.              *)
Window == {FastShort, FastLong, SlowShort, SlowLong, Month}
Really(S, window) == {t \in DOMAIN past : t > clock - window /\ past[t] \in S}
ReallyUp(window)   == Cardinality(Really({"operational"}, window))
ReallyDown(window) == Cardinality(Really(Bad, window))

(* The filter takes a row for the poller's warm-up that a writer with an   *)
(* old read wrote over another status: that status goes on.                *)
StrayWarmUp == \E i \in DOMAIN events \ (Kept(events) \cup {1}) : events[i - 1].to # "unknown"

(* Every window counts an outage in full, whatever statuses came before    *)
(* it, however the filter of the warm-up joins the intervals, and however  *)
(* old the statuses were that the writers had read; uptime may be missed,  *)
(* and is never invented.  Without a stray warm-up, downtime is exact.     *)
DowntimeIsSeen ==
  \A w \in Window :
    LET up   == Operational(events, clock - w, clock)
        down == Tracked(events, clock - w, clock) - up
    IN  /\ up <= ReallyUp(w) /\ ReallyDown(w) <= down
        /\ ~StrayWarmUp => down = ReallyDown(w)

(* The budget that is left is never overstated by what is not tracked.     *)
BudgetIsNotOverstated ==
  ErrorBudgetRemaining(Uptime(events, clock - Month, clock))
    <= ErrorBudgetRemaining(Percent(ReallyUp(Month), ReallyUp(Month) + ReallyDown(Month)))

(* What the pages and the burn rates say of a service is no better than    *)
(* what was, if every row is dated when it was written.                    *)
UptimeIsHonest == dates = "exact" => DowntimeIsSeen /\ BudgetIsNotOverstated

(* So dated, an outage as long as the long window is a breach, whatever    *)
(* the writers had read; and what is over for as long as the short window  *)
(* is none, unless a stray warm-up hides that it is over.                  *)
OutageBurns ==
  dates = "exact" =>
    \A s \in Severity :
      LET short == IF s = "fast" THEN FastShort ELSE SlowShort
          long  == IF s = "fast" THEN FastLong ELSE SlowLong
      IN  /\ ReallyDown(long) = long => s \in Breaches(events, clock)
          /\ ReallyDown(short) = 0 /\ ~StrayWarmUp => s \notin Breaches(events, clock)

(* Two burn-rate alerts of one severity are further apart than the dedup   *)
(* window, although time passes between a decision and its record.         *)
BurnAlertsAreSpaced ==
  \A i, j \in DOMAIN log :
    i < j /\ log[i].by = Fired /\ log[j].by = Fired /\ log[i].severity = log[j].severity
      => log[j].at - log[i].at > DedupWindow

(* A report is about the rows from i to j: j a recovery, i the last change *)
(* before it that left operational (or the first row of all).  It tells    *)
(* when they began, how many they are, and the worst status among them.    *)
Recovers(j) == events[j].to = "operational" /\ events[j].from # "unknown"
Tells(r, i, j) ==
  /\ Recovers(j) /\ (i = 1 \/ events[i].from = "operational")
  /\ \A k \in (i + 1)..(j - 1) : events[k].from # "operational"
  /\ r.started = events[i].at /\ r.count = j - i + 1
  /\ r.peak \in {events[k].to : k \in i..j}
  /\ \A k \in i..j : SEVERITY_RANK[events[k].to] <= SEVERITY_RANK[r.peak]

(* If every row there began where the one before it ended, that is one     *)
(* outage: it was not over before j.  (If not, the walk goes past it.)     *)
Linked(i, j) == \A k \in (i + 1)..j : events[k].from = events[k - 1].to
IsOver(i, j) == \A k \in i..(j - 1) : events[k].to # "operational"

(* Where the rows are also dated when they were written, resolved_at lies  *)
(* between that recovery and the next one.                                 *)
EndsAt(r, i, j) ==
  /\ Linked(i, j) => events[j].at <= r.resolved
  /\ \A k \in (j + 1)..Len(events) : Recovers(k) => r.resolved <= events[k].at

(* A report tells of what was, although it looks for the recovery it was   *)
(* told of in rows that others have appended to since; a draft is about a  *)
(* report.  If the rows are in the order in which they were written.       *)
ReportIsTrue ==
  /\ dates # "disordered" =>
       \A r \in reports : \E j \in DOMAIN events : \E i \in 1..(j - 1) :
         /\ Tells(r, i, j)
         /\ Linked(i, j) => IsOver(i, j)
         /\ dates = "exact" => EndsAt(r, i, j)
  /\ files \subseteq reports

(* An acknowledgement is final: who was first stays on record.             *)
AckIsFinal ==
  [][\A i \in DOMAIN log : log[i].acked # Nobody => log'[i].acked = log[i].acked]_vars

(* Nothing is acknowledged that was not clicked: no more alerts than there *)
(* were clicks on their key, and none that was suppressed.                 *)
AcksAreClicked ==
  \A s \in Severity :
    LET acked == {i \in DOMAIN log : log[i].severity = s /\ log[i].acked # Nobody}
    IN  Cardinality(acked) <= clicked[s] /\ \A i \in acked : log[i].by = Fired

(* A message loses its button only to an acknowledgement of its key on     *)
(* record (not always of its own row: the newest one is taken).            *)
ReplacedMeansAcked ==
  \A h \in Handler : click[h].at = "replace" =>
    \E i \in DOMAIN log : /\ log[i].severity = log[click[h].message].severity
                          /\ log[i].acked = click[h].user

(* Between Slack and the log, an acknowledgement is neither made up nor    *)
(* only shown.                                                             *)
AcksAreEarned == AcksAreClicked /\ ReplacedMeansAcked

(* Each click takes effect at once, and as Acknowledgement promises: on an *)
(* alert that was open, in the clicker's name; a row once acknowledged     *)
(* stays with who was first.                                               *)
AsAlert(row) ==
  [key |-> row.severity, by |-> row.acked, outcome |-> IF row.by = Fired THEN "fired" ELSE "suppressed"]
OnRecord == [i \in DOMAIN log |-> AsAlert(log[i])]
AsClick(c) ==
  IF c.at \in {"select", "mark"} THEN [message |-> c.message, user |-> c.user] ELSE [message |-> 0, user |-> Nobody]
InFlight == [h \in Handler |-> AsClick(click[h])]
Promised == INSTANCE Acknowledgement WITH Key <- Severity, rows <- OnRecord, clicks <- InFlight
ImplementsAcknowledgement == Promised!AbstractSpec
=============================================================================
