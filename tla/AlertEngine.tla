------------------------------ MODULE AlertEngine ------------------------------
(***************************************************************************)
(* What becomes of confirmed status changes: process_changes of            *)
(* app/alerting/engine.py with the decisions of app/alerting/routing.py.   *)
(*                                                                         *)
(* process_changes runs in the poll cycle (a batch of changes) and in the  *)
(* admin and webhook requests (one change each), concurrently.  It takes   *)
(* the write lock for each statement-and-commit only, so such a section is *)
(* one step here, and other tasks run between a decision, its record and   *)
(* its message.  status_events and alert_sent_log survive a crash; the     *)
(* changes a task holds do not.  What a writer read before the lock may be  *)
(* old by the time of its change, so that changes of one service need not  *)
(* follow upon one another.                                                *)
(***************************************************************************)
EXTENDS Integers, FiniteSets, Sequences

CONSTANTS
  Poller, Request,       \* the poll cycle; admin and webhook requests
  Service,
  Bad,                   \* the statuses besides operational and unknown
  VendorIncident,        \* vendors' incident ids
  Depends,               \* service_dependencies: <<upstream, downstream>>
  TierOf,                \* services.tier
  Override,              \* services with a slack_channel_override
  MainWebhook,           \* SLACK_WEBHOOK_URL is configured
  CorrelationThreshold,  \* settings.dependency_correlation_threshold
  BatchThreshold,        \* engine.BATCH_THRESHOLD
  Maintained,            \* services that have maintenance windows
  SlackMayFail, MayFail, MayCrash,
  MaxEvents, MaxClock    \* bounds: events; midnights and rows that leave the window

Task == Request \cup {Poller}
ServiceStatus == Bad \cup {"operational", "unknown"}
NoIncident == "no incident"

ASSUME EngineAssumption ==
  /\ Poller \notin Request /\ IsFiniteSet(Request) /\ IsFiniteSet(Service)
  /\ Bad \subseteq {"degraded", "partial_outage", "major_outage"}
  /\ NoIncident \notin VendorIncident
  /\ Depends \subseteq Service \X Service
  /\ TierOf \in [Service -> {"critical", "important", "informational"}]
  /\ Override \subseteq Service /\ Maintained \subseteq Service
  /\ {MainWebhook, SlackMayFail, MayFail, MayCrash} \subseteq BOOLEAN
  /\ CorrelationThreshold \in Nat \ {0} /\ BatchThreshold \in Nat
  /\ MaxEvents \in Nat /\ MaxClock \in Nat

VARIABLES
  status,       \* services.current_status
  events,       \* status_events; a StatusChange is an index into it
  impact,       \* the events with an impact_statement
  reports,      \* incident_reports: <<first event, recovery>> of an incident
  log,          \* alert_sent_log
  expired,      \* how many rows of log have left the dedup window
  day,          \* the day bucket
  maintenance,  \* services inside a maintenance window
  messages,     \* what Slack accepted
  pc, batch, todo, groups, verdict, sends, heads,  \* locals of each task
  named,        \* also local: <<change, a service that its impact text names>>
  finished      \* history: changes whose process_changes ran to its end

locals == <<pc, batch, todo, groups, verdict, sends, heads, named>>
clock  == <<expired, day, maintenance>>
tables == <<status, events, impact, reports, log>>
vars   == <<tables, clock, messages, locals, finished>>

Event == [svc : Service, from : ServiceStatus, to : ServiceStatus,
          incident : VendorIncident \cup {NoIncident}]
Fired == "fired"   \* suppressed_by IS NULL
Reason == {"aggregated_under_upstream", "maintenance_window", "dedup",
           "tier_informational", "webhook_not_configured"}
NoVerdict == [event |-> 0, by |-> Fired, day |-> 0]

Row == [event : 1..MaxEvents, day : 0..MaxClock, by : Reason \cup {Fired},
        kind : {"status_change", "aggregated_upstream"}]
Message == [events : SUBSET (1..MaxEvents), cites : SUBSET (1..MaxEvents), names : SUBSET Service,
            kind : {"single", "batch", "aggregated"}]
Locations == {"idle", "correlate", "impact", "route", "record", "group", "grouprecord", "headlines", "singles"}

(* Types, and that a task at rest holds on to nothing. *)
TypeOK ==
  /\ status \in [Service -> ServiceStatus]
  /\ events \in Seq(Event) /\ Len(events) <= MaxEvents
  /\ impact \subseteq DOMAIN events
  /\ reports \subseteq ((DOMAIN events) \X (DOMAIN events))
  /\ log \in Seq(Row) /\ expired \in 0..Len(log) /\ day \in 0..MaxClock
  /\ maintenance \subseteq Maintained
  /\ messages \subseteq Message
  /\ finished \subseteq DOMAIN events
  /\ \A t \in Task :
       /\ pc[t] \in Locations /\ batch[t] \subseteq DOMAIN events
       /\ (todo[t] \cup groups[t] \cup sends[t] \cup heads[t]) \subseteq batch[t]
       /\ named[t] \subseteq batch[t] \X Service /\ verdict[t].event \in batch[t] \cup {0}
       /\ pc[t] = "idle" => batch[t] = {}

-----------------------------------------------------------------------------
(* Pure parts: what a batch of changes B amounts to.                       *)

Svc(e) == events[e].svc

(* unknown to operational: the poller warmed up, nobody is told.           *)
WarmUp(e) == events[e].from = "unknown" /\ events[e].to = "operational"
Recovery(e) == events[e].to = "operational" /\ ~WarmUp(e)

(* find_aggregation_candidates.                                            *)
Affected(B) == {e \in B : events[e].from = "operational" /\ events[e].to # "operational"}
Dependents(u, B) == {e \in Affected(B) : e # u /\ <<Svc(u), Svc(e)>> \in Depends}
Upstreams(B) == {u \in Affected(B) : Cardinality(Dependents(u, B)) >= CorrelationThreshold}

Aggregated(B) == UNION {Dependents(u, B) : u \in Upstreams(B)}

(* generate_impact_statement names the services that get_downstream finds, *)
(* but not of a recovery.                                                  *)
ImpactOn(e) == IF events[e].to = "operational" THEN {} ELSE {s \in Service : <<Svc(e), s>> \in Depends}

(* generate_incident_report walks status_events back from the newest       *)
(* recovery to the event that left operational.                            *)
Of(s) == {e \in DOMAIN events : Svc(e) = s}
Newest(E) == CHOOSE e \in E : \A f \in E : f <= e
Oldest(E) == CHOOSE e \in E : \A f \in E : e <= f

Incident(s) ==
  LET recoveries == {e \in Of(s) : Recovery(e)}
      before     == {e \in Of(s) : recoveries # {} /\ e < Newest(recoveries)}
      starts     == {e \in before : events[e].from = "operational"}
  IN  IF before = {} THEN {}
      ELSE {<<IF starts # {} THEN Newest(starts) ELSE Oldest(before), Newest(recoveries)>>}

-----------------------------------------------------------------------------
(* Routing (route_status_change).                                          *)

(* build_dedup_key: the vendor's incident, else status and day.            *)
Key(e, d) ==
  IF events[e].incident # NoIncident THEN <<Svc(e), "vendor", events[e].incident, 0>>
                                     ELSE <<Svc(e), "fallback", events[e].to, d>>

(* Mutation of RecentlyAlerted: the window lies in the future.              *)
RecentlyAlertedNever(key) == FALSE

(* was_recently_alerted. *)
RecentlyAlerted(key) ==
  \E i \in (expired + 1)..Len(log) :
     log[i].by = Fired /\ Key(log[i].event, log[i].day) = key

(* The webhook of a service: slack_channel_override or the main one.       *)
Webhook(s) == IF s \in Override THEN "own" ELSE IF MainWebhook THEN "main" ELSE "none"

(* The first reason that applies is recorded; a recovery is never a repeat. *)
Suppression(e, aggregated) ==
  IF aggregated THEN "aggregated_under_upstream"
  ELSE IF Svc(e) \in maintenance THEN "maintenance_window"
  ELSE IF events[e].to # "operational" /\ RecentlyAlerted(Key(e, day)) THEN "dedup"
  ELSE IF TierOf[Svc(e)] = "informational" THEN "tier_informational"
  ELSE IF Webhook(Svc(e)) = "none" THEN "webhook_not_configured"
  ELSE Fired

-----------------------------------------------------------------------------
Goto(t, l)  == pc' = [pc EXCEPT ![t] = l]
Set(f, t, x) == [f EXCEPT ![t] = x]

ClearLocals(t) ==
  /\ batch' = Set(batch, t, {}) /\ todo' = Set(todo, t, {}) /\ groups' = Set(groups, t, {})
  /\ verdict' = Set(verdict, t, NoVerdict)
  /\ sends' = Set(sends, t, {}) /\ heads' = Set(heads, t, {}) /\ named' = Set(named, t, {})

(* A system that has been running: retention has dropped its old events.   *)
Init ==
  /\ status \in [Service -> {"unknown", "operational"}]
  /\ events = <<>> /\ impact = {} /\ reports = {}
  /\ log = <<>> /\ expired = 0 /\ day = 0 /\ maintenance = {}
  /\ messages = {} /\ finished = {}
  /\ pc = [t \in Task |-> "idle"]
  /\ verdict = [t \in Task |-> NoVerdict]
  /\ batch = [t \in Task |-> {}] /\ todo = batch /\ groups = batch /\ sends = batch /\ heads = batch
  /\ named = batch

(* Confirmed changes, committed with their events and handed over.         *)
Arrive(t, changes) ==
  LET first == Len(events) + 1
      last  == Len(events) + Len(changes)
  IN  /\ pc[t] = "idle" /\ last <= MaxEvents
      /\ events' = events \o changes
      /\ status' = [s \in Service |->
           IF \E i \in DOMAIN changes : changes[i].svc = s
           THEN (CHOOSE c \in {changes[i] : i \in DOMAIN changes} : c.svc = s).to
           ELSE status[s]]
      /\ batch' = Set(batch, t, first..last)
      /\ todo'  = Set(todo, t, first..last)
      /\ Goto(t, "correlate")
      /\ UNCHANGED <<impact, reports, log, clock, messages, groups, verdict, sends, heads, named, finished>>

(* The status that a writer has read: one that waited for another may have *)
(* read any earlier one.                                                   *)
Seen(s) == {status[s]} \cup (IF Request = {} THEN {} ELSE {events[e].from : e \in Of(s)})

Change(s, from, to, incident) == [svc |-> s, from |-> from, to |-> to, incident |-> incident]

PolledChange == UNION {{Change(s, from, to, i) : from \in Seen(s), to \in Bad \cup {"operational"},
                                                 i \in VendorIncident \cup {NoIncident}} : s \in Service}

(* detect_changes returns at most one change for each service.             *)
PollArrives ==
  \E n \in 1..Cardinality(Service) :
    \E changes \in [1..n -> PolledChange] :
      /\ \A i \in 1..n : changes[i].from # changes[i].to
      /\ \A i, j \in 1..n : i # j => changes[i].svc # changes[j].svc
      /\ Arrive(Poller, changes)

(* An admin's or a webhook's change carries no incident id.                *)
RequestArrives(t) ==
  \E s \in Service, to \in ServiceStatus : \E from \in Seen(s) \ {to} :
    Arrive(t, <<Change(s, from, to, NoIncident)>>)

Correlate(t) ==
  /\ pc[t] = "correlate"
  /\ groups' = Set(groups, t, Upstreams(batch[t]))
  /\ Goto(t, "impact")
  /\ UNCHANGED <<tables, clock, messages, batch, todo, verdict, sends, heads, named, finished>>

(* First loop: the impact text, its UPDATE, and for a recovery the report, *)
(* if the service is still up and the incident lasted a minute.  Each      *)
(* catches what it raises; a text that could not be made names nobody.     *)
Impact(t) ==
  /\ pc[t] = "impact"
  /\ \E e \in todo[t] :
       /\ named' = Set(named, t, named[t] \cup ({e} \X ImpactOn(e))) \/ (MayFail /\ UNCHANGED named)
       /\ impact' = impact \cup {e} \/ (MayFail /\ UNCHANGED impact)
       /\ \/ /\ Recovery(e) /\ status[Svc(e)] = "operational"
             /\ reports' = reports \cup Incident(Svc(e))
          \/ UNCHANGED reports
       /\ IF todo[t] = {e}
          THEN todo' = Set(todo, t, batch[t]) /\ Goto(t, "route")
          ELSE todo' = Set(todo, t, todo[t] \ {e}) /\ UNCHANGED pc
  /\ UNCHANGED <<status, events, log, clock, messages, batch, groups, verdict, sends, heads, finished>>

(* Mutation of SkipWarmUp: it does not look at the previous status.        *)
SkipRecoveries(t) ==
  /\ pc[t] = "route"
  /\ \E e \in todo[t] : events[e].to = "operational" /\ todo' = Set(todo, t, todo[t] \ {e})
  /\ UNCHANGED <<tables, clock, messages, pc, batch, groups, verdict, sends, heads, named, finished>>

(* Second loop: every change is routed, then recorded. *)
SkipWarmUp(t) ==
  /\ pc[t] = "route"
  /\ \E e \in todo[t] : WarmUp(e) /\ todo' = Set(todo, t, todo[t] \ {e})
  /\ UNCHANGED <<tables, clock, messages, pc, batch, groups, verdict, sends, heads, named, finished>>

Decide(t) ==
  /\ pc[t] = "route"
  /\ \E e \in todo[t] :
       /\ ~WarmUp(e)
       /\ verdict' = Set(verdict, t,
            [event |-> e, by |-> Suppression(e, e \in Aggregated(batch[t])), day |-> day])
  /\ Goto(t, "record")
  /\ UNCHANGED <<tables, clock, messages, batch, todo, groups, sends, heads, named, finished>>

InsertRow(t, k) ==
  log' = Append(log, [event |-> verdict[t].event, day |-> verdict[t].day,
                      by |-> verdict[t].by, kind |-> k])

(* Mutations of Record: suppressions are not recorded; they are sent.      *)
RecordFiredOnly(t) ==
  /\ pc[t] = "record"
  /\ IF verdict[t].by = Fired THEN InsertRow(t, "status_change") ELSE UNCHANGED log
  /\ sends' = IF verdict[t].by = Fired THEN Set(sends, t, sends[t] \cup {verdict[t].event}) ELSE sends
  /\ todo' = Set(todo, t, todo[t] \ {verdict[t].event})
  /\ Goto(t, "route")
  /\ UNCHANGED <<status, events, impact, reports, clock, messages, batch, groups, verdict, heads, named, finished>>
RecordSendsAll(t) ==
  /\ pc[t] = "record"
  /\ InsertRow(t, "status_change")
  /\ sends' = Set(sends, t, sends[t] \cup {verdict[t].event})
  /\ todo' = Set(todo, t, todo[t] \ {verdict[t].event})
  /\ Goto(t, "route")
  /\ UNCHANGED <<status, events, impact, reports, clock, messages, batch, groups, verdict, heads, named, finished>>

Record(t) ==
  /\ pc[t] = "record"
  /\ InsertRow(t, "status_change")
  /\ sends' = IF verdict[t].by = Fired THEN Set(sends, t, sends[t] \cup {verdict[t].event}) ELSE sends
  /\ todo' = Set(todo, t, todo[t] \ {verdict[t].event})
  /\ Goto(t, "route")
  /\ UNCHANGED <<status, events, impact, reports, clock, messages, batch, groups, verdict, heads, named, finished>>

Routed(t) ==
  /\ pc[t] = "route" /\ todo[t] = {}
  /\ Goto(t, "group")
  /\ UNCHANGED <<tables, clock, messages, batch, todo, groups, verdict, sends, heads, named, finished>>

(* Third loop: each upstream is routed again, for the aggregated alert.    *)
DecideGroup(t) ==
  /\ pc[t] = "group"
  /\ \E u \in groups[t] :
       verdict' = Set(verdict, t, [event |-> u, by |-> Suppression(u, FALSE), day |-> day])
  /\ Goto(t, "grouprecord")
  /\ UNCHANGED <<tables, clock, messages, batch, todo, groups, sends, heads, named, finished>>

(* Mutation of RecordGroup: a suppressed aggregated alert is not recorded. *)
RecordGroupFiredOnly(t) ==
  /\ pc[t] = "grouprecord"
  /\ IF verdict[t].by = Fired THEN InsertRow(t, "aggregated_upstream") ELSE UNCHANGED log
  /\ heads' = IF verdict[t].by = Fired THEN Set(heads, t, heads[t] \cup {verdict[t].event}) ELSE heads
  /\ groups' = Set(groups, t, groups[t] \ {verdict[t].event})
  /\ Goto(t, "group")
  /\ UNCHANGED <<status, events, impact, reports, clock, messages, batch, todo, verdict, sends, named, finished>>

RecordGroup(t) ==
  /\ pc[t] = "grouprecord"
  /\ InsertRow(t, "aggregated_upstream")
  /\ heads' = IF verdict[t].by = Fired THEN Set(heads, t, heads[t] \cup {verdict[t].event}) ELSE heads
  /\ groups' = Set(groups, t, groups[t] \ {verdict[t].event})
  /\ Goto(t, "group")
  /\ UNCHANGED <<status, events, impact, reports, clock, messages, batch, todo, verdict, sends, named, finished>>

Grouped(t) ==
  /\ pc[t] = "group" /\ groups[t] = {}
  /\ Goto(t, "headlines")
  /\ UNCHANGED <<tables, clock, messages, batch, todo, groups, verdict, sends, heads, named, finished>>

(* send_slack_alert never raises; it tries again once, where Slack asks it  *)
(* to wait (429), and a message that fails then is not sent again.         *)
Names(t, E) == {p[2] : p \in {q \in named[t] : q[1] \in E}}
Post(m) == messages' = messages \cup {m} \/ (SlackMayFail /\ UNCHANGED messages)

SendHeadline(t) ==
  /\ pc[t] = "headlines"
  /\ \E u \in heads[t] :
       /\ Post([events |-> {u}, cites |-> Dependents(u, batch[t]), names |-> Names(t, {u}), kind |-> "aggregated"])
       /\ heads' = Set(heads, t, heads[t] \ {u})
  /\ UNCHANGED <<tables, clock, pc, batch, todo, groups, verdict, sends, named, finished>>

HeadlinesSent(t) ==
  /\ pc[t] = "headlines" /\ heads[t] = {}
  /\ Goto(t, "singles")
  /\ UNCHANGED <<tables, clock, messages, batch, todo, groups, verdict, sends, heads, named, finished>>

Finish(t) ==
  /\ finished' = finished \cup batch[t]
  /\ ClearLocals(t)
  /\ Goto(t, "idle")

(* Mutation of SendBatch: the message names one alert of many.             *)
SendBatchOfOne(t) ==
  /\ pc[t] = "singles" /\ MainWebhook /\ Cardinality(sends[t]) > BatchThreshold
  /\ Post([events |-> {Oldest(sends[t])}, cites |-> {}, names |-> Names(t, sends[t]), kind |-> "batch"])
  /\ Finish(t)
  /\ UNCHANGED <<tables, clock>>

(* More than BatchThreshold alerts go out as one message.                  *)
SendBatch(t) ==
  /\ pc[t] = "singles" /\ MainWebhook /\ Cardinality(sends[t]) > BatchThreshold
  /\ Post([events |-> sends[t], cites |-> {}, names |-> Names(t, sends[t]), kind |-> "batch"])
  /\ Finish(t)
  /\ UNCHANGED <<tables, clock>>

SendSingle(t) ==
  /\ pc[t] = "singles" /\ MainWebhook /\ Cardinality(sends[t]) <= BatchThreshold
  /\ \E e \in sends[t] :
       /\ Post([events |-> {e}, cites |-> {}, names |-> Names(t, {e}), kind |-> "single"])
       /\ sends' = Set(sends, t, sends[t] \ {e})
  /\ UNCHANGED <<tables, clock, pc, batch, todo, groups, verdict, heads, named, finished>>

Done(t) ==
  /\ pc[t] = "singles" /\ (sends[t] = {} \/ ~MainWebhook)
  /\ Finish(t)
  /\ UNCHANGED <<tables, clock, messages>>

(* Correlating, routing and recording are not guarded: what they raise     *)
(* ends the task, with the rest of its changes.                            *)
Fail(t) ==
  /\ MayFail /\ pc[t] \in {"correlate", "route", "record", "group", "grouprecord"}
  /\ ClearLocals(t) /\ Goto(t, "idle")
  /\ UNCHANGED <<tables, clock, messages, finished>>

Crash ==
  /\ MayCrash
  /\ pc' = [t \in Task |-> "idle"]
  /\ verdict' = [t \in Task |-> NoVerdict]
  /\ batch' = [t \in Task |-> {}] /\ todo' = batch' /\ groups' = batch' /\ sends' = batch' /\ heads' = batch'
  /\ named' = batch'
  /\ UNCHANGED <<tables, clock, messages, finished>>

(* Time: midnight starts another day bucket, rows leave the window, and    *)
(* maintenance windows open and close.                                     *)
Midnight ==
  /\ day + expired < MaxClock /\ day' = day + 1
  /\ UNCHANGED <<tables, expired, maintenance, messages, locals, finished>>

Expire ==
  /\ day + expired < MaxClock /\ expired < Len(log) /\ expired' = expired + 1
  /\ UNCHANGED <<tables, day, maintenance, messages, locals, finished>>

MaintenanceTurns(s) ==
  /\ maintenance' = IF s \in maintenance THEN maintenance \ {s} ELSE maintenance \cup {s}
  /\ UNCHANGED <<tables, expired, day, messages, locals, finished>>

(* A cycle without confirmed changes has nothing to alert. *)
Quiet == (\A t \in Task : pc[t] = "idle") /\ UNCHANGED vars

Step(t) ==
  \/ Correlate(t) \/ Impact(t) \/ SkipWarmUp(t) \/ Decide(t) \/ Record(t) \/ Routed(t)
  \/ DecideGroup(t) \/ RecordGroup(t) \/ Grouped(t)
  \/ SendHeadline(t) \/ HeadlinesSent(t) \/ SendBatch(t) \/ SendSingle(t) \/ Done(t)

Next ==
  \/ PollArrives
  \/ \E t \in Request : RequestArrives(t)
  \/ \E t \in Task : Step(t) \/ Fail(t)
  \/ Quiet \/ Crash \/ Midnight \/ Expire
  \/ \E s \in Maintained : MaintenanceTurns(s)

Spec == Init /\ [][Next]_vars

-----------------------------------------------------------------------------
(* Properties.                                                             *)

RowsOf(e, k) == {i \in DOMAIN log : log[i].event = e /\ log[i].kind = k}
Told(e) == \E m \in messages : e \in m.events

(* Every change that was processed to the end has exactly one row that     *)
(* says whether it was alerted and, if not, why ("Suppressed alerts still  *)
(* recorded"); a warm-up has none.                                         *)
AuditTrail ==
  \A e \in finished : Cardinality(RowsOf(e, "status_change")) = IF WarmUp(e) THEN 0 ELSE 1

(* A change silenced in favour of its upstream really has one: an upstream *)
(* it depends on that went down in the same batch and was routed as the    *)
(* aggregated alert.  If any alert of that upstream was fired, one message *)
(* about it names the silenced service; if none, their rows say why.       *)
SilencedHasHeadline ==
  \A e \in finished : \A i \in RowsOf(e, "status_change") :
    log[i].by = "aggregated_under_upstream" =>
      \E u \in finished : /\ <<Svc(u), Svc(e)>> \in Depends /\ u # e
                          /\ RowsOf(u, "aggregated_upstream") # {}
                          /\ \/ \E m \in messages : u \in m.events /\ Svc(e) \in m.names
                             \/ \A j \in DOMAIN log : log[j].event = u => log[j].by # Fired

(* Operators always hear "it's back", also right after the outage: unless  *)
(* tier or maintenance says otherwise, a recovery reaches Slack.           *)
RecoveryIsTold ==
  \A e \in finished :
    Recovery(e) /\ MainWebhook /\ TierOf[Svc(e)] # "informational" /\ Svc(e) \notin Maintained
      => Told(e)

(* The log is written ahead: whatever operators were told stands in        *)
(* alert_sent_log as fired, crash or no crash, so that a restart never     *)
(* takes a sent alert for an unsent one.                                   *)
WriteAhead ==
  \A m \in messages : \A e \in m.events :
    \E i \in DOMAIN log : log[i].event = e /\ log[i].by = Fired

(* Nobody is told twice of one change: neither by its own alert and the    *)
(* aggregated one, nor by two tasks.                                       *)
ToldOnce == \A m, n \in messages : m # n => m.events \cap n.events = {}

(* "Informational-tier services are never Slack-paged", alone, in a batch  *)
(* or as the headline of an aggregated alert.                              *)
InformationalIsQuiet ==
  \A m \in messages : \A e \in m.events : TierOf[Svc(e)] # "informational"

(* "Dedup window blocks repeats": of alerts of outages with one key, the   *)
(* window holds only those that were decided before the first of them was  *)
(* on record, one of each task: however the window moves, midnights come,  *)
(* and tasks fail.                                                         *)
Alike(key) ==
  {i \in (expired + 1)..Len(log) : /\ log[i].by = Fired /\ events[log[i].event].to # "operational"
                                   /\ Key(log[i].event, log[i].day) = key}
RepeatsAreConcurrent ==
  \A i \in DOMAIN log : Cardinality(Alike(Key(log[i].event, log[i].day))) <= Cardinality(Task)

(* was_recently_alerted: "True if any alert with this dedup_key was sent   *)
(* within the window."  What counts as sent was sent, once its task ended. *)
FiredMeansSent ==
  \A i \in DOMAIN log : log[i].by = Fired /\ log[i].event \in finished => Told(log[i].event)

(* "If upstream-down caused >= N dependents to flip, consolidate their     *)
(* individual alerts into one aggregated upstream alert": an upstream that *)
(* took its dependents' alerts has such an alert, if operators are told of *)
(* it at all.                                                              *)
UpstreamConsolidates ==
  \A u \in finished :
    Told(u) /\ RowsOf(u, "aggregated_upstream") # {}
      => \E m \in messages : m.kind = "aggregated" /\ u \in m.events
=============================================================================
