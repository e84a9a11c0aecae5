----------------------------- MODULE Housekeeping -----------------------------
(***************************************************************************)
(* The scheduled jobs that keep the database small and safe: retention     *)
(* (app/retention.py) and the daily backup (app/backup.py), on the         *)
(* connection they share with the writers.                                 *)
(*                                                                         *)
(* Time is counted in days.  alert_sent_log.status_event_id references     *)
(* status_events and foreign keys are enforced, so the order of the two    *)
(* DELETEs matters; a statement that fails leaves the connection's         *)
(* transaction open until somebody commits, and VACUUM INTO refuses to run *)
(* inside one.                                                             *)
(***************************************************************************)
EXTENDS Integers

CONSTANTS
  Event,      \* status_events ids
  EventDays,  \* settings.retention_days_status_events, 0: keep for ever
  AlertDays,  \* settings.retention_days_alert_sent_log, 0: keep for ever
  Period,     \* settings.retention_interval_hours
  DedupDays,  \* settings.alert_dedup_window_seconds
  BackupDays, \* settings.backup_retention_days
  MayFail,    \* statements and VACUUM INTO may raise
  MayRestart  \* the process may be restarted

ASSUME HousekeepingAssumption ==
  /\ EventDays \in Nat /\ AlertDays \in Nat /\ DedupDays \in Nat /\ BackupDays \in Nat
  /\ Period \in Nat \ {0}
  /\ MayFail \in BOOLEAN /\ MayRestart \in BOOLEAN

(* Bounds: an age that has passed everything it is compared with, by the   *)
(* code or by a property, is not counted on.                               *)
EventCap == EventDays + Period + 1
AlertCap == AlertDays + Period + DedupDays + 1
FileCap  == BackupDays + 1

VARIABLES
  events,     \* status_events: records of an id and its age
  alerts,     \* alert_sent_log: records of the event referenced and the age
  busy,       \* a writer is inside the write lock
  open,       \* the connection has uncommitted statements
  countdown,  \* days until the retention job fires
  backupDue,  \* today's backup has not fired yet
  backups,    \* the files pulse-<date>.db: age and whether complete
  saved,      \* history: there has been a complete backup
  steady      \* history: the process has not been restarted

tables     == <<events, alerts>>
connection == <<busy, open>>
files      == <<backups, saved, steady>>
vars       == <<tables, connection, countdown, backupDue, files>>

Row   == [id : Event, age : 0..EventCap]
Alert == [event : Event, age : 0..AlertCap]
File  == [age : 0..FileCap, whole : BOOLEAN]

(* Types; ids are unique, and so are the names of the files still young.   *)
TypeOK ==
  /\ events \subseteq Row
  /\ \A r, s \in events : r.id = s.id => r = s
  /\ alerts \subseteq Alert
  /\ busy \in BOOLEAN /\ open \in BOOLEAN
  /\ countdown \in 0..Period /\ backupDue \in BOOLEAN
  /\ backups \subseteq File /\ saved \in BOOLEAN /\ steady \in BOOLEAN
  /\ \A b, c \in backups : b.age = c.age /\ b.age < FileCap => b = c

Ids == {r.id : r \in events}

Init ==
  /\ events = {} /\ alerts = {}
  /\ busy = FALSE /\ open = FALSE
  /\ countdown = Period
  /\ backupDue = TRUE /\ backups = {} /\ saved = FALSE /\ steady = TRUE

-----------------------------------------------------------------------------
(* The writers: a transaction under the lock that inserts and commits.     *)

Begin ==
  /\ ~busy /\ busy' = TRUE /\ open' = TRUE
  /\ UNCHANGED <<tables, countdown, backupDue, files>>

Commit == busy /\ busy' = FALSE /\ open' = FALSE

ConfirmChange(e) ==
  /\ Commit
  /\ e \notin Ids /\ \A a \in alerts : a.event # e
  /\ events' = events \cup {[id |-> e, age |-> 0]}
  /\ UNCHANGED <<alerts, countdown, backupDue, files>>

(* record_alert, moments after the change; midnight may lie between.       *)
RecordAlert(e) ==
  /\ Commit
  /\ \E r \in events : r.id = e /\ r.age <= 1
  /\ alerts' = alerts \cup {[event |-> e, age |-> 0]}
  /\ UNCHANGED <<events, countdown, backupDue, files>>

(* A poll cycle that confirmed nothing commits its pending buffers.        *)
CommitOther ==
  /\ Commit
  /\ UNCHANGED <<tables, countdown, backupDue, files>>

(* It raises: the lock is given back, the transaction stays open.          *)
WriteFails ==
  /\ MayFail /\ busy /\ busy' = FALSE
  /\ UNCHANGED <<tables, open, countdown, backupDue, files>>

-----------------------------------------------------------------------------
(* Retention.                                                              *)

OldEvents == {r \in events : EventDays > 0 /\ r.age > EventDays}

(* Mutation of OldAlerts: the boundary day goes too.                       *)
OldAlertsAndYounger == {a \in alerts : AlertDays > 0 /\ a.age >= AlertDays}
OldAlerts == {a \in alerts : AlertDays > 0 /\ a.age > AlertDays}

Referenced(E) == \E r \in E, a \in alerts : a.event = r.id

(* Mutation of Purge: the second DELETE is forgotten.                      *)
PurgeEventsOnly ==
  /\ ~busy /\ ~Referenced(OldEvents)
  /\ events' = events \ OldEvents
  /\ open' = FALSE
  /\ UNCHANGED <<alerts, busy>>

(* purge_old_rows: events, then alerts, then the commit.                   *)
Purge ==
  /\ ~busy /\ ~Referenced(OldEvents)
  /\ events' = events \ OldEvents
  /\ alerts' = alerts \ OldAlerts
  /\ open' = FALSE
  /\ UNCHANGED busy

(* The foreign key refuses the first DELETE; the tick logs what is raised. *)
PurgeRefused ==
  /\ ~busy /\ Referenced(OldEvents)
  /\ open' = TRUE
  /\ UNCHANGED <<tables, busy>>

RetentionTick ==
  /\ countdown = 0 /\ countdown' = Period
  /\ Purge \/ PurgeRefused
  /\ UNCHANGED <<backupDue, files>>

-----------------------------------------------------------------------------
(* Backup.                                                                 *)

Today == {b \in backups : b.age = 0}
Kept  == {b \in backups : b.age <= BackupDays}   \* cleanup_old_backups

BackupDone == backupDue /\ backupDue' = FALSE

(* Today's file exists: nothing to do. *)
BackupSkips ==
  /\ BackupDone /\ Today # {}
  /\ UNCHANGED <<tables, connection, countdown, files>>

(* VACUUM INTO succeeds, and only then are old files deleted.              *)
BackupSucceeds ==
  /\ BackupDone /\ Today = {} /\ ~open
  /\ backups' = Kept \cup {[age |-> 0, whole |-> TRUE]}
  /\ saved' = TRUE
  /\ UNCHANGED <<tables, connection, countdown, steady>>

(* Mutation of BackupRefused: cleaning up in a "finally".                  *)
BackupRefusedButCleans ==
  /\ BackupDone /\ Today = {} /\ open
  /\ backups' = Kept
  /\ UNCHANGED <<tables, connection, countdown, saved, steady>>

(* "cannot VACUUM from within a transaction", whoever's it is.             *)
BackupRefused ==
  /\ BackupDone /\ Today = {} /\ open
  /\ UNCHANGED <<tables, connection, countdown, files>>

(* A full disk, or a kill, leaves an incomplete file behind.               *)
BackupBreaks ==
  /\ MayFail /\ BackupDone /\ Today = {} /\ ~open
  /\ backups' = backups \cup {[age |-> 0, whole |-> FALSE]}
  /\ UNCHANGED <<tables, connection, countdown, saved, steady>>

-----------------------------------------------------------------------------
(* Days pass and processes restart.                                        *)

Ageing(S, cap) == {[x EXCEPT !.age = IF @ < cap THEN @ + 1 ELSE cap] : x \in S}

(* The jobs of a day run on that day (misfires aside).  File names carry   *)
(* the local date and the schedule is UTC: once a year, when the clocks    *)
(* change, two runs may share a date.                                      *)
NextDay ==
  /\ countdown > 0 /\ countdown' = countdown - 1
  /\ ~backupDue /\ backupDue' = TRUE
  /\ events' = Ageing(events, EventCap) /\ alerts' = Ageing(alerts, AlertCap)
  /\ backups' = Ageing(backups, FileCap) \/ UNCHANGED backups
  /\ UNCHANGED <<connection, saved, steady>>

(* Interval jobs start counting anew; the hour of the backup may have      *)
(* passed while the process was down.                                      *)
Restart ==
  /\ MayRestart
  /\ busy' = FALSE /\ open' = FALSE
  /\ countdown' = Period
  /\ backupDue' \in {backupDue, FALSE}
  /\ steady' = FALSE
  /\ UNCHANGED <<tables, backups, saved>>

Next ==
  \/ Begin \/ CommitOther \/ WriteFails
  \/ \E e \in Event : ConfirmChange(e) \/ RecordAlert(e)
  \/ RetentionTick
  \/ BackupSkips \/ BackupSucceeds \/ BackupRefused \/ BackupBreaks
  \/ NextDay \/ Restart

Spec == Init /\ [][Next]_vars

-----------------------------------------------------------------------------
(* Properties.                                                             *)

(* "Data retention - keep append-only tables from growing forever": with   *)
(* the job running every Period days, no row outlives its window by more.  *)
(* (Restarts start the interval anew, and may put the job off for ever.)   *)
OldRowsGo == steady =>
  /\ EventDays > 0 => \A r \in events : r.age <= EventDays + Period
  /\ AlertDays > 0 => \A a \in alerts : a.age <= AlertDays + Period

(* What retention needs to work at all: alert rows are gone one period     *)
(* before the events they reference are due.                               *)
Staggered == AlertDays > 0 /\ (EventDays > 0 => AlertDays + Period < EventDays)

(* Once there has been a complete backup there always is one, whatever     *)
(* fails later: old files are deleted after a new one only.                *)
ABackupRemains == saved => \E b \in backups : b.whole

(* Retention never takes an alert out of the dedup window: the outage      *)
(* would be alerted again.                                                 *)
DedupMemoryKept ==
  [][RetentionTick => \A a \in alerts : a.age <= DedupDays => a \in alerts']_vars
=============================================================================
