--------------------------- MODULE HousekeepingProofs ---------------------------
(***************************************************************************)
(* Housekeeping for all windows, periods and numbers of rows.              *)
(*                                                                         *)
(* The main result is the condition under which retention works at all:    *)
(* with Staggered windows no DELETE is ever refused, so no row outlives    *)
(* its window by more than a period.  The invariant that carries it is     *)
(* OnSchedule: ages are bounded by the days since the last run, and an     *)
(* alert is at most a day younger than its event.                          *)
(***************************************************************************)
EXTENDS Housekeeping, TLAPS


(* What one day does to the three kinds of records.                        *)
LEMMA RowAges ==
  ASSUME NEW S, S \subseteq Row, NEW y \in Ageing(S, EventCap)
  PROVE  /\ y \in Row
         /\ \E x \in S : y.id = x.id /\ y.age = IF x.age < EventCap THEN x.age + 1 ELSE EventCap
  BY HousekeepingAssumption DEF Ageing, Row, EventCap

LEMMA AlertAges ==
  ASSUME NEW S, S \subseteq Alert, NEW y \in Ageing(S, AlertCap)
  PROVE  /\ y \in Alert
         /\ \E x \in S : y.event = x.event /\ y.age = IF x.age < AlertCap THEN x.age + 1 ELSE AlertCap
  BY HousekeepingAssumption DEF Ageing, Alert, AlertCap

LEMMA FileAges ==
  ASSUME NEW S, S \subseteq File, NEW y \in Ageing(S, FileCap)
  PROVE  /\ y \in File
         /\ \E x \in S : y.whole = x.whole /\ y.age = IF x.age < FileCap THEN x.age + 1 ELSE FileCap
  BY HousekeepingAssumption DEF Ageing, File, FileCap

LEMMA CapsAreNaturals ==
  /\ EventCap \in Nat /\ AlertCap \in Nat /\ FileCap \in Nat
  /\ EventCap = EventDays + Period + 1
  /\ AlertCap > AlertDays + Period
  BY HousekeepingAssumption DEF EventCap, AlertCap, FileCap

-----------------------------------------------------------------------------
(* Types: rows, alerts and files keep their shapes and their identities,   *)
(* through purges, backups, ageing and restarts.                           *)
THEOREM TypeCorrect == Spec => []TypeOK
<1>1. Init => TypeOK
  <2> SUFFICES ASSUME Init PROVE TypeOK
    OBVIOUS
  <2>1. countdown \in 0..Period
    BY HousekeepingAssumption DEF Init
  <2>2. events = {} /\ alerts = {} /\ backups = {}
    BY DEF Init
  <2>3. busy \in BOOLEAN /\ open \in BOOLEAN /\ backupDue \in BOOLEAN /\ saved \in BOOLEAN /\ steady \in BOOLEAN
    BY DEF Init
  <2> QED
    BY <2>1, <2>2, <2>3 DEF TypeOK
<1>2. TypeOK /\ [Next]_vars => TypeOK'
  <2> SUFFICES ASSUME TypeOK, [Next]_vars PROVE TypeOK'
    OBVIOUS
  <2> USE DEF TypeOK
  <2>1. CASE Begin \/ CommitOther \/ WriteFails
    BY <2>1 DEF Begin, CommitOther, WriteFails, Commit, tables, files
  <2>2. ASSUME NEW e \in Event, ConfirmChange(e) PROVE TypeOK'
    <3>1. [id |-> e, age |-> 0] \in Row
      BY CapsAreNaturals DEF Row
    <3>2. \A r \in events : r.id # e
      BY <2>2 DEF ConfirmChange, Ids
    <3>3. \A r, s \in events' : r.id = s.id => r = s
      BY <2>2, <3>2 DEF ConfirmChange
    <3>4. events' \subseteq Row
      BY <2>2, <3>1 DEF ConfirmChange
    <3> QED
      BY <2>2, <3>3, <3>4, Zenon DEF ConfirmChange, Commit, files
  <2>3. ASSUME NEW e \in Event, RecordAlert(e) PROVE TypeOK'
    <3>1. [event |-> e, age |-> 0] \in Alert
      BY CapsAreNaturals DEF Alert
    <3>2. alerts' \subseteq Alert
      BY <2>3, <3>1 DEF RecordAlert
    <3> QED
      BY <2>3, <3>2 DEF RecordAlert, Commit, files
  <2>4. CASE RetentionTick
    <3>1. countdown' \in 0..Period
      BY <2>4, HousekeepingAssumption DEF RetentionTick
    <3>2. events' \subseteq events /\ alerts' \subseteq alerts
      BY <2>4 DEF RetentionTick, Purge, PurgeRefused, tables
    <3>3. busy' \in BOOLEAN /\ open' \in BOOLEAN
      BY <2>4 DEF RetentionTick, Purge, PurgeRefused
    <3> QED
      BY <2>4, <3>1, <3>2, <3>3 DEF RetentionTick, files
  <2>5. CASE BackupSkips \/ BackupRefused
    BY <2>5 DEF BackupSkips, BackupRefused, BackupDone, tables, connection, files
  <2>6. CASE BackupSucceeds \/ BackupBreaks
    <3>1. PICK w \in BOOLEAN : backups' \subseteq backups \cup {[age |-> 0, whole |-> w]}
      BY <2>6 DEF BackupSucceeds, BackupBreaks, Kept
    <3>2. Today = {} /\ saved' \in BOOLEAN /\ steady' \in BOOLEAN
      BY <2>6 DEF BackupSucceeds, BackupBreaks
    <3>3. [age |-> 0, whole |-> w] \in File
      BY CapsAreNaturals DEF File
    <3>4. \A b \in backups : b.age # 0
      BY <3>2 DEF Today
    <3>5. \A b, c \in backups' : b.age = c.age /\ b.age < FileCap => b = c
      <4> TAKE b, c \in backups'
      <4> HAVE b.age = c.age /\ b.age < FileCap
      <4>1. [age |-> 0, whole |-> w].age = 0
        OBVIOUS
      <4> QED
        BY <3>1, <3>4, <4>1
    <3>6. backups' \subseteq File
      BY <3>1, <3>3
    <3> QED
      BY <2>6, <3>2, <3>5, <3>6 DEF BackupSucceeds, BackupBreaks, BackupDone, tables, connection
  <2>7. CASE NextDay
    <3>1. countdown' \in 0..Period /\ backupDue' \in BOOLEAN
      BY <2>7, HousekeepingAssumption DEF NextDay
    <3>2. events' \subseteq Row
      BY <2>7, RowAges DEF NextDay
    <3>3. \A r, s \in events' : r.id = s.id => r = s
      BY <2>7 DEF NextDay, Ageing, Row
    <3>4. alerts' \subseteq Alert
      BY <2>7, AlertAges DEF NextDay
    <3>5. backups' \subseteq File
      BY <2>7, FileAges DEF NextDay
    <3>6. \A b, c \in backups' : b.age = c.age /\ b.age < FileCap => b = c
      <4>1. CASE backups' = Ageing(backups, FileCap)
        <5> TAKE b, c \in backups'
        <5> HAVE b.age = c.age /\ b.age < FileCap
        <5>1. PICK x \in backups : b = [x EXCEPT !.age = IF @ < FileCap THEN @ + 1 ELSE FileCap]
          BY <4>1 DEF Ageing
        <5>2. PICK y \in backups : c = [y EXCEPT !.age = IF @ < FileCap THEN @ + 1 ELSE FileCap]
          BY <4>1 DEF Ageing
        <5>3. x.age \in 0..FileCap /\ y.age \in 0..FileCap
          BY DEF File
        <5>4. b.age = (IF x.age < FileCap THEN x.age + 1 ELSE FileCap)
          BY <5>1 DEF File
        <5>5. c.age = (IF y.age < FileCap THEN y.age + 1 ELSE FileCap)
          BY <5>2 DEF File
        <5>6. x.age \in Nat /\ y.age \in Nat /\ x.age <= FileCap /\ y.age <= FileCap
          BY <5>3, CapsAreNaturals
        <5>7. x.age < FileCap /\ x.age = y.age
          <6> HIDE DEF TypeOK
          <6> DEFINE i == x.age
          <6> DEFINE j == y.age
          <6>1. i \in Nat /\ j \in Nat /\ i <= FileCap /\ j <= FileCap /\ FileCap \in Nat
            BY <5>6, CapsAreNaturals
          <6>2. /\ (IF i < FileCap THEN i + 1 ELSE FileCap) = (IF j < FileCap THEN j + 1 ELSE FileCap)
                /\ (IF i < FileCap THEN i + 1 ELSE FileCap) < FileCap
            BY <5>4, <5>5
          <6> HIDE DEF i, j
          <6>3. i < FileCap /\ i = j
            BY <6>1, <6>2
          <6> QED
            BY <6>3 DEF i, j
        <5>8. x = y
          BY <5>7
        <5> QED
          BY <5>1, <5>2, <5>8
      <4>2. CASE UNCHANGED backups
        BY <4>2
      <4> QED
        BY <2>7, <4>1, <4>2 DEF NextDay
    <3> QED
      BY <2>7, <3>1, <3>2, <3>3, <3>4, <3>5, <3>6 DEF NextDay, connection
  <2>8. CASE Restart
    <3>1. countdown' \in 0..Period
      BY <2>8, HousekeepingAssumption DEF Restart
    <3>2. busy' \in BOOLEAN /\ open' \in BOOLEAN /\ backupDue' \in BOOLEAN /\ steady' \in BOOLEAN
      BY <2>8 DEF Restart
    <3> QED
      BY <2>8, <3>1, <3>2 DEF Restart, tables
  <2>9. CASE UNCHANGED vars
    BY <2>9 DEF vars, tables, connection, files
  <2> QED
    BY <2>1, <2>2, <2>3, <2>4, <2>5, <2>6, <2>7, <2>8, <2>9 DEF Next
<1> QED
  BY <1>1, <1>2, PTL DEF Spec

-----------------------------------------------------------------------------
(* An alert is at most a day younger than its event, until its age is no   *)
(* longer counted.                                                         *)
Linked ==
  \A a \in alerts, r \in events :
     a.event = r.id /\ a.age < AlertCap => r.age <= a.age + 1

(* No row is older than its window and the days since retention last ran.  *)
OnSchedule == steady =>
  /\ EventDays > 0 => \A r \in events : r.age <= EventDays + (Period - countdown)
  /\ AlertDays > 0 => \A a \in alerts : a.age <= AlertDays + (Period - countdown)

(* New alerts refer to fresh events, and the clock moves both alike.       *)
LEMMA LinkedStep ==
  ASSUME TypeOK, TypeOK', Linked, [Next]_vars
  PROVE  Linked'
<1>1. ASSUME NEW e \in Event, ConfirmChange(e) PROVE Linked'
  <2> SUFFICES ASSUME NEW a \in alerts', NEW r \in events', a.event = r.id, a.age < AlertCap'
               PROVE  r.age <= a.age + 1
    BY DEF Linked
  <2>1. alerts' = alerts /\ a.event # e
    BY <1>1 DEF ConfirmChange
  <2>2. r \in events
    BY <1>1, <2>1 DEF ConfirmChange
  <2> QED
    BY <2>1, <2>2 DEF Linked, AlertCap
<1>2. ASSUME NEW e \in Event, RecordAlert(e) PROVE Linked'
  <2> SUFFICES ASSUME NEW a \in alerts', NEW r \in events', a.event = r.id, a.age < AlertCap'
               PROVE  r.age <= a.age + 1
    BY DEF Linked
  <2>1. events' = events
    BY <1>2 DEF RecordAlert
  <2>2. CASE a \in alerts
    BY <2>1, <2>2 DEF Linked, AlertCap
  <2>3. CASE a = [event |-> e, age |-> 0]
    <3>1. PICK q \in events : q.id = e /\ q.age <= 1
      BY <1>2 DEF RecordAlert
    <3>2. q = r
      BY <2>1, <2>3, <3>1 DEF TypeOK
    <3> QED
      BY <2>3, <3>1, <3>2
  <2> QED
    BY <1>2, <2>2, <2>3 DEF RecordAlert
<1>3. CASE RetentionTick
  <2>1. events' \subseteq events /\ alerts' \subseteq alerts
    BY <1>3 DEF RetentionTick, Purge, PurgeRefused, tables
  <2> QED
    BY <2>1 DEF Linked, AlertCap
<1>4. CASE NextDay
  <2> SUFFICES ASSUME NEW a \in alerts', NEW r \in events', a.event = r.id, a.age < AlertCap'
               PROVE  r.age <= a.age + 1
    BY DEF Linked
  <2>1. PICK b \in alerts : a.event = b.event /\ a.age = IF b.age < AlertCap THEN b.age + 1 ELSE AlertCap
    BY <1>4, AlertAges DEF NextDay, TypeOK
  <2>2. PICK q \in events : r.id = q.id /\ r.age = IF q.age < EventCap THEN q.age + 1 ELSE EventCap
    BY <1>4, RowAges DEF NextDay, TypeOK
  <2>3. b.age \in Nat /\ q.age \in Nat /\ q.age <= EventCap
    BY CapsAreNaturals DEF TypeOK, Alert, Row
  <2>4. a.age < AlertCap
    BY DEF AlertCap
  <2>5. b.age < AlertCap /\ a.age = b.age + 1
    BY <2>1, <2>4, CapsAreNaturals
  <2>6. q.age <= b.age + 1
    BY <2>1, <2>2, <2>5 DEF Linked
  <2>7. r.age <= q.age + 1
    BY <2>2, <2>3, CapsAreNaturals
  <2>8. r.age \in Nat
    BY <2>2, <2>3, CapsAreNaturals
  <2> QED
    BY <2>3, <2>5, <2>6, <2>7, <2>8
<1>5. ASSUME UNCHANGED tables PROVE Linked'
  BY <1>5 DEF Linked, tables, AlertCap
<1> QED
  BY <1>1, <1>2, <1>3, <1>4, <1>5
  DEF Next, Begin, CommitOther, WriteFails, BackupSkips, BackupSucceeds, BackupRefused,
      BackupBreaks, Restart, vars

(* With Staggered windows the first DELETE is not refused: what it takes   *)
(* is older than any alert that is left.                                   *)
LEMMA PurgeIsNotRefused ==
  ASSUME TypeOK, Linked, OnSchedule, Staggered, steady, countdown = 0
  PROVE  ~Referenced(OldEvents)
<1> SUFFICES ASSUME NEW r \in OldEvents, NEW a \in alerts, a.event = r.id
             PROVE  FALSE
  BY DEF Referenced
<1>1. r \in events /\ EventDays > 0 /\ r.age > EventDays
  BY DEF OldEvents
<1>2. r.age \in Nat /\ a.age \in Nat
  BY <1>1, CapsAreNaturals DEF TypeOK, Row, Alert
<1>3. a.age <= AlertDays + Period
  BY HousekeepingAssumption DEF OnSchedule, Staggered
<1>4. a.age < AlertCap
  BY <1>2, <1>3, CapsAreNaturals, HousekeepingAssumption
<1>5. r.age <= a.age + 1
  BY <1>1, <1>4 DEF Linked
<1>6. AlertDays + Period < EventDays
  BY <1>1 DEF Staggered
<1> QED
  BY <1>1, <1>2, <1>3, <1>5, <1>6, HousekeepingAssumption

LEMMA OnScheduleStep ==
  ASSUME TypeOK, Linked, OnSchedule, Staggered, [Next]_vars
  PROVE  OnSchedule'
<1>1. CASE RetentionTick
  <2> SUFFICES ASSUME steady' PROVE OnSchedule'
    BY DEF OnSchedule
  <2>1. countdown = 0 /\ countdown' = Period /\ steady
    BY <1>1 DEF RetentionTick, files
  <2>2. Purge
    BY <1>1, <2>1, PurgeIsNotRefused DEF RetentionTick, PurgeRefused
  <2>3. \A r \in events' : EventDays > 0 => r.age <= EventDays
    <3> TAKE r \in events'
    <3> HAVE EventDays > 0
    <3>1. r \in events /\ ~(r.age > EventDays)
      BY <2>2 DEF Purge, OldEvents
    <3>2. r.age \in Nat
      BY <3>1, CapsAreNaturals DEF TypeOK, Row
    <3> QED
      BY <3>1, <3>2, HousekeepingAssumption
  <2>4. \A a \in alerts' : AlertDays > 0 => a.age <= AlertDays
    <3> TAKE a \in alerts'
    <3> HAVE AlertDays > 0
    <3>1. a \in alerts /\ ~(a.age > AlertDays)
      BY <2>2 DEF Purge, OldAlerts
    <3>2. a.age \in Nat
      BY <3>1, CapsAreNaturals DEF TypeOK, Alert
    <3> QED
      BY <3>1, <3>2, HousekeepingAssumption
  <2> QED
    BY <2>1, <2>3, <2>4, HousekeepingAssumption DEF OnSchedule
<1>2. CASE NextDay
  <2> SUFFICES ASSUME steady' PROVE OnSchedule'
    BY DEF OnSchedule
  <2>1. steady /\ countdown' = countdown - 1 /\ countdown \in Nat
    BY <1>2, HousekeepingAssumption DEF NextDay, TypeOK
  <2>2. ASSUME EventDays > 0, NEW r \in events'
        PROVE  r.age <= EventDays + (Period - countdown')
    <3>1. PICK q \in events : r.age = IF q.age < EventCap THEN q.age + 1 ELSE EventCap
      BY <1>2, RowAges DEF NextDay, TypeOK
    <3>2. q.age \in Nat /\ q.age <= EventCap
      BY CapsAreNaturals DEF TypeOK, Row
    <3>3. q.age <= EventDays + (Period - countdown)
      BY <2>1, <2>2 DEF OnSchedule
    <3>4. r.age <= q.age + 1 /\ r.age \in Nat
      BY <3>1, <3>2, CapsAreNaturals
    <3> QED
      BY <2>1, <3>2, <3>3, <3>4, HousekeepingAssumption
  <2>3. ASSUME AlertDays > 0, NEW a \in alerts'
        PROVE  a.age <= AlertDays + (Period - countdown')
    <3>1. PICK b \in alerts : a.age = IF b.age < AlertCap THEN b.age + 1 ELSE AlertCap
      BY <1>2, AlertAges DEF NextDay, TypeOK
    <3>2. b.age \in Nat /\ b.age <= AlertCap
      BY CapsAreNaturals DEF TypeOK, Alert
    <3>3. b.age <= AlertDays + (Period - countdown)
      BY <2>1, <2>3 DEF OnSchedule
    <3>4. a.age <= b.age + 1 /\ a.age \in Nat
      BY <3>1, <3>2, CapsAreNaturals
    <3> QED
      BY <2>1, <3>2, <3>3, <3>4, HousekeepingAssumption
  <2> QED
    BY <2>2, <2>3 DEF OnSchedule
<1>3. ASSUME NEW e \in Event, ConfirmChange(e) PROVE OnSchedule'
  <2>1. events' = events \cup {[id |-> e, age |-> 0]}
        /\ alerts' = alerts /\ countdown' = countdown /\ steady' = steady
    BY <1>3 DEF ConfirmChange, files
  <2>2. 0 <= EventDays + (Period - countdown)
    BY HousekeepingAssumption DEF TypeOK
  <2> QED
    BY <2>1, <2>2 DEF OnSchedule
<1>4. ASSUME NEW e \in Event, RecordAlert(e) PROVE OnSchedule'
  <2>1. alerts' = alerts \cup {[event |-> e, age |-> 0]}
        /\ events' = events /\ countdown' = countdown /\ steady' = steady
    BY <1>4 DEF RecordAlert, files
  <2>2. 0 <= AlertDays + (Period - countdown)
    BY HousekeepingAssumption DEF TypeOK
  <2> QED
    BY <2>1, <2>2 DEF OnSchedule
<1>5. CASE Restart
  BY <1>5 DEF Restart, OnSchedule
<1>6. ASSUME UNCHANGED <<events, alerts, countdown, steady>> PROVE OnSchedule'
  BY <1>6 DEF OnSchedule
<1> QED
  BY <1>1, <1>2, <1>3, <1>4, <1>5, <1>6
  DEF Next, Begin, CommitOther, WriteFails, BackupSkips, BackupSucceeds, BackupRefused,
      BackupBreaks, vars, tables, files

(* Data retention keeps the tables from growing forever whenever the       *)
(* windows are Staggered: in a process that is not restarted no row        *)
(* outlives its window by more than a period, whatever fails in between.   *)
(* (The default windows of config.py are equal, and not Staggered.)        *)
THEOREM RetentionKeepsUp ==
  ASSUME Staggered
  PROVE  Spec => []OldRowsGo
<1> DEFINE Inv == Linked /\ OnSchedule
<1>1. Init => Inv
  BY HousekeepingAssumption DEF Init, Linked, OnSchedule
<1>2. TypeOK /\ TypeOK' /\ Inv /\ [Next]_vars => Inv'
  BY LinkedStep, OnScheduleStep
<1>3. TypeOK /\ Inv => OldRowsGo
  <2> SUFFICES ASSUME TypeOK, OnSchedule, steady PROVE OldRowsGo
    BY DEF OldRowsGo
  <2>1. \A r \in events : r.age \in Nat
    BY CapsAreNaturals DEF TypeOK, Row
  <2>2. \A a \in alerts : a.age \in Nat
    BY CapsAreNaturals DEF TypeOK, Alert
  <2>3. countdown \in Nat
    BY HousekeepingAssumption DEF TypeOK
  <2>4. ASSUME EventDays > 0, NEW r \in events PROVE r.age <= EventDays + Period
    BY <2>1, <2>3, <2>4, HousekeepingAssumption DEF OnSchedule
  <2>5. ASSUME AlertDays > 0, NEW a \in alerts PROVE a.age <= AlertDays + Period
    BY <2>2, <2>3, <2>5, HousekeepingAssumption DEF OnSchedule
  <2> QED
    BY <2>4, <2>5 DEF OldRowsGo
<1> HIDE DEF Inv
<1> QED
  BY TypeCorrect, <1>1, <1>2, <1>3, PTL DEF Spec

-----------------------------------------------------------------------------
(* The files are safe: once a backup has succeeded a complete one exists,  *)
(* because cleanup_old_backups runs after a success only.                  *)
THEOREM BackupsAreKept == Spec => []ABackupRemains
<1>1. Init => ABackupRemains
  BY DEF Init, ABackupRemains
<1>2. TypeOK /\ ABackupRemains /\ [Next]_vars => ABackupRemains'
  <2> SUFFICES ASSUME TypeOK, ABackupRemains, [Next]_vars, saved'
               PROVE  \E b \in backups' : b.whole
    BY DEF ABackupRemains
  <2>1. CASE BackupSucceeds
    <3>1. [age |-> 0, whole |-> TRUE] \in backups'
      BY <2>1 DEF BackupSucceeds
    <3> QED
      BY <3>1
  <2>2. CASE NextDay
    <3>1. PICK b \in backups : b.whole
      BY <2>2 DEF NextDay, ABackupRemains
    <3>2. CASE backups' = Ageing(backups, FileCap)
      <4> DEFINE c == [b EXCEPT !.age = IF @ < FileCap THEN @ + 1 ELSE FileCap]
      <4>1. c \in backups'
        BY <3>2 DEF Ageing
      <4>2. c.whole = b.whole
        BY DEF TypeOK, File
      <4> QED
        BY <3>1, <4>1, <4>2
    <3> QED
      BY <2>2, <3>1, <3>2 DEF NextDay
  <2>3. ASSUME backups \subseteq backups', saved' = saved PROVE \E b \in backups' : b.whole
    BY <2>3 DEF ABackupRemains
  <2> QED
    BY <2>1, <2>2, <2>3
    DEF Next, Begin, CommitOther, WriteFails, ConfirmChange, RecordAlert, RetentionTick,
        BackupSkips, BackupRefused, BackupBreaks, Restart, vars, files
<1> QED
  BY TypeCorrect, <1>1, <1>2, PTL DEF Spec

-----------------------------------------------------------------------------
(* Retention leaves the dedup window alone when alert rows are kept for    *)
(* ever or at least as long as the window.                                 *)
THEOREM DedupOutlivesRetention ==
  ASSUME AlertDays > 0 => DedupDays <= AlertDays
  PROVE  Spec => DedupMemoryKept
<1>1. TypeOK /\ [Next]_vars
        => [RetentionTick => \A a \in alerts : a.age <= DedupDays => a \in alerts']_vars
  <2> SUFFICES ASSUME TypeOK, RetentionTick, NEW a \in alerts, a.age <= DedupDays
               PROVE  a \in alerts'
    OBVIOUS
  <2>1. a.age \in Nat
    BY CapsAreNaturals DEF TypeOK, Alert
  <2>2. a \notin OldAlerts
    BY <2>1, HousekeepingAssumption DEF OldAlerts
  <2> QED
    BY <2>2 DEF RetentionTick, Purge, PurgeRefused, tables
<1> QED
  BY TypeCorrect, <1>1, PTL DEF Spec, DedupMemoryKept
=============================================================================
