---------------------------- MODULE LifecycleProofs ----------------------------
(***************************************************************************)
(* Lifecycle for all scripts, files, services and intervals, with kills    *)
(* between any two statements.                                             *)
(*                                                                         *)
(* Each safety property is carried by one more fact than it says: which    *)
(* statements a start that is still migrating has behind it (Progress),    *)
(* that without a torn script nothing beyond them exists (NothingAhead),   *)
(* and how old a heartbeat may be when the next one is due (BeatOnTime).   *)
(***************************************************************************)
EXTENDS Lifecycle, SequenceTheorems, TLAPS

(* The statements the current start has run are durable.                   *)
Progress == pc = "migrate" => \A i \in 1..done : <<version + 1, i>> \in schema

(* Without a torn script, the schema holds nothing but the stamped scripts *)
(* and the statements of the current start.                                *)
NothingAhead ==
  torn \/ \A x \in schema : x[1] <= version \/ (x[1] = version + 1 /\ x[2] <= done)

(* A heartbeat is as old as its job has been waiting, and new in a start.  *)
BeatOnTime ==
  /\ pc \in {"migrate", "seed", "link"} => age["beat"] = 0
  /\ pc = "up" /\ alive => age["beat"] >= 0 /\ age["beat"] + due["beat"] <= BeatEvery

LEMMA Intervals ==
  /\ BeatEvery \in Nat /\ PollEvery \in Nat /\ RetainEvery \in Nat
  /\ StaleAfter \in Nat /\ BeatEvery < StaleAfter /\ StaleAfter <= UnhealthyAfter
  /\ UnhealthyAfter \in Nat /\ BeatEvery >= 1
  BY LifecycleAssumption

LEMMA EveryIsNat ==
  /\ \A j \in Job : Every[j] \in Nat
  /\ Every["poll"] = PollEvery /\ Every["beat"] = BeatEvery /\ Every["retain"] = RetainEvery
  BY Intervals DEF Job, Every

LEMMA OlderIsAge ==
  ASSUME NEW n \in 0..Long \cup {Never}
  PROVE  Older(n) \in 0..Long \cup {Never} /\ (n # Never => Older(n) \in 0..(n + 1))
  BY Intervals DEF Older, Long, Never

LEMMA ScriptLengths ==
  /\ Len(Scripts) \in Nat
  /\ \A v \in 1..Len(Scripts) : Len(Scripts[v]) \in Nat /\ DOMAIN Scripts[v] = 1..Len(Scripts[v])
<1>1. Len(Scripts) \in Nat
  BY ScriptsAssumption, LenProperties
<1>2. ASSUME NEW v \in 1..Len(Scripts)
      PROVE  Len(Scripts[v]) \in Nat /\ DOMAIN Scripts[v] = 1..Len(Scripts[v])
  <2>1. Scripts[v] \in Seq({"if not exists", "add column"})
    BY ScriptsAssumption, ElementOfSeq
  <2> QED
    BY <2>1, LenProperties
<1> QED
  BY <1>1, <1>2

-----------------------------------------------------------------------------
(* Types: through starts, failures, kills and edits, no timer runs past    *)
(* its interval and no half-run script outlives the start that ran it.     *)
THEOREM TypeCorrect == Spec => []TypeOK
<1>1. Init => TypeOK
  <2> SUFFICES ASSUME Init PROVE TypeOK
    OBVIOUS
  <2>1. version \in 0..Len(Scripts) /\ schema = {} /\ edges = {} /\ files \in Files /\ done = 0 /\ pc = "down"
    BY ScriptLengths DEF Init
  <2>2. rows \in [Service -> Row] /\ loaded \in [Service -> Tier \cup {"none"}]
    BY DEF Init, Row, Unlisted
  <2>3. due \in [Job -> Nat] /\ \A j \in Job : due[j] <= Every[j]
    BY EveryIsNat DEF Init, Clear
  <2>4. age \in [{"poll", "beat"} -> 0..Long \cup {Never}]
    BY Intervals DEF Init, Long, Never
  <2>5. {alive, hung, torn} \subseteq BOOLEAN
    BY DEF Init
  <2> QED
    BY <2>1, <2>2, <2>3, <2>4, <2>5 DEF TypeOK
<1>2. TypeOK /\ [Next]_vars => TypeOK'
  <2> SUFFICES ASSUME TypeOK, [Next]_vars PROVE TypeOK'
    OBVIOUS
  <2> USE DEF TypeOK
  <2>1. CASE Boot \/ UpToDate
    BY <2>1, Intervals DEF Boot, UpToDate, db, timer, Long
  <2>2. CASE RunStatement
    <3>1. version + 1 \in 1..Len(Scripts) /\ done + 1 \in 1..Len(Scripts[version + 1])
      <4>1. version + 1 \in 1..Len(Scripts) /\ done + 1 <= Len(Scripts[version + 1])
        BY <2>2, ScriptLengths DEF RunStatement
      <4> QED
        BY <4>1, ScriptLengths
    <3>2. \A x \in schema' : x \in schema \/ (x[1] = version + 1 /\ x[2] = done + 1)
      <4>1. schema' = schema \/ schema' = schema \cup {Statement}
        BY <2>2 DEF RunStatement
      <4> QED
        BY <4>1 DEF Statement
    <3>3. \A x \in schema' : x[1] \in 1..Len(Scripts) /\ x[2] \in 1..Len(Scripts[x[1]])
      BY <3>1, <3>2
    <3>4. /\ pc' \in {"migrate", "failed"}
          /\ done' \in Nat /\ (done' = 0 \/ (pc' = "migrate" /\ done' = done + 1))
          /\ UNCHANGED <<version, rows, edges, files, loaded, due, age, alive, hung, torn>>
      BY <2>2 DEF RunStatement, Fails, timer
    <3> QED
      BY <3>1, <3>3, <3>4
  <2>3. CASE Stamp
    BY <2>3, ScriptLengths DEF Stamp, timer
  <2>4. CASE SeedServices
    <3>1. files.services \in [Service -> Tier \cup {"none"}]
      BY FilesAssumption DEF Yaml
    <3>2. rows' \in [Service -> Row] /\ loaded' \in [Service -> Tier \cup {"none"}]
      <4>1. ASSUME NEW s \in Service PROVE Upsert(s, files.services[s]) \in Row
        BY <3>1 DEF Upsert, Row, Status, Present, Absent
      <4> QED
        BY <2>4, <3>1, <4>1 DEF SeedServices
    <3>3. pc' \in {"link", "failed"} /\ done' = 0 /\ UNCHANGED <<version, schema, edges, files, timer, torn>>
      BY <2>4 DEF SeedServices, Fails
    <3> QED
      BY <3>2, <3>3 DEF timer
  <2>5. CASE SeedDependencies
    <3>1. edges' \subseteq Service \X Service
      <4>1. files.edges \subseteq Service \X (Service \cup {AllInternal})
        BY FilesAssumption DEF Yaml
      <4> QED
        BY <2>5, <4>1 DEF SeedDependencies, Expand
    <3>2. due' \in [Job -> Nat] /\ \A j \in Job : due'[j] <= Every[j]
      BY <2>5, EveryIsNat, Intervals DEF SeedDependencies, Started, Clear, Job
    <3>3. /\ pc' \in {"up", "failed"} /\ done' = 0 /\ alive' \in BOOLEAN /\ hung' \in BOOLEAN
          /\ UNCHANGED <<version, schema, rows, files, loaded, age, torn>>
      BY <2>5 DEF SeedDependencies, Started, Fails
    <3> QED
      BY <3>1, <3>2, <3>3
  <2>6. CASE Beat \/ Retain
    BY <2>6, EveryIsNat, Intervals DEF Beat, Retain, db, Job, Long
  <2>7. CASE Poll
    <3>1. rows' \in [Service -> Row]
      <4>1. \/ rows' = rows
            \/ \E s \in Service, st \in {"operational", "degraded"} :
                 Present(s) /\ rows' = [rows EXCEPT ![s].status = st]
        BY <2>7 DEF Poll
      <4>2. ASSUME NEW s \in Service, NEW st \in {"operational", "degraded"}, Present(s),
                   rows' = [rows EXCEPT ![s].status = st]
            PROVE  rows' \in [Service -> Row]
        <5>1. rows[s] \in [tier : Tier, status : Status]
          BY <4>2 DEF Present, Row
        <5>2. [rows[s] EXCEPT !.status = st] \in Row
          BY <5>1 DEF Row, Status
        <5> QED
          BY <4>2, <5>2
      <4> QED
        BY <4>1, <4>2
    <3>2. due' \in [Job -> Nat] /\ \A j \in Job : due'[j] <= Every[j]
      BY <2>7, EveryIsNat, Intervals DEF Poll, Job
    <3>3. age' \in [{"poll", "beat"} -> 0..Long \cup {Never}]
      <4>1. age' = age \/ age' = [age EXCEPT !["poll"] = 0]
        BY <2>7 DEF Poll
      <4> QED
        BY <4>1, Intervals DEF Long
    <3>4. hung' \in BOOLEAN
      BY <2>7 DEF Poll
    <3> QED
      BY <2>7, <3>1, <3>2, <3>3, <3>4 DEF Poll
  <2>8. CASE Tick
    <3>1. age' \in [{"poll", "beat"} -> 0..Long \cup {Never}]
      BY <2>8, OlderIsAge DEF Tick
    <3>2. due' \in [Job -> Nat] /\ \A j \in Job : due'[j] <= Every[j]
      BY <2>8, EveryIsNat DEF Tick
    <3> QED
      BY <2>8, <3>1, <3>2 DEF Tick, db
  <2>9. CASE Ended /\ UNCHANGED <<db, files, age>> /\ torn' \in BOOLEAN
    <3>1. due' \in [Job -> Nat] /\ \A j \in Job : due'[j] <= Every[j]
      BY <2>9, EveryIsNat DEF Ended, Clear
    <3>2. /\ pc' = "down" /\ done' = 0 /\ loaded' \in [Service -> Tier \cup {"none"}]
          /\ UNCHANGED <<version, schema, rows, edges, files, age>>
      BY <2>9 DEF Ended, Unlisted, db
    <3>3. alive' \in BOOLEAN /\ hung' \in BOOLEAN /\ torn' \in BOOLEAN
      BY <2>9 DEF Ended
    <3> QED
      BY <3>1, <3>2, <3>3
  <2>10. CASE SchedulerDies \/ Edit
    BY <2>10 DEF SchedulerDies, Edit, db, timer
  <2>11. CASE UNCHANGED vars
    BY <2>11 DEF vars, db, timer
  <2> QED
    BY <2>1, <2>2, <2>3, <2>4, <2>5, <2>6, <2>7, <2>8, <2>9, <2>10, <2>11
    DEF Next, Start, Run, Stop, Exit, Crash, Supervise
<1> QED
  BY <1>1, <1>2, PTL DEF Spec

-----------------------------------------------------------------------------
(* What the steps do to the migrations.                                    *)
LEMMA MigrationStep ==
  ASSUME TypeOK, [Next]_vars
  PROVE  \/ RunStatement \/ Stamp
         \/ UNCHANGED <<version, schema>> /\ done' = done /\ UNCHANGED torn /\ (pc' = "migrate" => pc = "migrate" \/ Boot)
         \/ UNCHANGED <<version, schema>> /\ done' = 0 /\ pc' # "migrate" /\ torn' = (torn \/ done > 0)
  BY DEF Next, Start, Run, vars, db, timer, Boot, UpToDate, SeedServices, SeedDependencies, Fails, Started,
         Ended, Exit, Stop, Crash, Supervise, Beat, Poll, Retain, Tick, SchedulerDies, Edit, TypeOK

(* A version is stamped when the whole script is durable, for any scripts  *)
(* and any number of kills.                                                *)
THEOREM VersionTellsTheTruth == Spec => []VersionIsBacked
<1> DEFINE IInv == VersionIsBacked /\ Progress
<1>1. Init => IInv
  BY DEF Init, VersionIsBacked, Progress
<1>2. TypeOK /\ IInv /\ [Next]_vars => IInv'
  <2> SUFFICES ASSUME TypeOK, IInv, [Next]_vars PROVE IInv'
    OBVIOUS
  <2>1. version \in 0..Len(Scripts) /\ done \in Nat /\ Len(Scripts) \in Nat
    BY ScriptLengths DEF TypeOK
  <2>2. CASE RunStatement
    <3>1. /\ version' = version /\ schema \subseteq schema'
          /\ pc' = "migrate" => done' = done + 1 /\ <<version + 1, done + 1>> \in schema'
      BY <2>2 DEF RunStatement, Fails, Statement
    <3>2. VersionIsBacked'
      BY <3>1 DEF VersionIsBacked
    <3>3. Progress'
      <4> SUFFICES ASSUME pc' = "migrate", NEW i \in 1..done' PROVE <<version' + 1, i>> \in schema'
        BY DEF Progress
      <4>1. i = done + 1 \/ i \in 1..done
        BY <2>1, <3>1
      <4> QED
        BY <2>2, <3>1, <4>1 DEF Progress, RunStatement
    <3> QED
      BY <3>2, <3>3
  <2>3. CASE Stamp
    <3>1. /\ version' = version + 1 /\ done' = 0 /\ schema' = schema
          /\ pc = "migrate" /\ done = Len(Scripts[version + 1]) /\ version + 1 \in 1..Len(Scripts)
      BY <2>1, <2>3 DEF Stamp
    <3>2. \A i \in DOMAIN Scripts[version + 1] : <<version + 1, i>> \in schema
      BY <3>1, ScriptLengths DEF Progress
    <3>3. \A v \in 1..version' : v = version + 1 \/ v \in 1..version
      BY <2>1, <3>1
    <3>4. VersionIsBacked'
      BY <3>1, <3>2, <3>3 DEF VersionIsBacked
    <3> QED
      BY <3>1, <3>4 DEF Progress
  <2>4. CASE UNCHANGED <<version, schema>> /\ (pc' = "migrate" => done' = done /\ (pc = "migrate" \/ Boot))
    <3>1. Boot => done = 0
      BY DEF Boot, TypeOK
    <3> QED
      BY <2>1, <2>4, <3>1 DEF VersionIsBacked, Progress
  <2> QED
    BY <2>2, <2>3, <2>4, MigrationStep
<1> QED
  BY <1>1, <1>2, TypeCorrect, PTL DEF Spec

(* Without a kill inside a script, the database never fails a start: the   *)
(* statement that is run next is one that was not run before.              *)
THEOREM CleanHistoriesMigrate == Spec => CleanHistoryMigrates
<1>1. Init => NothingAhead
  BY DEF Init, NothingAhead
<1>2. TypeOK /\ NothingAhead /\ [Next]_vars => NothingAhead'
  <2> SUFFICES ASSUME TypeOK, NothingAhead, [Next]_vars, ~torn' PROVE NothingAhead'
    BY DEF NothingAhead
  <2>1. version \in Nat /\ done \in Nat /\ torn \in BOOLEAN
    BY ScriptLengths DEF TypeOK
  <2>2. \A x \in schema : x[1] \in Nat /\ x[2] \in Nat /\ x[2] >= 1 /\ x[2] <= Len(Scripts[x[1]])
    BY ScriptLengths DEF TypeOK
  <2>3. CASE RunStatement
    <3>1. ~torn
      BY <2>3 DEF RunStatement
    <3>2. Statement \notin schema
      BY <2>1, <3>1 DEF Statement, NothingAhead
    <3>3. version' = version /\ done' = done + 1 /\ schema' = schema \cup {Statement}
      BY <2>3, <3>2 DEF RunStatement, Refused
    <3>4. \A x \in schema' : x \in schema \/ (x[1] = version + 1 /\ x[2] = done + 1)
      BY <3>3 DEF Statement
    <3>5. \A x \in schema' : x[1] <= version' \/ (x[1] = version' + 1 /\ x[2] <= done')
      BY <2>1, <2>2, <3>1, <3>3, <3>4 DEF NothingAhead
    <3> QED
      BY <3>5 DEF NothingAhead
  <2>4. CASE Stamp
    <3>1. ~torn /\ schema' = schema /\ version' = version + 1
      BY <2>4 DEF Stamp
    <3> QED
      BY <2>1, <2>2, <3>1 DEF NothingAhead
  <2>5. CASE UNCHANGED <<version, schema>> /\ done' = done /\ UNCHANGED torn
    BY <2>5 DEF NothingAhead
  <2>6. CASE UNCHANGED <<version, schema>> /\ done' = 0 /\ torn' = (torn \/ done > 0)
    <3>1. ~torn /\ ~(done > 0)
      BY <2>6, Zenon
    <3>2. done = 0
      BY <2>1, <3>1
    <3> QED
      BY <2>6, <3>1, <3>2 DEF NothingAhead
  <2> QED
    BY <2>3, <2>4, <2>5, <2>6, MigrationStep
<1>3. TypeOK /\ NothingAhead /\ [Next]_vars => (pc = "migrate" /\ pc' = "failed" => torn)
  <2> SUFFICES ASSUME TypeOK, NothingAhead, [Next]_vars, pc = "migrate", pc' = "failed", ~torn PROVE FALSE
    OBVIOUS
  <2>1. RunStatement /\ Refused
    BY DEF Next, Start, Run, vars, Boot, Stamp, UpToDate, SeedServices, SeedDependencies,
           Ended, Exit, Stop, Crash, Supervise, Beat, Poll, Retain, Tick, SchedulerDies, Edit, RunStatement
  <2>2. version \in Nat /\ done \in Nat
    BY ScriptLengths DEF TypeOK
  <2>3. \A x \in schema : x[1] <= version \/ (x[1] = version + 1 /\ x[2] <= done)
    BY DEF NothingAhead
  <2>4. Statement \in schema
    BY <2>1 DEF Refused
  <2> QED
    BY <2>2, <2>3, <2>4 DEF Statement
<1> QED
  BY <1>1, <1>2, <1>3, TypeCorrect, PTL DEF Spec, CleanHistoryMigrates

-----------------------------------------------------------------------------
(* While the process runs, every edge joins services this start has read:  *)
(* whatever the files say and the table keeps, for any services.           *)
THEOREM GraphIsListed == Spec => []EdgesAreListed
<1>1. Init => EdgesAreListed
  BY DEF Init, EdgesAreListed
<1>2. EdgesAreListed /\ [Next]_vars => EdgesAreListed'
  <2> SUFFICES ASSUME EdgesAreListed, [Next]_vars, pc' = "up" PROVE EdgesAreListed'
    BY DEF EdgesAreListed
  <2>1. CASE SeedDependencies
    <3>1. edges' = Expand(files) /\ KnownEdges(files) /\ loaded' = loaded
      BY <2>1 DEF SeedDependencies, Fails
    <3> QED
      BY <3>1 DEF Expand, KnownEdges, EdgesAreListed
  <2>2. CASE pc = "up" /\ UNCHANGED <<edges, loaded>>
    BY <2>2 DEF EdgesAreListed
  <2> QED
    BY <2>1, <2>2
    DEF Next, Start, Run, vars, db, timer, Boot, UpToDate, SeedServices, RunStatement, Stamp, Fails,
        Ended, Exit, Stop, Crash, Supervise, Beat, Poll, Retain, Tick, SchedulerDies, Edit
<1> QED
  BY <1>1, <1>2, PTL DEF Spec

(* A scheduler that beats is never taken for dead, for any heartbeat that  *)
(* is faster than the staleness limit.                                     *)
THEOREM AliveIsLeftAlone == Spec => []AliveIsNotKilled
<1>1. Init => BeatOnTime
  BY DEF Init, BeatOnTime
<1>2. TypeOK /\ TypeOK' /\ BeatOnTime /\ [Next]_vars => BeatOnTime'
  <2> SUFFICES ASSUME TypeOK, TypeOK', BeatOnTime, [Next]_vars PROVE BeatOnTime'
    OBVIOUS
  <2>1. /\ age["beat"] \in 0..Long \cup {Never} /\ due["beat"] \in Nat /\ due'["beat"] \in Nat
        /\ age \in [{"poll", "beat"} -> 0..Long \cup {Never}] /\ due \in [Job -> Nat]
    BY DEF TypeOK, Job
  <2>2. CASE Boot
    BY <2>1, <2>2 DEF Boot, BeatOnTime
  <2>3. CASE SeedDependencies
    <3>1. pc = "link" /\ age' = age /\ (pc' = "up" \/ pc' = "failed")
      BY <2>3 DEF SeedDependencies, Started, Fails
    <3>2. pc' = "up" => due'["beat"] = 0
      BY <2>3 DEF SeedDependencies, Started, Fails, Clear, Job
    <3> QED
      BY <3>1, <3>2, Intervals DEF BeatOnTime
  <2>4. CASE Beat
    <3>1. age'["beat"] = 0 /\ due'["beat"] = BeatEvery /\ pc' = "up"
      BY <2>1, <2>4 DEF Beat, Job
    <3> QED
      BY <3>1, Intervals DEF BeatOnTime
  <2>5. CASE Poll \/ Retain
    <3>1. /\ age'["beat"] = age["beat"] /\ due'["beat"] = due["beat"] /\ pc' = "up" /\ pc = "up" /\ alive
          /\ alive' = alive
      BY <2>1, <2>5 DEF Poll, Retain, Job
    <3> QED
      BY <3>1 DEF BeatOnTime
  <2>6. CASE Tick
    <3>1. pc = "up" /\ pc' = "up" /\ age'["beat"] = Older(age["beat"]) /\ alive' = alive
      BY <2>6 DEF Tick
    <3>2. alive => due["beat"] > 0 /\ due'["beat"] = due["beat"] - 1
      BY <2>6 DEF Tick, Job
    <3>3. alive => Older(age["beat"]) \in 0..(age["beat"] + 1)
      BY <2>1, <3>1, OlderIsAge DEF BeatOnTime, Never
    <3> QED
      BY <2>1, <3>1, <3>2, <3>3, Intervals DEF BeatOnTime, Never, Long
  <2>7. CASE UpToDate \/ SeedServices \/ RunStatement \/ Stamp \/ Edit \/ UNCHANGED vars
    <3>1. due' = due /\ age' = age /\ (alive' <=> alive)
      BY <2>7 DEF UpToDate, SeedServices, RunStatement, Stamp, Edit, vars, timer
    <3>2. pc' = pc \/ pc' = "failed" \/ (pc' \in {"seed", "link"} /\ pc \in {"migrate", "seed", "link"})
      BY <2>7 DEF UpToDate, SeedServices, RunStatement, Stamp, Edit, Fails, vars
    <3> QED
      BY <3>1, <3>2 DEF BeatOnTime
  <2>8. CASE pc' = "down" \/ (pc' = "up" /\ ~alive')
    BY <2>8 DEF BeatOnTime
  <2>9. CASE Exit \/ Stop \/ Crash \/ Supervise \/ SchedulerDies
    BY <2>8, <2>9 DEF Ended, Exit, Stop, Crash, Supervise, SchedulerDies
  <2> QED
    BY <2>2, <2>3, <2>4, <2>5, <2>6, <2>7, <2>9 DEF Next, Start, Run
<1>3. TypeOK /\ BeatOnTime => AliveIsNotKilled
  <2> SUFFICES ASSUME TypeOK, BeatOnTime, pc = "up", alive PROVE Healthz = 200
    BY DEF AliveIsNotKilled
  <2>1. due["beat"] \in Nat /\ age["beat"] \in 0..Long \cup {Never}
    BY DEF TypeOK, Job
  <2>2. age["beat"] < StaleAfter
    BY <2>1, Intervals DEF BeatOnTime, Long, Never
  <2> QED
    BY <2>2 DEF Healthz
<1> QED
  BY <1>1, <1>2, <1>3, TypeCorrect, PTL DEF Spec

(* Starting, stopping, failing and being killed cost no service its row or *)
(* its status, for any services and any files.                             *)
THEOREM RestartsKeepStatuses == Spec => RestartKeepsStatus
<1>1. TypeOK /\ [Next]_vars =>
        \A s \in Service : Present(s) /\ ~Poll => rows'[s].status = rows[s].status /\ rows'[s] # Absent
  <2> SUFFICES ASSUME TypeOK, [Next]_vars, NEW s \in Service, Present(s), ~Poll
               PROVE  rows'[s].status = rows[s].status /\ rows'[s] # Absent
    OBVIOUS
  <2>1. CASE SeedServices
    <3>1. rows'[s] = rows[s] \/ rows'[s] = Upsert(s, files.services[s])
      BY <2>1 DEF SeedServices
    <3>2. files.services[s] \in Tier \cup {"none"}
      BY FilesAssumption DEF TypeOK, Yaml
    <3>3. Upsert(s, files.services[s]).status = rows[s].status
      BY DEF Upsert
    <3>4. Upsert(s, files.services[s]) # Absent
      BY <3>2 DEF Upsert, Present, Absent
    <3> QED
      BY <3>1, <3>3, <3>4 DEF Present
  <2>2. CASE rows' = rows
    BY <2>2 DEF Present
  <2> QED
    BY <2>1, <2>2
    DEF Next, Start, Run, vars, db, timer, Boot, UpToDate, SeedDependencies, RunStatement, Stamp,
        Exit, Stop, Crash, Supervise, Beat, Retain, Tick, SchedulerDies, Edit
<1> QED
  BY <1>1, TypeCorrect, PTL DEF Spec, RestartKeepsStatus
=============================================================================
