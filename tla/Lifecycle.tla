------------------------------ MODULE Lifecycle ------------------------------
(***************************************************************************)
(* The process from start to stop: lifespan of app/main.py with the        *)
(* migrations of app/database.py, the seeder of app/seed.py, the scheduler *)
(* of app/poller/scheduler.py, the heartbeat, and what the two health      *)
(* endpoints make of it.                                                   *)
(*                                                                         *)
(* A script of migrations runs statement by statement, each durable at     *)
(* once; the seeder's two transactions are one step each.  The process may *)
(* be killed between any two steps, and a supervisor starts it again.      *)
(* Time passes in ticks while the process is up: a start takes less than   *)
(* one.  Of the jobs, a poll cycle and a heartbeat are due at once, and    *)
(* "retain" (retention, and the checkpoint alike) an interval later.       *)
(***************************************************************************)
EXTENDS Integers, FiniteSets, Sequences

CONSTANTS
  Service, Tier,
  Scripts,        \* backend/migrations: for each version its statements
  Files,          \* what services.yaml and dependencies.yaml may say
  PollEvery,      \* settings.poll_interval_seconds, in ticks
  BeatEvery,      \* settings.heartbeat_interval_seconds, in ticks
  RetainEvery,    \* settings.retention_interval_hours, in ticks
  StaleAfter,     \* settings.heartbeat_stale_after_seconds, in ticks
  DegradedAfter, UnhealthyAfter,   \* the 120 and 300 seconds of /api/health
  MayCrash

(* No setting is checked against another one: that the heartbeat is        *)
(* faster than its staleness limit, and that one shorter than the five     *)
(* minutes, holds for the defaults.                                        *)
ASSUME LifecycleAssumption ==
  /\ {PollEvery, BeatEvery, RetainEvery} \subseteq Nat \ {0}
  /\ StaleAfter \in Nat /\ BeatEvery < StaleAfter
  /\ {DegradedAfter, UnhealthyAfter} \subseteq Nat /\ DegradedAfter <= UnhealthyAfter /\ StaleAfter <= UnhealthyAfter
  /\ MayCrash \in BOOLEAN

ASSUME ScriptsAssumption == Scripts \in Seq(Seq({"if not exists", "add column"}))

VARIABLES
  version,   \* PRAGMA user_version
  schema,    \* the statements whose table, index or column exists
  rows,      \* services: configuration and runtime state
  edges,     \* service_dependencies
  files,     \* the YAML files
  loaded,    \* the services of this start, as they were read
  pc, done,  \* where the start stands; statements of the current script done
  due,       \* ticks until the next run of a job
  age,       \* ticks since the last heartbeat and since the last poll, if any
  alive,     \* the scheduler fires its jobs
  hung,      \* a poll cycle does not return
  torn       \* history: a kill fell between the statements of a script and its stamp

db    == <<version, schema, rows, edges>>
timer == <<due, age, alive, hung>>
vars  == <<db, files, loaded, pc, done, timer, torn>>

Status    == {"unknown", "operational", "degraded"}
Absent    == [tier |-> "none", status |-> "unknown"]
Row       == [tier : Tier, status : Status] \cup {Absent}
Present(s) == rows[s] # Absent

(* A dependency names a service or every other one.                        *)
AllInternal == "all_internal"
Yaml == [services : [Service -> Tier \cup {"none"}], edges : SUBSET (Service \X (Service \cup {AllInternal}))]
ASSUME FilesAssumption == Files \subseteq Yaml
Listed(f) == {s \in Service : f.services[s] # "none"}

Job   == {"poll", "beat", "retain"}
Every == [j \in Job |-> CASE j = "poll" -> PollEvery [] j = "beat" -> BeatEvery [] j = "retain" -> RetainEvery]
Clear == [j \in Job |-> 0]

Never == -1                                  \* MAX(last_polled_at) is NULL
Long  == 1 + UnhealthyAfter                  \* ages stop counting here
Older(n) == IF n \in {Never, Long} THEN n ELSE n + 1

TypeOK ==
  /\ version \in 0..Len(Scripts)
  /\ \A x \in schema : x[1] \in 1..Len(Scripts) /\ x[2] \in 1..Len(Scripts[x[1]])
  /\ rows \in [Service -> Row] /\ edges \subseteq (Service \X Service)
  /\ files \in Files
  /\ loaded \in [Service -> Tier \cup {"none"}]
  /\ pc \in {"down", "migrate", "seed", "link", "up", "failed"}
  /\ done \in Nat /\ (done = 0 \/ (pc = "migrate" /\ version < Len(Scripts) /\ done <= Len(Scripts[version + 1])))
  /\ due \in [Job -> Nat] /\ \A j \in Job : due[j] <= Every[j]
  /\ age \in [{"poll", "beat"} -> 0..Long \cup {Never}]
  /\ {alive, hung, torn} \subseteq BOOLEAN

Unlisted == [s \in Service |-> "none"]

Init ==
  /\ version = 0 /\ schema = {}
  /\ rows = [s \in Service |-> Absent] /\ edges = {}
  /\ files \in Files /\ loaded = Unlisted
  /\ pc = "down" /\ done = 0
  /\ due = Clear /\ age = [c \in {"poll", "beat"} |-> IF c = "poll" THEN Never ELSE 0]
  /\ alive = FALSE /\ hung = FALSE
  /\ torn = FALSE

-----------------------------------------------------------------------------
(* Starting: run_migrations.                                               *)

(* Mutation of Boot: the script of the version that is stamped is pending. *)
BootInclusive ==
  /\ pc = "down"
  /\ pc' = "migrate" /\ version' = IF version > 0 THEN version - 1 ELSE 0
  /\ age' = [age EXCEPT !["beat"] = 0]
  /\ UNCHANGED <<schema, rows, edges, files, loaded, done, due, alive, hung, torn>>

(* The heartbeat is seeded when the module is imported.                    *)
Boot ==
  /\ pc = "down"
  /\ pc' = "migrate"
  /\ age' = [age EXCEPT !["beat"] = 0]
  /\ UNCHANGED <<db, files, loaded, done, due, alive, hung, torn>>

Fails == pc' = "failed" /\ done' = 0

(* Only CREATE ... IF NOT EXISTS may find its work done: adding a column   *)
(* that exists raises, and the start with it.                              *)
Statement == <<version + 1, done + 1>>
Refused   == Scripts[version + 1][done + 1] = "add column" /\ Statement \in schema

RunStatement ==
  /\ pc = "migrate" /\ version < Len(Scripts) /\ done < Len(Scripts[version + 1])
  /\ IF Refused
     THEN Fails /\ UNCHANGED schema
     ELSE done' = done + 1 /\ schema' = schema \cup {Statement} /\ UNCHANGED pc
  /\ UNCHANGED <<version, rows, edges, files, loaded, timer, torn>>

(* Mutation of Stamp: the version is stamped before the script is run.     *)
StampFirst ==
  /\ pc = "migrate" /\ version < Len(Scripts)
  /\ version' = version + 1 /\ done' = 0
  /\ UNCHANGED <<schema, rows, edges, files, loaded, pc, timer, torn>>

Stamp ==
  /\ pc = "migrate" /\ version < Len(Scripts) /\ done = Len(Scripts[version + 1])
  /\ version' = version + 1 /\ done' = 0
  /\ UNCHANGED <<schema, rows, edges, files, loaded, pc, timer, torn>>

UpToDate ==
  /\ pc = "migrate" /\ version = Len(Scripts)
  /\ pc' = "seed"
  /\ UNCHANGED <<db, files, loaded, done, timer, torn>>

-----------------------------------------------------------------------------
(* Starting: load_services, seed_services, load_dependencies and           *)
(* seed_dependencies.                                                      *)

(* Mutation of Upsert: INSERT OR REPLACE. *)
UpsertReplaces(s, tier) == IF tier = "none" THEN rows[s] ELSE [tier |-> tier, status |-> "unknown"]

(* Configuration columns only; a service that is no longer listed stays.   *)
Upsert(s, tier) ==
  IF tier = "none" THEN rows[s]
  ELSE [tier |-> tier, status |-> IF Present(s) THEN rows[s].status ELSE "unknown"]

SeedServices ==
  /\ pc = "seed"
  /\ IF Listed(files) = {}
     THEN Fails /\ UNCHANGED <<rows, loaded>>   \* "No services found"
     ELSE /\ loaded' = files.services
          /\ rows' = [s \in Service |-> Upsert(s, files.services[s])]
          /\ pc' = "link" /\ UNCHANGED done
  /\ UNCHANGED <<version, schema, edges, files, timer, torn>>

(* Mutation of KnownEdges: nothing is exempt. *)
KnownEdgesAll(f) ==
  \A e \in f.edges : e[2] \in Service /\ loaded[e[1]] # "none" /\ loaded[e[2]] # "none"

(* Every edge must name services that this start has read.                 *)
KnownEdges(f) ==
  \A e \in f.edges : loaded[e[1]] # "none" /\ (e[2] = AllInternal \/ loaded[e[2]] # "none")

Expand(f) ==
  UNION {IF e[2] = AllInternal
         THEN {<<e[1], d>> : d \in {s \in Service : loaded[s] # "none" /\ s # e[1]}}
         ELSE {e} : e \in f.edges}

(* The scheduler starts with a poll and a heartbeat due at once; the other *)
(* jobs count from here, whenever they ran last.                           *)
Started ==
  /\ pc' = "up"
  /\ due' = [Clear EXCEPT !["retain"] = RetainEvery]
  /\ alive' = TRUE /\ hung' = FALSE
  /\ UNCHANGED done

SeedDependencies ==
  /\ pc = "link"
  /\ IF KnownEdges(files)
     THEN edges' = Expand(files) /\ Started
     ELSE Fails /\ UNCHANGED <<edges, due, alive, hung>>
  /\ UNCHANGED <<version, schema, rows, files, loaded, age, torn>>

-----------------------------------------------------------------------------
(* Running. *)

(* Mutation of Beat: the ping decides whether the heartbeat counts. *)
BeatWithPing ==
  /\ pc = "up" /\ alive /\ due["beat"] = 0
  /\ due' = [due EXCEPT !["beat"] = BeatEvery]
  /\ age' = [age EXCEPT !["beat"] = 0] \/ UNCHANGED age
  /\ UNCHANGED <<db, files, loaded, pc, done, alive, hung, torn>>

(* heartbeat_tick: whatever becomes of the external ping.                  *)
Beat ==
  /\ pc = "up" /\ alive /\ due["beat"] = 0
  /\ due' = [due EXCEPT !["beat"] = BeatEvery]
  /\ age' = [age EXCEPT !["beat"] = 0]
  /\ UNCHANGED <<db, files, loaded, pc, done, alive, hung, torn>>

(* Mutation of Poll: a cycle registers the jobs again. *)
PollRegisters ==
  /\ pc = "up" /\ alive /\ due["poll"] = 0
  /\ due' = [Every EXCEPT !["beat"] = due["beat"]]
  /\ UNCHANGED <<db, files, loaded, pc, done, age, alive, hung, torn>>

(* A poll cycle stamps last_polled_at and may change a status.  While one  *)
(* hangs, the runs that fall due are skipped (max_instances=1).            *)
Poll ==
  /\ pc = "up" /\ alive /\ due["poll"] = 0
  /\ due' = [due EXCEPT !["poll"] = PollEvery]
  /\ IF hung THEN UNCHANGED <<rows, age, hung>>
     ELSE \/ hung' = TRUE /\ UNCHANGED <<rows, age>>
          \/ /\ age' = [age EXCEPT !["poll"] = 0]
             /\ \E s \in Service, st \in {"operational", "degraded"} :
                  Present(s) /\ rows' = [rows EXCEPT ![s].status = st]
             /\ UNCHANGED hung
  /\ UNCHANGED <<version, schema, edges, files, loaded, pc, done, alive, torn>>

(* scheduled_retention_tick, and scheduled_wal_checkpoint_tick alike.      *)
Retain ==
  /\ pc = "up" /\ alive /\ due["retain"] = 0
  /\ due' = [due EXCEPT !["retain"] = RetainEvery]
  /\ UNCHANGED <<db, files, loaded, pc, done, age, alive, hung, torn>>

SchedulerDies ==
  /\ pc = "up" /\ alive
  /\ alive' = FALSE
  /\ UNCHANGED <<db, files, loaded, pc, done, due, age, hung, torn>>

Tick ==
  /\ pc = "up"
  /\ alive => \A j \in Job : due[j] > 0
  /\ age' = [j \in {"poll", "beat"} |-> Older(age[j])]
  /\ due' = IF alive THEN [j \in Job |-> due[j] - 1] ELSE due
  /\ UNCHANGED <<db, files, loaded, pc, done, alive, hung, torn>>

(* GET /healthz and GET /api/health.                                       *)
Healthz == IF age["beat"] < StaleAfter THEN 200 ELSE 503

(* Mutation of ApiHealth: the freshness is the heartbeat's. *)
ApiHealthOfBeat == IF age["beat"] > UnhealthyAfter THEN "unhealthy" ELSE "healthy"

(* A table in which no service was ever polled is healthy. *)
ApiHealth ==
  IF age["poll"] > UnhealthyAfter THEN "unhealthy"
  ELSE IF age["poll"] > DegradedAfter THEN "degraded" ELSE "healthy"

-----------------------------------------------------------------------------
(* Ending. *)

Ended ==
  /\ pc' = "down" /\ done' = 0 /\ loaded' = Unlisted
  /\ due' = Clear /\ alive' = FALSE /\ hung' = FALSE

(* Shutdown: scheduler, client and database are closed in this order.      *)
Stop ==
  /\ pc = "up" /\ Ended
  /\ UNCHANGED <<db, files, age, torn>>

(* A start that raised ends the process, and it is started again.          *)
Exit ==
  /\ pc = "failed" /\ Ended
  /\ UNCHANGED <<db, files, age, torn>>

Crash ==
  /\ MayCrash /\ pc \notin {"down", "failed"} /\ Ended
  /\ torn' = (torn \/ done > 0)
  /\ UNCHANGED <<db, files, age>>

(* The supervisor asks /healthz.                                           *)
Supervise ==
  /\ pc = "up" /\ Healthz = 503 /\ Ended
  /\ UNCHANGED <<db, files, age, torn>>

(* The operator edits the configuration, whenever.                         *)
Edit ==
  /\ files' \in Files \ {files}
  /\ UNCHANGED <<db, loaded, pc, done, timer, torn>>

Start == Boot \/ RunStatement \/ Stamp \/ UpToDate \/ SeedServices \/ SeedDependencies \/ Exit
Run   == Beat \/ Poll \/ Retain \/ Tick

Next == Start \/ Run \/ Supervise \/ SchedulerDies \/ Stop \/ Crash \/ Edit

(* The process runs on while it is up, and a supervisor restarts it.       *)
Spec     == Init /\ [][Next]_vars
FairSpec == Spec /\ WF_vars(Start) /\ WF_vars(Run) /\ SF_vars(Supervise)

-----------------------------------------------------------------------------
(* Properties.                                                             *)

(* The version never claims a schema that is not there, whenever the       *)
(* process was killed.                                                     *)
VersionIsBacked ==
  \A v \in 1..version : \A i \in DOMAIN Scripts[v] : <<v, i>> \in schema

(* A restart costs no runtime state: while the process starts or stops, no *)
(* service loses its row or its status ("would ... cause a spurious        *)
(* unknown -> operational event on every restart").                        *)
RestartKeepsStatus ==
  [][\A s \in Service : Present(s) /\ ~Poll => rows'[s].status = rows[s].status /\ rows'[s] # Absent]_vars

(* "Fail loud rather than silently seeding orphaned edges": while it runs, *)
(* the graph joins services of the list this start has read, although the  *)
(* table keeps the ones that left it and the files may change in between.  *)
EdgesAreListed ==
  pc = "up" => \A e \in edges : loaded[e[1]] # "none" /\ loaded[e[2]] # "none"

(* A start only fails over the database when a kill tore a script that     *)
(* adds columns: a clean history always migrates.                          *)
CleanHistoryMigrates ==
  [][pc = "migrate" /\ pc' = "failed" => torn]_vars

(* Once nobody stops, kills or edits any more, and the files are valid,    *)
(* the process comes up and stays up, unless a script was torn before:     *)
(* Exit and Supervise bring it there from a start that failed and from a   *)
(* scheduler that died.                                                    *)
Valid(f) == Listed(f) # {} /\ \A e \in f.edges : e[1] \in Listed(f) /\ (e[2] \in Listed(f) \cup {AllInternal})
Interrupted == ((Stop \/ Crash) /\ Healthz = 200) \/ SchedulerDies \/ Edit
ComesUp == <>[][~Interrupted]_vars /\ <>[]Valid(files) => <>[](pc = "up" \/ torn)

(* /healthz is the dead-man's switch: it does not fire while the scheduler *)
(* beats, and it does once the scheduler has been dead for the stale time. *)
AliveIsNotKilled == pc = "up" /\ alive => Healthz = 200
DeadIsRestarted  == (pc = "up" /\ ~alive) ~> (pc # "up")

(* Polling never stops unseen: with the scheduler dead or a cycle that     *)
(* hangs, one of the two endpoints says so, if there ever was a poll.      *)
StoppedPollingIsSeen ==
  (pc = "up" /\ (hung \/ ~alive) /\ age["poll"] # Never)
    ~> (pc # "up" \/ ApiHealth = "unhealthy" \/ Healthz = 503)
StandstillIsSeen == DeadIsRestarted /\ StoppedPollingIsSeen

(* A process that stays up does its housekeeping again and again.          *)
RetentionRuns == <>[](pc = "up" /\ alive) => []<><<Retain>>_vars
=============================================================================
