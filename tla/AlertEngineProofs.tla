--------------------------- MODULE AlertEngineProofs ---------------------------
(***************************************************************************)
(* AlertEngine for any services, dependencies, tiers and thresholds, any   *)
(* number of concurrent requests, failing posts and statements, crashes    *)
(* and the passing of time.                                                *)
(***************************************************************************)
EXTENDS AlertEngine, SequenceTheorems, FiniteSetTheorems, WellFoundedInduction, TLAPS

Verdict == [event : 0..MaxEvents, by : Reason \cup {Fired}, day : 0..MaxClock]

(* The locals are functions on the tasks, and a decision is about a change *)
(* that its task still has to do.                                          *)
Locals ==
  /\ pc \in [Task -> Locations]
  /\ batch \in [Task -> SUBSET Nat] /\ todo \in [Task -> SUBSET Nat] /\ groups \in [Task -> SUBSET Nat]
  /\ sends \in [Task -> SUBSET Nat] /\ heads \in [Task -> SUBSET Nat]
  /\ verdict \in [Task -> Verdict] /\ named \in [Task -> SUBSET (Nat \X Service)]
  /\ \A t \in Task :
       /\ pc[t] = "record" => verdict[t].event \in todo[t]
       /\ pc[t] = "grouprecord" => verdict[t].event \in groups[t]
       /\ pc[t] \in {"correlate", "impact", "record"} => todo[t] # {}
       /\ pc[t] = "idle" => todo[t] = {} /\ groups[t] = {} /\ sends[t] = {} /\ heads[t] = {}

RowsAreOfEvents == \A i \in DOMAIN log : log[i].event \in DOMAIN events

IInv == TypeOK /\ Locals /\ RowsAreOfEvents

LEMMA Constants ==
  /\ MaxEvents \in Nat /\ MaxClock \in Nat /\ BatchThreshold \in Nat
  /\ Poller \in Task /\ "operational" \in ServiceStatus
  /\ Cardinality(Service) \in Nat
  BY EngineAssumption, FS_CardinalityType DEF Task, ServiceStatus

-----------------------------------------------------------------------------
(* Sequences of events and rows.                                           *)

LEMMA EventFacts ==
  ASSUME TypeOK
  PROVE  /\ Len(events) \in Nat /\ DOMAIN events = 1..Len(events)
         /\ DOMAIN events \subseteq 1..MaxEvents
         /\ \A e \in DOMAIN events : events[e] \in Event
  BY LenProperties, Constants DEF TypeOK

LEMMA LogFacts ==
  ASSUME TypeOK
  PROVE  /\ Len(log) \in Nat /\ DOMAIN log = 1..Len(log)
         /\ \A i \in DOMAIN log : log[i] \in Row
  BY LenProperties DEF TypeOK

(* What a task appends to the log is a row of its verdict.                 *)
VerdictRow(t, k) == [event |-> verdict[t].event, day |-> verdict[t].day,
                     by |-> verdict[t].by, kind |-> k]

LEMMA VerdictRowFields ==
  ASSUME NEW t, NEW k
  PROVE  /\ VerdictRow(t, k).event = verdict[t].event /\ VerdictRow(t, k).kind = k
         /\ VerdictRow(t, k).by = verdict[t].by /\ VerdictRow(t, k).day = verdict[t].day
BY DEF VerdictRow

LEMMA InsertIsRow ==
  ASSUME IInv, NEW t \in Task, NEW k \in {"status_change", "aggregated_upstream"},
         pc[t] \in {"record", "grouprecord"}, InsertRow(t, k)
  PROVE  /\ log' \in Seq(Row) /\ Len(log') = Len(log) + 1
         /\ \A i \in DOMAIN log : log'[i] = log[i]
         /\ log'[Len(log) + 1] = VerdictRow(t, k)
         /\ VerdictRow(t, k) \in Row
         /\ verdict[t].event \in DOMAIN events
         /\ DOMAIN log' = 1..(Len(log) + 1) /\ DOMAIN log' = (DOMAIN log) \cup {Len(log) + 1}
         /\ Len(log) + 1 \notin DOMAIN log
<1>1. verdict[t].event \in DOMAIN events
  BY DEF IInv, TypeOK, Locals
<1>2. VerdictRow(t, k) \in Row
  <2>1. verdict[t].event \in 1..MaxEvents
    BY <1>1, EventFacts DEF IInv
  <2>2. verdict[t] \in Verdict
    BY DEF IInv, Locals
  <2> QED
    BY <2>1, <2>2 DEF VerdictRow, Row, Verdict
<1>3. log \in Seq(Row)
  BY DEF IInv, TypeOK
<1>4. log' = Append(log, VerdictRow(t, k))
  BY DEF InsertRow, VerdictRow
<1>5. log' \in Seq(Row) /\ Len(log') = Len(log) + 1
      /\ log'[Len(log) + 1] = VerdictRow(t, k) /\ \A i \in 1..Len(log) : log'[i] = log[i]
  BY <1>2, <1>3, <1>4, LenProperties
<1>6. DOMAIN log' = 1..(Len(log) + 1)
  BY <1>5, LenProperties
<1>7. Len(log) \in Nat /\ DOMAIN log = 1..Len(log)
  BY LogFacts DEF IInv
<1>8. 1..(Len(log) + 1) = (1..Len(log)) \cup {Len(log) + 1}
  BY <1>7
<1> QED
  BY <1>1, <1>2, <1>5, <1>6, <1>7, <1>8

-----------------------------------------------------------------------------
(* Type correctness.                                                       *)

Globals == <<tables, clock, messages, finished>>

GlobalsOK ==
  /\ status \in [Service -> ServiceStatus]
  /\ events \in Seq(Event) /\ Len(events) <= MaxEvents
  /\ impact \subseteq DOMAIN events
  /\ reports \subseteq ((DOMAIN events) \X (DOMAIN events))
  /\ log \in Seq(Row) /\ expired \in 0..Len(log) /\ day \in 0..MaxClock
  /\ maintenance \subseteq Maintained
  /\ messages \subseteq Message
  /\ finished \subseteq DOMAIN events

TaskOK(t) ==
  /\ pc[t] \in Locations /\ batch[t] \subseteq DOMAIN events
  /\ (todo[t] \cup groups[t] \cup sends[t] \cup heads[t]) \subseteq batch[t]
  /\ named[t] \subseteq batch[t] \X Service /\ verdict[t].event \in batch[t] \cup {0}
  /\ pc[t] = "idle" => batch[t] = {}

TaskMore(t) ==
  /\ pc[t] = "record" => verdict[t].event \in todo[t]
  /\ pc[t] = "grouprecord" => verdict[t].event \in groups[t]
  /\ pc[t] \in {"correlate", "impact", "record"} => todo[t] # {}
  /\ pc[t] = "idle" => todo[t] = {} /\ groups[t] = {} /\ sends[t] = {} /\ heads[t] = {}

Functions ==
  /\ pc \in [Task -> Locations]
  /\ batch \in [Task -> SUBSET Nat] /\ todo \in [Task -> SUBSET Nat] /\ groups \in [Task -> SUBSET Nat]
  /\ sends \in [Task -> SUBSET Nat] /\ heads \in [Task -> SUBSET Nat]
  /\ verdict \in [Task -> Verdict] /\ named \in [Task -> SUBSET (Nat \X Service)]

LEMMA Parts ==
  IInv <=> GlobalsOK /\ Functions /\ RowsAreOfEvents /\ \A t \in Task : TaskOK(t) /\ TaskMore(t)
BY DEF IInv, TypeOK, Locals, GlobalsOK, Functions, TaskOK, TaskMore

(* A step of t on its own locals: the other tasks keep theirs.             *)
LEMMA OwnLocals ==
  ASSUME IInv, NEW t \in Task, Step(t) \/ Fail(t)
  PROVE  \A u \in Task \ {t} :
           /\ pc'[u] = pc[u] /\ batch'[u] = batch[u] /\ todo'[u] = todo[u] /\ groups'[u] = groups[u]
           /\ verdict'[u] = verdict[u] /\ sends'[u] = sends[u] /\ heads'[u] = heads[u]
           /\ named'[u] = named[u]
<1> USE DEF IInv, Locals, Goto, Set, tables, clock, locals
<1>1. CASE Impact(t)
  BY <1>1 DEF Impact
<1>2. CASE Correlate(t) \/ SkipWarmUp(t) \/ Decide(t) \/ Record(t) \/ Routed(t) \/ DecideGroup(t) \/ RecordGroup(t)
  BY <1>2 DEF Correlate, SkipWarmUp, Decide, Record, Routed, DecideGroup, RecordGroup
<1>3. CASE Grouped(t) \/ SendHeadline(t) \/ HeadlinesSent(t) \/ SendSingle(t)
  BY <1>3 DEF Grouped, SendHeadline, HeadlinesSent, SendSingle
<1>4. CASE SendBatch(t) \/ Done(t) \/ Fail(t)
  BY <1>4 DEF SendBatch, Done, Fail, Finish, ClearLocals
<1> QED BY <1>1, <1>2, <1>3, <1>4 DEF Step

LEMMA LeastElement ==
  ASSUME NEW S \in SUBSET Nat, S # {}
  PROVE  \E m \in S : \A x \in S : m <= x
<1> DEFINE R == OpToRel(<, Nat)
<1>1. IsWellFoundedOn(R, Nat)
  BY NatLessThanWellFounded
<1>2. \E m \in S : \A x \in S : <<x, m>> \notin R
  <2> HIDE DEF R
  <2> QED BY <1>1, WFMin
<1>3. \A x, y \in Nat : x < y => <<x, y>> \in R
  BY DEF OpToRel
<1> HIDE DEF R
<1>4. PICK m \in S : \A x \in S : <<x, m>> \notin R
  BY <1>2
<1>5. ASSUME NEW x \in S PROVE m <= x
  <2>1. ~ (x < m)
    BY <1>3, <1>4
  <2> QED BY <2>1
<1> QED BY <1>5

LEMMA OldestAndNewest ==
  ASSUME NEW n \in Nat, NEW E \in SUBSET (1..n), E # {}
  PROVE  Oldest(E) \in E /\ Newest(E) \in E
<1>1. \E e \in E : \A f \in E : e <= f
  <2>1. E \in SUBSET Nat
    OBVIOUS
  <2> QED BY <2>1, LeastElement
<1>2. \E e \in E : \A f \in E : f <= e
  <2> DEFINE S == {n - f : f \in E}
  <2>0. \A f \in E : n - f \in Nat
    OBVIOUS
  <2>1. S \in SUBSET Nat /\ S # {}
    <3> HIDE DEF S
    <3>1. \A x \in S : x \in Nat
      BY <2>0 DEF S
    <3>2. S # {}
      BY DEF S
    <3> QED BY <3>1, <3>2
  <2> HIDE DEF S
  <2>2. PICK m \in S : \A x \in S : m <= x
    BY <2>1, LeastElement
  <2>3. PICK e \in E : m = n - e
    BY DEF S
  <2>4. \A f \in E : n - e <= n - f
    BY <2>2, <2>3 DEF S
  <2>5. \A f \in E : f <= e
    BY <2>4
  <2> QED BY <2>5
<1> QED BY <1>1, <1>2 DEF Oldest, Newest

LEMMA IncidentIsOfEvents ==
  ASSUME TypeOK, NEW s
  PROVE  Incident(s) \subseteq ((DOMAIN events) \X (DOMAIN events))
<1> DEFINE recoveries == {e \in Of(s) : Recovery(e)}
           before     == {e \in Of(s) : recoveries # {} /\ e < Newest(recoveries)}
           starts     == {e \in before : events[e].from = "operational"}
<1>1. CASE before = {}
  BY <1>1 DEF Incident
<1>2. CASE before # {}
  <2>1. Incident(s) = {<<IF starts # {} THEN Newest(starts) ELSE Oldest(before), Newest(recoveries)>>}
    BY <1>2 DEF Incident
  <2>2. /\ recoveries \in SUBSET (1..Len(events)) /\ before \in SUBSET (1..Len(events))
        /\ starts \in SUBSET (1..Len(events)) /\ recoveries # {}
    BY <1>2, EventFacts DEF Of
  <2>3. Len(events) \in Nat /\ DOMAIN events = 1..Len(events)
    BY EventFacts
  <2> HIDE DEF recoveries, before, starts
  <2>4. Newest(recoveries) \in DOMAIN events /\ Oldest(before) \in DOMAIN events
    BY <1>2, <2>2, <2>3, OldestAndNewest
  <2>5. starts # {} => Newest(starts) \in DOMAIN events
    BY <2>2, <2>3, OldestAndNewest
  <2> QED BY <2>1, <2>4, <2>5
<1> QED BY <1>1, <1>2

-----------------------------------------------------------------------------
(* The type invariant is inductive.                                        *)

LEMMA TypeInitially == Init => IInv
<1> SUFFICES ASSUME Init PROVE IInv
  OBVIOUS
<1>1. Len(events) = 0 /\ DOMAIN events = {} /\ Len(log) = 0 /\ DOMAIN log = {}
      /\ events \in Seq(Event) /\ log \in Seq(Row)
  BY EmptySeq DEF Init
<1>2. GlobalsOK
  BY <1>1, Constants, EngineAssumption DEF Init, GlobalsOK, ServiceStatus
<1>3. NoVerdict \in Verdict
  BY Constants DEF NoVerdict, Verdict
<1>4. Functions /\ \A t \in Task : TaskOK(t) /\ TaskMore(t)
  BY <1>1, <1>3 DEF Init, Functions, TaskOK, TaskMore, NoVerdict, Locations
<1> QED BY <1>1, <1>2, <1>4, Parts DEF RowsAreOfEvents

(* A step that leaves events and the log alone and puts t in a good state. *)
LEMMA LocalStep ==
  ASSUME IInv, NEW t \in Task, Step(t) \/ Fail(t), UNCHANGED <<events, log>>,
         GlobalsOK', Functions', TaskOK(t)', TaskMore(t)'
  PROVE  IInv'
<1>1. ASSUME NEW u \in Task, u # t PROVE TaskOK(u)' /\ TaskMore(u)'
  BY <1>1, OwnLocals, Parts DEF TaskOK, TaskMore
<1>2. RowsAreOfEvents'
  BY DEF IInv, RowsAreOfEvents
<1>3. (GlobalsOK /\ Functions /\ RowsAreOfEvents /\ \A u \in Task : TaskOK(u) /\ TaskMore(u))'
  BY <1>1, <1>2
<1> QED BY <1>3, Parts DEF IInv, TypeOK, Locals, GlobalsOK, Functions, TaskOK, TaskMore

LEMMA MessageType ==
  ASSUME IInv, NEW t \in Task
  PROVE  /\ sends[t] \in SUBSET (1..MaxEvents)
         /\ \A e \in sends[t] \cup heads[t] : {e} \in SUBSET (1..MaxEvents)
         /\ \A u : Dependents(u, batch[t]) \in SUBSET (1..MaxEvents)
         /\ \A E : Names(t, E) \in SUBSET Service
<1>0. ASSUME NEW E PROVE Names(t, E) \in SUBSET Service
  <2>1. named[t] \subseteq batch[t] \X Service
    BY DEF IInv, TypeOK
  <2> QED BY <2>1 DEF Names
<1>1. batch[t] \subseteq DOMAIN events /\ sends[t] \subseteq batch[t] /\ heads[t] \subseteq batch[t]
  BY DEF IInv, TypeOK
<1> QED BY <1>0, <1>1, EventFacts DEF IInv, Dependents, Affected

LEMMA StepType ==
  ASSUME IInv, NEW t \in Task, Step(t) \/ Fail(t)
  PROVE  IInv'
<1> USE DEF Goto, Set, tables, clock, Locations
<1>0. GlobalsOK /\ Functions /\ RowsAreOfEvents /\ TaskOK(t) /\ TaskMore(t)
  BY Parts
<1>b. batch[t] \in SUBSET Nat /\ batch[t] \subseteq DOMAIN events /\ Len(events) \in Nat
  BY <1>0, EventFacts DEF Functions, TaskOK, IInv
<1>c. NoVerdict \in Verdict /\ NoVerdict.event = 0
  BY Constants DEF NoVerdict, Verdict
<1>1. CASE Correlate(t)
  <2>0. Upstreams(batch[t]) \subseteq batch[t]
    BY DEF Upstreams, Affected
  <2>1. GlobalsOK' /\ UNCHANGED <<events, log>>
    BY <1>0, <1>b, <1>1, <2>0 DEF Correlate, GlobalsOK, TaskOK
  <2>2. Functions'
    BY <1>0, <1>b, <1>c, <1>1, <2>0 DEF Correlate, Functions, TaskOK
  <2>3. TaskOK(t)' /\ TaskMore(t)'
    BY <1>0, <1>b, <1>c, <1>1, <2>0 DEF Correlate, Functions, TaskOK, TaskMore
  <2> QED BY <2>1, <2>2, <2>3, LocalStep
<1>2. CASE Impact(t)
  <2>0. \A e \in todo[t] : Incident(Svc(e)) \subseteq ((DOMAIN events) \X (DOMAIN events))
    BY IncidentIsOfEvents DEF IInv
  <2>1. GlobalsOK' /\ UNCHANGED <<events, log>>
    BY <1>0, <1>b, <1>2, <2>0 DEF Impact, GlobalsOK, TaskOK
  <2>i. PICK e \in todo[t] :
          /\ named' = Set(named, t, named[t] \cup ({e} \X ImpactOn(e))) \/ UNCHANGED named
          /\ IF todo[t] = {e}
             THEN todo' = Set(todo, t, batch[t]) /\ Goto(t, "route")
             ELSE todo' = Set(todo, t, todo[t] \ {e}) /\ UNCHANGED pc
    BY <1>2 DEF Impact
  <2>j. UNCHANGED <<batch, groups, verdict, sends, heads, events>> /\ pc[t] = "impact" /\ e \in batch[t]
    BY <1>0, <1>2 DEF Impact, TaskOK
  <2>k. ({e} \X ImpactOn(e)) \subseteq batch[t] \X Service
    BY <2>j DEF ImpactOn
  <2>l. /\ named' \in [Task -> SUBSET (Nat \X Service)]
        /\ named'[t] \subseteq batch[t] \X Service
    <3>1. CASE UNCHANGED named
      BY <1>0, <3>1 DEF Functions, TaskOK
    <3>2. CASE named' = Set(named, t, named[t] \cup ({e} \X ImpactOn(e)))
      <4>1. named[t] \cup ({e} \X ImpactOn(e)) \in SUBSET (batch[t] \X Service)
        BY <1>0, <2>k DEF TaskOK
      <4>2. SUBSET (batch[t] \X Service) \subseteq SUBSET (Nat \X Service)
        BY <1>b
      <4> HIDE DEF Set
      <4>3. named' = [named EXCEPT ![t] = named[t] \cup ({e} \X ImpactOn(e))]
        BY <3>2 DEF Set
      <4> QED BY <1>0, <4>1, <4>2, <4>3 DEF Functions
    <3> QED BY <2>i, <3>1, <3>2
  <2>2. Functions'
    BY <1>0, <1>b, <2>i, <2>j, <2>l DEF Functions, TaskOK
  <2>3. TaskOK(t)' /\ TaskMore(t)'
    BY <1>0, <1>b, <2>i, <2>j, <2>l DEF Functions, TaskOK, TaskMore
  <2> QED BY <2>1, <2>2, <2>3, LocalStep
<1>3. CASE SkipWarmUp(t)
  <2>1. GlobalsOK' /\ UNCHANGED <<events, log>>
    BY <1>0, <1>b, <1>3 DEF SkipWarmUp, GlobalsOK, TaskOK
  <2>2. Functions'
    BY <1>0, <1>b, <1>c, <1>3 DEF SkipWarmUp, Functions, TaskOK
  <2>3. TaskOK(t)' /\ TaskMore(t)'
    BY <1>0, <1>b, <1>c, <1>3 DEF SkipWarmUp, Functions, TaskOK, TaskMore
  <2> QED BY <2>1, <2>2, <2>3, LocalStep
<1>4. CASE Decide(t)
  <2>0. \A e \in todo[t] : [event |-> e, by |-> Suppression(e, e \in Aggregated(batch[t])), day |-> day] \in Verdict
    <3>1. \A e \in todo[t] : Suppression(e, e \in Aggregated(batch[t])) \in Reason \cup {Fired}
      BY DEF Suppression, Reason
    <3>2. \A e \in todo[t] : e \in 0..MaxEvents
      BY <1>0, EventFacts DEF TaskOK, IInv
    <3> QED BY <1>0, <3>1, <3>2 DEF GlobalsOK, Verdict
  <2>1. GlobalsOK' /\ UNCHANGED <<events, log>>
    BY <1>0, <1>b, <1>4, <2>0 DEF Decide, GlobalsOK, TaskOK
  <2>2. Functions'
    BY <1>0, <1>b, <1>c, <1>4, <2>0 DEF Decide, Functions, TaskOK
  <2>3. TaskOK(t)' /\ TaskMore(t)'
    BY <1>0, <1>b, <1>c, <1>4, <2>0 DEF Decide, Functions, TaskOK, TaskMore
  <2> QED BY <2>1, <2>2, <2>3, LocalStep
<1>5. CASE Routed(t)
  <2>1. GlobalsOK' /\ UNCHANGED <<events, log>>
    BY <1>0, <1>b, <1>5 DEF Routed, GlobalsOK, TaskOK
  <2>2. Functions'
    BY <1>0, <1>b, <1>c, <1>5 DEF Routed, Functions, TaskOK
  <2>3. TaskOK(t)' /\ TaskMore(t)'
    BY <1>0, <1>b, <1>c, <1>5 DEF Routed, Functions, TaskOK, TaskMore
  <2> QED BY <2>1, <2>2, <2>3, LocalStep
<1>6. CASE DecideGroup(t)
  <2>0. \A u \in groups[t] : [event |-> u, by |-> Suppression(u, FALSE), day |-> day] \in Verdict
    <3>1. \A u \in groups[t] : Suppression(u, FALSE) \in Reason \cup {Fired}
      BY DEF Suppression, Reason
    <3>2. \A u \in groups[t] : u \in 0..MaxEvents
      BY <1>0, EventFacts DEF TaskOK, IInv
    <3> QED BY <1>0, <3>1, <3>2 DEF GlobalsOK, Verdict
  <2>1. GlobalsOK' /\ UNCHANGED <<events, log>>
    BY <1>0, <1>b, <1>6, <2>0 DEF DecideGroup, GlobalsOK, TaskOK
  <2>2. Functions'
    BY <1>0, <1>b, <1>c, <1>6, <2>0 DEF DecideGroup, Functions, TaskOK
  <2>3. TaskOK(t)' /\ TaskMore(t)'
    BY <1>0, <1>b, <1>c, <1>6, <2>0 DEF DecideGroup, Functions, TaskOK, TaskMore
  <2> QED BY <2>1, <2>2, <2>3, LocalStep
<1>7. CASE Grouped(t)
  <2>1. GlobalsOK' /\ UNCHANGED <<events, log>>
    BY <1>0, <1>b, <1>7 DEF Grouped, GlobalsOK, TaskOK
  <2>2. Functions'
    BY <1>0, <1>b, <1>c, <1>7 DEF Grouped, Functions, TaskOK
  <2>3. TaskOK(t)' /\ TaskMore(t)'
    BY <1>0, <1>b, <1>c, <1>7 DEF Grouped, Functions, TaskOK, TaskMore
  <2> QED BY <2>1, <2>2, <2>3, LocalStep
<1>8. CASE SendHeadline(t)
  <2>0. messages' \subseteq Message
    <3>1. PICK u \in heads[t] :
            Post([events |-> {u}, cites |-> Dependents(u, batch[t]), names |-> Names(t, {u}), kind |-> "aggregated"])
      BY <1>8 DEF SendHeadline
    <3>2. [events |-> {u}, cites |-> Dependents(u, batch[t]), names |-> Names(t, {u}), kind |-> "aggregated"] \in Message
      BY MessageType DEF Message
    <3> QED BY <1>0, <3>1, <3>2 DEF Post, GlobalsOK
  <2>1. GlobalsOK' /\ UNCHANGED <<events, log>>
    BY <1>0, <1>b, <1>8, <2>0 DEF SendHeadline, GlobalsOK, TaskOK
  <2>2. Functions'
    BY <1>0, <1>b, <1>c, <1>8 DEF SendHeadline, Post, Functions, TaskOK
  <2>3. TaskOK(t)' /\ TaskMore(t)'
    BY <1>0, <1>b, <1>c, <1>8 DEF SendHeadline, Post, Functions, TaskOK, TaskMore
  <2> QED BY <2>1, <2>2, <2>3, LocalStep
<1>9. CASE HeadlinesSent(t)
  <2>1. GlobalsOK' /\ UNCHANGED <<events, log>>
    BY <1>0, <1>b, <1>9 DEF HeadlinesSent, GlobalsOK, TaskOK
  <2>2. Functions'
    BY <1>0, <1>b, <1>c, <1>9 DEF HeadlinesSent, Functions, TaskOK
  <2>3. TaskOK(t)' /\ TaskMore(t)'
    BY <1>0, <1>b, <1>c, <1>9 DEF HeadlinesSent, Functions, TaskOK, TaskMore
  <2> QED BY <2>1, <2>2, <2>3, LocalStep
<1>10. CASE SendBatch(t)
  <2>0. messages' \subseteq Message
    BY <1>0, <1>10, MessageType DEF SendBatch, Post, Message, GlobalsOK
  <2>1. GlobalsOK' /\ UNCHANGED <<events, log>>
    BY <1>0, <1>b, <1>10, <2>0 DEF SendBatch, Finish, ClearLocals, GlobalsOK, TaskOK
  <2>2. Functions'
    BY <1>0, <1>b, <1>c, <1>10 DEF SendBatch, Post, Finish, ClearLocals, Functions, TaskOK
  <2>3. TaskOK(t)' /\ TaskMore(t)'
    BY <1>0, <1>b, <1>c, <1>10 DEF SendBatch, Post, Finish, ClearLocals, Functions, TaskOK, TaskMore
  <2> QED BY <2>1, <2>2, <2>3, LocalStep
<1>11. CASE SendSingle(t)
  <2>0. messages' \subseteq Message
    BY <1>0, <1>11, MessageType DEF SendSingle, Post, Message, GlobalsOK
  <2>1. GlobalsOK' /\ UNCHANGED <<events, log>>
    BY <1>0, <1>b, <1>11, <2>0 DEF SendSingle, GlobalsOK, TaskOK
  <2>2. Functions'
    BY <1>0, <1>b, <1>c, <1>11 DEF SendSingle, Post, Functions, TaskOK
  <2>3. TaskOK(t)' /\ TaskMore(t)'
    BY <1>0, <1>b, <1>c, <1>11 DEF SendSingle, Post, Functions, TaskOK, TaskMore
  <2> QED BY <2>1, <2>2, <2>3, LocalStep
<1>12. CASE Done(t)
  <2>1. GlobalsOK' /\ UNCHANGED <<events, log>>
    BY <1>0, <1>b, <1>12 DEF Done, Finish, ClearLocals, GlobalsOK, TaskOK
  <2>2. Functions'
    BY <1>0, <1>b, <1>c, <1>12 DEF Done, Finish, ClearLocals, Functions, TaskOK
  <2>3. TaskOK(t)' /\ TaskMore(t)'
    BY <1>0, <1>b, <1>c, <1>12 DEF Done, Finish, ClearLocals, Functions, TaskOK, TaskMore
  <2> QED BY <2>1, <2>2, <2>3, LocalStep
<1>13. CASE Fail(t)
  <2>1. GlobalsOK' /\ UNCHANGED <<events, log>>
    BY <1>0, <1>b, <1>13 DEF Fail, ClearLocals, GlobalsOK, TaskOK
  <2>2. Functions'
    BY <1>0, <1>b, <1>c, <1>13 DEF Fail, ClearLocals, Functions, TaskOK
  <2>3. TaskOK(t)' /\ TaskMore(t)'
    BY <1>0, <1>b, <1>c, <1>13 DEF Fail, ClearLocals, Functions, TaskOK, TaskMore
  <2> QED BY <2>1, <2>2, <2>3, LocalStep
<1>14. ASSUME NEW k \in {"status_change", "aggregated_upstream"},
             pc[t] \in {"record", "grouprecord"}, InsertRow(t, k), UNCHANGED events,
             UNCHANGED <<status, impact, reports, clock, messages, finished>>,
             Functions', TaskOK(t)', TaskMore(t)'
       PROVE IInv'
  <2>1. /\ log' \in Seq(Row) /\ Len(log') = Len(log) + 1 /\ DOMAIN log' = 1..(Len(log) + 1)
        /\ DOMAIN log = 1..Len(log) /\ Len(log) \in Nat
        /\ \A i \in DOMAIN log' : log'[i].event \in DOMAIN events
    <3>1. /\ Len(log) \in Nat /\ DOMAIN log = 1..Len(log)
      BY LogFacts DEF IInv
    <3>2. VerdictRow(t, k).event \in DOMAIN events
      BY <1>14, InsertIsRow DEF VerdictRow
    <3>3. \A i \in DOMAIN log : log'[i].event \in DOMAIN events
      BY <1>0, <1>14, InsertIsRow DEF RowsAreOfEvents
    <3> QED BY <1>14, <3>1, <3>2, <3>3, InsertIsRow
  <2>2. GlobalsOK'
    BY <1>0, <1>14, <2>1 DEF GlobalsOK
  <2>3. \A u \in Task \ {t} : TaskOK(u)' /\ TaskMore(u)'
    BY <1>14, OwnLocals, Parts DEF TaskOK, TaskMore
  <2>4. RowsAreOfEvents'
    BY <1>14, <2>1 DEF RowsAreOfEvents
  <2>5. (GlobalsOK /\ Functions /\ RowsAreOfEvents /\ \A u \in Task : TaskOK(u) /\ TaskMore(u))'
    BY <1>14, <2>2, <2>3, <2>4
  <2> QED BY <2>5 DEF IInv, TypeOK, Locals, GlobalsOK, Functions, TaskOK, TaskMore
<1>15. CASE Record(t)
  <2>1. Functions'
    BY <1>0, <1>15 DEF Record, Functions, TaskOK
  <2>2. TaskOK(t)' /\ TaskMore(t)'
    BY <1>0, <1>15 DEF Record, Functions, TaskOK, TaskMore
  <2> QED BY <1>14, <1>15, <2>1, <2>2 DEF Record
<1>16. CASE RecordGroup(t)
  <2>1. Functions'
    BY <1>0, <1>16 DEF RecordGroup, Functions, TaskOK
  <2>2. TaskOK(t)' /\ TaskMore(t)'
    BY <1>0, <1>16 DEF RecordGroup, Functions, TaskOK, TaskMore
  <2> QED BY <1>14, <1>16, <2>1, <2>2 DEF RecordGroup
<1> QED BY <1>1, <1>2, <1>3, <1>4, <1>5, <1>6, <1>7, <1>8, <1>9, <1>10, <1>11, <1>12, <1>13, <1>15, <1>16
        DEF Step

(* Whatever status a writer has seen is one.                               *)
LEMMA SeenIsStatus ==
  ASSUME TypeOK, NEW s \in Service
  PROVE  Seen(s) \subseteq ServiceStatus
BY EventFacts DEF Seen, Of, Event, TypeOK

LEMMA ChangeIsEvent ==
  ASSUME NEW s \in Service, NEW from \in ServiceStatus, NEW to \in ServiceStatus,
         NEW i \in VendorIncident \cup {NoIncident}
  PROVE  Change(s, from, to, i) \in Event
BY DEF Change, Event

(* Whoever hands changes over hands over a sequence of events.             *)
LEMMA Arrivals ==
  ASSUME IInv, PollArrives \/ \E t \in Request : RequestArrives(t)
  PROVE  \E t \in Task, n \in Nat \ {0} : \E changes \in [1..n -> Event] : Arrive(t, changes)
<1>1. Poller \in Task /\ Request \subseteq Task /\ Bad \cup {"operational"} \subseteq ServiceStatus
  BY DEF Task, ServiceStatus
<1>2. \A s \in Service : Seen(s) \subseteq ServiceStatus
  BY SeenIsStatus DEF IInv
<1>3. CASE PollArrives
  <2>1. PICK n \in 1..Cardinality(Service) : \E changes \in [1..n -> PolledChange] : Arrive(Poller, changes)
    BY <1>3 DEF PollArrives
  <2>2. PolledChange \subseteq Event
    <3>1. ASSUME NEW c \in PolledChange PROVE c \in Event
      <4>1. PICK s \in Service : c \in {Change(s, from, to, i) : from \in Seen(s), to \in Bad \cup {"operational"},
                                                              i \in VendorIncident \cup {NoIncident}}
        BY <3>1 DEF PolledChange
      <4>2. PICK from \in Seen(s), to \in Bad \cup {"operational"}, i \in VendorIncident \cup {NoIncident} :
              c = Change(s, from, to, i)
        BY <4>1
      <4> QED BY <1>1, <1>2, <4>2, ChangeIsEvent
    <3> QED BY <3>1
  <2>3. PICK changes \in [1..n -> PolledChange] : Arrive(Poller, changes)
    BY <2>1
  <2>4. changes \in [1..n -> Event]
    BY <2>2, <2>3
  <2>5. n \in Nat \ {0}
    BY Constants, <2>1
  <2> QED BY <1>1, <2>3, <2>4, <2>5
<1>4. CASE \E t \in Request : RequestArrives(t)
  <2>1. PICK t \in Request : RequestArrives(t)
    BY <1>4
  <2>2. PICK s \in Service, to \in ServiceStatus : \E from \in Seen(s) \ {to} :
          Arrive(t, <<Change(s, from, to, NoIncident)>>)
    BY <2>1 DEF RequestArrives
  <2>3. PICK from \in Seen(s) \ {to} : Arrive(t, <<Change(s, from, to, NoIncident)>>)
    BY <2>2
  <2>4. <<Change(s, from, to, NoIncident)>> \in [1..1 -> Event]
    BY <1>2, <2>2, <2>3, ChangeIsEvent
  <2>5. 1 \in Nat \ {0} /\ t \in Task
    BY <1>1
  <2>6. \E changes \in [1..1 -> Event] : Arrive(t, changes)
    BY <2>3, <2>4
  <2> QED BY <2>5, <2>6
<1> QED BY <1>3, <1>4

LEMMA ArriveFacts ==
  ASSUME IInv, NEW t \in Task, NEW n \in Nat \ {0}, NEW changes \in [1..n -> Event],
         Arrive(t, changes)
  PROVE  /\ events' \in Seq(Event) /\ Len(events') <= MaxEvents
         /\ DOMAIN events' = DOMAIN events \cup batch'[t]
         /\ \A e \in DOMAIN events : events'[e] = events[e]
         /\ batch'[t] \cap DOMAIN events = {} /\ batch'[t] # {} /\ batch'[t] \in SUBSET Nat
         /\ todo'[t] = batch'[t]
<1>1. changes \in Seq(Event) /\ Len(changes) = n
  BY LenProperties
<1>2. events \in Seq(Event) /\ Len(events) \in Nat /\ DOMAIN events = 1..Len(events)
  BY EventFacts DEF IInv, TypeOK
<1>3. batch'[t] = (Len(events) + 1)..(Len(events) + n) /\ todo'[t] = batch'[t]
  BY <1>1 DEF Arrive, Set, IInv, Locals
<1>4. events' = events \o changes /\ Len(events) + n <= MaxEvents
  BY <1>1 DEF Arrive
<1>5. /\ events' \in Seq(Event) /\ Len(events') = Len(events) + n
      /\ \A e \in 1..Len(events) : events'[e] = events[e]
  <2>1. events \o changes \in Seq(Event) /\ Len(events \o changes) = Len(events) + n
    BY <1>1, <1>2, ConcatProperties
  <2>2. \A e \in 1..Len(events) : (events \o changes)[e] = events[e]
    BY <1>1, <1>2, ConcatProperties
  <2> QED BY <1>4, <2>1, <2>2
<1>6. DOMAIN events' = 1..(Len(events) + n)
  BY <1>5, LenProperties
<1>7. Len(events) + 1 \in batch'[t]
  BY <1>2, <1>3
<1> QED BY <1>2, <1>3, <1>4, <1>5, <1>6, <1>7

(* The other tasks keep their locals, and the task itself those that are   *)
(* empty while it rests.                                                   *)
LEMMA ArriveLocals ==
  ASSUME IInv, NEW t \in Task, NEW n \in Nat \ {0}, NEW changes \in [1..n -> Event],
         Arrive(t, changes)
  PROVE  /\ pc[t] = "idle" /\ pc'[t] = "correlate"
         /\ UNCHANGED <<log, clock, messages, finished, groups, verdict, sends, heads, named>>
         /\ groups[t] = {} /\ sends[t] = {} /\ heads[t] = {} /\ named[t] = {} /\ verdict[t].event = 0
         /\ \A u \in Task \ {t} : batch'[u] = batch[u] /\ todo'[u] = todo[u] /\ pc'[u] = pc[u]
<1>1. /\ pc[t] = "idle" /\ pc' = [pc EXCEPT ![t] = "correlate"]
      /\ UNCHANGED <<log, clock, messages, finished, groups, verdict, sends, heads, named>>
      /\ \E S : batch' = [batch EXCEPT ![t] = S]
      /\ \E S : todo' = [todo EXCEPT ![t] = S]
  BY DEF Arrive, Goto, Set
<1>2. batch[t] = {} /\ groups[t] = {} /\ sends[t] = {} /\ heads[t] = {}
  BY <1>1 DEF IInv, TypeOK, Locals
<1>3. named[t] = {} /\ verdict[t].event = 0
  BY <1>2 DEF IInv, TypeOK
<1>4. pc'[t] = "correlate" /\ \A u \in Task \ {t} : batch'[u] = batch[u] /\ todo'[u] = todo[u] /\ pc'[u] = pc[u]
  BY <1>1 DEF IInv, Locals
<1> QED BY <1>1, <1>2, <1>3, <1>4

LEMMA ArriveType ==
  ASSUME IInv, NEW t \in Task, NEW n \in Nat \ {0}, NEW changes \in [1..n -> Event],
         Arrive(t, changes)
  PROVE  IInv'
<1>0. GlobalsOK /\ Functions /\ RowsAreOfEvents /\ \A u \in Task : TaskOK(u) /\ TaskMore(u)
  BY Parts
<1>1. status' \in [Service -> ServiceStatus]
  <2>1. ASSUME NEW s \in Service, \E i \in DOMAIN changes : changes[i].svc = s
        PROVE  (CHOOSE c \in {changes[i] : i \in DOMAIN changes} : c.svc = s).to \in ServiceStatus
    <3>1. (CHOOSE c \in {changes[i] : i \in DOMAIN changes} : c.svc = s) \in {changes[i] : i \in DOMAIN changes}
      BY <2>1
    <3> QED BY <3>1 DEF Event
  <2> QED BY <1>0, <2>1 DEF Arrive, GlobalsOK
<1>2. DOMAIN events \subseteq DOMAIN events'
  BY ArriveFacts
<1>3. GlobalsOK'
  <2>1. events' \in Seq(Event) /\ Len(events') <= MaxEvents
    BY ArriveFacts
  <2>2. impact' \subseteq DOMAIN events' /\ finished' \subseteq DOMAIN events'
        /\ reports' \subseteq ((DOMAIN events') \X (DOMAIN events'))
    BY <1>0, <1>2 DEF Arrive, GlobalsOK
  <2> QED BY <1>0, <1>1, <2>1, <2>2 DEF Arrive, GlobalsOK, clock
<1>4. Functions'
  BY <1>0, ArriveFacts DEF Arrive, Functions, Goto, Set, Locations
<1>5. RowsAreOfEvents'
  BY <1>0, <1>2 DEF Arrive, RowsAreOfEvents
<1>6. \A u \in Task \ {t} : TaskOK(u)' /\ TaskMore(u)'
  BY <1>0, <1>2, ArriveLocals DEF TaskOK, TaskMore
<1>7. TaskOK(t)' /\ TaskMore(t)'
  <2>1. /\ pc'[t] = "correlate" /\ groups'[t] = {} /\ sends'[t] = {} /\ heads'[t] = {} /\ named'[t] = {}
        /\ verdict'[t].event = 0
    BY ArriveLocals
  <2>2. batch'[t] \subseteq DOMAIN events' /\ batch'[t] # {} /\ todo'[t] = batch'[t]
    BY ArriveFacts
  <2> QED BY <2>1, <2>2 DEF TaskOK, TaskMore, Locations
<1>8. (GlobalsOK /\ Functions /\ RowsAreOfEvents /\ \A u \in Task : TaskOK(u) /\ TaskMore(u))'
  BY <1>3, <1>4, <1>5, <1>6, <1>7
<1> QED BY <1>8 DEF IInv, TypeOK, Locals, GlobalsOK, Functions, TaskOK, TaskMore

(* A crash, the clock and the maintenance windows.                         *)
LEMMA EnvironmentType ==
  ASSUME IInv, Crash \/ Midnight \/ Expire \/ (\E s \in Maintained : MaintenanceTurns(s)) \/ UNCHANGED vars
  PROVE  IInv'
<1>0. GlobalsOK /\ Functions /\ RowsAreOfEvents /\ \A u \in Task : TaskOK(u) /\ TaskMore(u)
  BY Parts
<1>1. GlobalsOK' /\ UNCHANGED <<events, log>>
  BY <1>0, LogFacts, Constants DEF Crash, Midnight, Expire, MaintenanceTurns, vars, tables, clock,
     GlobalsOK, IInv
<1>2. RowsAreOfEvents'
  BY <1>0, <1>1 DEF RowsAreOfEvents
<1>3. Functions' /\ \A u \in Task : TaskOK(u)' /\ TaskMore(u)'
  <2>1. CASE Crash
    <3>1. NoVerdict \in Verdict /\ NoVerdict.event = 0
      BY Constants DEF NoVerdict, Verdict
    <3> QED BY <2>1, <3>1 DEF Crash, Functions, TaskOK, TaskMore, Locations
  <2>2. CASE UNCHANGED <<locals, events>>
    BY <1>0, <2>2 DEF locals, Functions, TaskOK, TaskMore
  <2> QED BY <2>1, <2>2, <1>1 DEF Midnight, Expire, MaintenanceTurns, vars
<1>4. (GlobalsOK /\ Functions /\ RowsAreOfEvents /\ \A u \in Task : TaskOK(u) /\ TaskMore(u))'
  BY <1>1, <1>2, <1>3
<1> QED BY <1>4 DEF IInv, TypeOK, Locals, GlobalsOK, Functions, TaskOK, TaskMore

(* The kinds of step there are.                                            *)
Environment ==
  Crash \/ Midnight \/ Expire \/ (\E s \in Maintained : MaintenanceTurns(s)) \/ UNCHANGED vars

LEMMA StepKinds ==
  ASSUME IInv, [Next]_vars
  PROVE  \/ \E t \in Task : Step(t) \/ Fail(t)
         \/ \E t \in Task, n \in Nat \ {0} : \E changes \in [1..n -> Event] : Arrive(t, changes)
         \/ Environment
BY Arrivals DEF Next, Quiet, Environment

LEMMA TypeInductive == IInv /\ [Next]_vars => IInv'
BY StepKinds, StepType, ArriveType, EnvironmentType DEF Environment

(* Types; that nothing a task holds is forgotten when it rests.            *)
THEOREM TypeCorrect == Spec => []TypeOK
<1>1. Spec => []IInv
  BY TypeInitially, TypeInductive, PTL DEF Spec
<1>2. IInv => TypeOK
  BY DEF IInv
<1> QED BY <1>1, <1>2, PTL

-----------------------------------------------------------------------------
(* Events and rows stay as they were written.                              *)

LEMMA Monotone ==
  ASSUME IInv, [Next]_vars
  PROVE  /\ DOMAIN events \subseteq DOMAIN events' /\ \A e \in DOMAIN events : events'[e] = events[e]
         /\ DOMAIN log \subseteq DOMAIN log' /\ \A i \in DOMAIN log : log'[i] = log[i]
<1>1. CASE \E t \in Task : Step(t) \/ Fail(t)
  <2>1. PICK t \in Task : Step(t) \/ Fail(t)
    BY <1>1
  <2>2. CASE Record(t)
    <3>1. InsertRow(t, "status_change") /\ pc[t] = "record" /\ UNCHANGED events
      BY <2>2 DEF Record
    <3> QED BY <3>1, InsertIsRow, LogFacts DEF IInv
  <2>3. CASE RecordGroup(t)
    <3>1. InsertRow(t, "aggregated_upstream") /\ pc[t] = "grouprecord" /\ UNCHANGED events
      BY <2>3 DEF RecordGroup
    <3> QED BY <3>1, InsertIsRow, LogFacts DEF IInv
  <2>4. CASE UNCHANGED <<events, log>>
    BY <2>4
  <2> QED BY <2>1, <2>2, <2>3, <2>4 DEF Step, Fail, Correlate, Impact, SkipWarmUp, Decide, Routed, DecideGroup,
          Grouped, SendHeadline, HeadlinesSent, SendBatch, SendSingle, Done, tables
<1>2. ASSUME NEW t \in Task, NEW n \in Nat \ {0}, NEW changes \in [1..n -> Event], Arrive(t, changes)
      PROVE  /\ DOMAIN events \subseteq DOMAIN events' /\ \A e \in DOMAIN events : events'[e] = events[e]
             /\ UNCHANGED log
  BY <1>2, ArriveFacts, ArriveLocals
<1>3. CASE Environment
  BY <1>3 DEF Environment, Crash, Midnight, Expire, MaintenanceTurns, vars, tables
<1> QED BY <1>1, <1>2, <1>3, StepKinds

(* What the two recording steps do.                                       *)
LEMMA RecordEffect ==
  ASSUME IInv, NEW t \in Task, Record(t)
  PROVE  /\ pc[t] = "record" /\ pc'[t] = "route" /\ verdict[t].event \in todo[t]
         /\ todo'[t] = todo[t] \ {verdict[t].event}
         /\ verdict[t].by = Fired => sends'[t] = sends[t] \cup {verdict[t].event}
         /\ verdict[t].by # Fired => sends'[t] = sends[t]
         /\ UNCHANGED <<clock, messages, finished, events, status, batch, verdict, groups, heads>>
         /\ \A u \in Task \ {t} : pc'[u] = pc[u] /\ todo'[u] = todo[u] /\ sends'[u] = sends[u]
         /\ DOMAIN log' = (DOMAIN log) \cup {Len(log) + 1} /\ Len(log) + 1 \notin DOMAIN log
         /\ log'[Len(log) + 1] = VerdictRow(t, "status_change") /\ \A i \in DOMAIN log : log'[i] = log[i]
<1>0. pc \in [Task -> Locations] /\ todo \in [Task -> SUBSET Nat] /\ sends \in [Task -> SUBSET Nat]
  BY DEF IInv, Locals
<1>1. /\ pc[t] = "record" /\ InsertRow(t, "status_change")
      /\ pc' = [pc EXCEPT ![t] = "route"]
      /\ todo' = [todo EXCEPT ![t] = todo[t] \ {verdict[t].event}]
      /\ sends' = IF verdict[t].by = Fired
                 THEN [sends EXCEPT ![t] = sends[t] \cup {verdict[t].event}] ELSE sends
      /\ UNCHANGED <<clock, messages, finished, events, status, batch, verdict, groups, heads>>
  BY DEF Record, Goto, Set
<1>2. verdict[t].event \in todo[t]
  BY <1>1 DEF IInv, Locals
<1>3. CASE verdict[t].by = Fired
  BY <1>0, <1>1, <1>2, <1>3, InsertIsRow
<1>4. CASE verdict[t].by # Fired
  BY <1>0, <1>1, <1>2, <1>4, InsertIsRow
<1> QED BY <1>3, <1>4

LEMMA RecordGroupEffect ==
  ASSUME IInv, NEW t \in Task, RecordGroup(t)
  PROVE  /\ pc[t] = "grouprecord" /\ pc'[t] = "group" /\ verdict[t].event \in groups[t]
         /\ groups'[t] = groups[t] \ {verdict[t].event}
         /\ verdict[t].by = Fired => heads'[t] = heads[t] \cup {verdict[t].event}
         /\ verdict[t].by # Fired => heads'[t] = heads[t]
         /\ UNCHANGED <<clock, messages, finished, events, status, batch, verdict, todo, sends>>
         /\ \A u \in Task \ {t} : pc'[u] = pc[u] /\ groups'[u] = groups[u] /\ heads'[u] = heads[u]
         /\ DOMAIN log' = (DOMAIN log) \cup {Len(log) + 1} /\ Len(log) + 1 \notin DOMAIN log
         /\ log'[Len(log) + 1] = VerdictRow(t, "aggregated_upstream") /\ \A i \in DOMAIN log : log'[i] = log[i]
<1>0. pc \in [Task -> Locations] /\ groups \in [Task -> SUBSET Nat] /\ heads \in [Task -> SUBSET Nat]
  BY DEF IInv, Locals
<1>1. /\ pc[t] = "grouprecord" /\ InsertRow(t, "aggregated_upstream")
      /\ pc' = [pc EXCEPT ![t] = "group"]
      /\ groups' = [groups EXCEPT ![t] = groups[t] \ {verdict[t].event}]
      /\ heads' = IF verdict[t].by = Fired
                 THEN [heads EXCEPT ![t] = heads[t] \cup {verdict[t].event}] ELSE heads
      /\ UNCHANGED <<clock, messages, finished, events, status, batch, verdict, todo, sends>>
  BY DEF RecordGroup, Goto, Set
<1>2. verdict[t].event \in groups[t]
  BY <1>1 DEF IInv, Locals
<1>3. CASE verdict[t].by = Fired
  BY <1>0, <1>1, <1>2, <1>3, InsertIsRow
<1>4. CASE verdict[t].by # Fired
  BY <1>0, <1>1, <1>2, <1>4, InsertIsRow
<1> QED BY <1>3, <1>4

(* What a message, or a list of messages to send, says of an event is in   *)
(* the log, and what the log says was alerted may be alerted.              *)
FiredRow(e) == \E i \in DOMAIN log : log[i].event = e /\ log[i].by = Fired
Paged(e) == TierOf[Svc(e)] # "informational"
Deciding(t) == pc[t] \in {"record", "grouprecord"}

Ledger ==
  /\ \A m \in messages : \A e \in m.events : FiredRow(e)
  /\ \A t \in Task : \A e \in sends[t] \cup heads[t] : FiredRow(e)
  /\ \A i \in DOMAIN log : log[i].by = Fired => Paged(log[i].event)
  /\ \A t \in Task : Deciding(t) /\ verdict[t].by = Fired => Paged(verdict[t].event)

LEMMA LedgerInitially == Init => Ledger
<1> SUFFICES ASSUME Init PROVE Ledger
  OBVIOUS
<1>1. DOMAIN log = {}
  BY EmptySeq DEF Init
<1> QED BY <1>1 DEF Init, Ledger, Deciding

LEMMA LedgerInductive == IInv /\ Ledger /\ [Next]_vars => Ledger'
<1> SUFFICES ASSUME IInv, Ledger, [Next]_vars PROVE Ledger'
  OBVIOUS
<1>1. IInv' /\ \A e : FiredRow(e) => FiredRow(e)'
  BY TypeInductive, Monotone DEF FiredRow
<1>2. \A e \in DOMAIN events : Paged(e) => Paged(e)'
  BY Monotone DEF Paged, Svc
<1>3. \A t \in Task : verdict[t].event \in DOMAIN events \/ ~Deciding(t)
  BY DEF IInv, TypeOK, Locals, Deciding
<1>4. RowsAreOfEvents
  BY DEF IInv
<1>5. (\A e \in DOMAIN events : UNCHANGED events[e]) /\ \A i \in DOMAIN log : UNCHANGED log[i]
  BY Monotone
<1>6. CASE UNCHANGED <<messages, log>> /\ \A t \in Task :
             /\ sends'[t] \subseteq sends[t] /\ heads'[t] \subseteq heads[t]
             /\ (pc'[t] = pc[t] /\ verdict'[t] = verdict[t]) \/ ~Deciding(t)'
  BY <1>1, <1>2, <1>3, <1>4, <1>6 DEF Ledger, RowsAreOfEvents, Deciding
<1>7. ASSUME NEW t \in Task, Step(t) \/ Fail(t) PROVE Ledger'
  <2>1. CASE Correlate(t) \/ Impact(t) \/ SkipWarmUp(t) \/ Routed(t) \/ Grouped(t) \/ HeadlinesSent(t)
    BY <2>1, <1>6 DEF Correlate, Impact, SkipWarmUp, Routed, Grouped, HeadlinesSent, tables, Goto, Set, Deciding,
       IInv, Locals
  <2>2. CASE Done(t) \/ Fail(t)
    BY <2>2, <1>6 DEF Done, Fail, Finish, ClearLocals, tables, Goto, Set, Deciding, IInv, Locals
  <2>3. CASE Decide(t) \/ DecideGroup(t)
    <3>1. /\ UNCHANGED <<messages, log, sends, heads, events>>
          /\ \A u \in Task \ {t} : pc'[u] = pc[u] /\ verdict'[u] = verdict[u]
      BY <2>3 DEF Decide, DecideGroup, tables, Goto, Set, IInv, Locals
    <3>2. verdict'[t].by = Fired => Paged(verdict'[t].event)
      BY <2>3 DEF Decide, DecideGroup, Set, IInv, Locals, Suppression, Fired, Paged
    <3> QED BY <1>1, <1>2, <1>3, <1>4, <3>1, <3>2 DEF Ledger, RowsAreOfEvents, Deciding, Paged, Svc
  <2>4. ASSUME NEW k \in {"status_change", "aggregated_upstream"}, InsertRow(t, k), Deciding(t),
               UNCHANGED <<messages, verdict, events>>, ~Deciding(t)',
               \A u \in Task \ {t} : pc'[u] = pc[u] /\ sends'[u] = sends[u] /\ heads'[u] = heads[u],
               \A e \in sends'[t] \cup heads'[t] : e \in sends[t] \cup heads[t]
                                                   \/ (e = verdict[t].event /\ verdict[t].by = Fired)
        PROVE  Ledger'
    <3>1. /\ DOMAIN log' = (DOMAIN log) \cup {Len(log) + 1} /\ log'[Len(log) + 1] = VerdictRow(t, k)
      BY <2>4, InsertIsRow DEF Deciding
    <3>2. \A e : e = verdict[t].event /\ verdict[t].by = Fired => FiredRow(e)'
      BY <3>1 DEF FiredRow, VerdictRow
    <3>3. \A u \in Task : \A e \in sends'[u] \cup heads'[u] : FiredRow(e)'
      BY <1>1, <2>4, <3>2 DEF Ledger
    <3>4. \A i \in DOMAIN log' : log'[i].by = Fired => Paged(log'[i].event)
      BY <1>5, <2>4, <3>1 DEF Ledger, VerdictRow
    <3>5. \A u \in Task : Deciding(u)' => Deciding(u)
      BY <2>4 DEF Deciding
    <3> QED BY <1>1, <2>4, <3>3, <3>4, <3>5 DEF Ledger, Paged, Svc
  <2>5. CASE Record(t)
    <3>1. InsertRow(t, "status_change")
      BY <2>5 DEF Record
    <3>2. Deciding(t) /\ ~Deciding(t)'
      BY <2>5, RecordEffect DEF Deciding
    <3>3. \A e \in sends'[t] \cup heads'[t] : e \in sends[t] \cup heads[t]
                                             \/ (e = verdict[t].event /\ verdict[t].by = Fired)
      BY <2>5, RecordEffect
    <3>4. \A u \in Task \ {t} : pc'[u] = pc[u] /\ sends'[u] = sends[u] /\ heads'[u] = heads[u]
      BY <2>5, RecordEffect
    <3>5. UNCHANGED <<messages, verdict, events>>
      BY <2>5, RecordEffect
    <3> QED BY <2>4, <3>1, <3>2, <3>3, <3>4, <3>5
  <2>6. CASE RecordGroup(t)
    <3>1. InsertRow(t, "aggregated_upstream")
      BY <2>6 DEF RecordGroup
    <3>2. Deciding(t) /\ ~Deciding(t)'
      BY <2>6, RecordGroupEffect DEF Deciding
    <3>3. \A e \in sends'[t] \cup heads'[t] : e \in sends[t] \cup heads[t]
                                             \/ (e = verdict[t].event /\ verdict[t].by = Fired)
      BY <2>6, RecordGroupEffect
    <3>4. \A u \in Task \ {t} : pc'[u] = pc[u] /\ sends'[u] = sends[u] /\ heads'[u] = heads[u]
      BY <2>6, RecordGroupEffect
    <3>5. UNCHANGED <<messages, verdict, events>>
      BY <2>6, RecordGroupEffect
    <3> QED BY <2>4, <3>1, <3>2, <3>3, <3>4, <3>5
  <2>7. CASE SendHeadline(t) \/ SendSingle(t) \/ SendBatch(t)
    <3>1. /\ UNCHANGED <<log, events>> /\ \A u \in Task : sends'[u] \subseteq sends[u] /\ heads'[u] \subseteq heads[u]
          /\ \A u \in Task : (pc'[u] = pc[u] /\ verdict'[u] = verdict[u]) \/ ~Deciding(u)'
      <4>1. CASE SendHeadline(t) \/ SendSingle(t)
        BY <4>1 DEF SendHeadline, SendSingle, Set, IInv, Locals, tables, Deciding
      <4>2. CASE SendBatch(t)
        BY <4>2 DEF SendBatch, Finish, ClearLocals, Goto, Set, IInv, Locals, tables, Deciding
      <4> QED BY <2>7, <4>1, <4>2
    <3>2. \A m \in messages' : m \in messages \/ m.events \subseteq sends[t] \cup heads[t]
      <4>1. \E m : m.events \subseteq sends[t] \cup heads[t] /\ Post(m)
        BY <2>7 DEF SendHeadline, SendSingle, SendBatch
      <4> QED BY <4>1 DEF Post
    <3> QED BY <1>1, <1>2, <1>3, <1>4, <3>1, <3>2 DEF Ledger, RowsAreOfEvents, Deciding, Paged, Svc
  <2> QED BY <1>7, <2>1, <2>2, <2>3, <2>5, <2>6, <2>7 DEF Step
<1>8. ASSUME NEW t \in Task, NEW n \in Nat \ {0}, NEW changes \in [1..n -> Event], Arrive(t, changes)
      PROVE  Ledger'
  BY <1>6, <1>8, ArriveLocals DEF Deciding
<1>9. CASE Environment
  BY <1>6, <1>9 DEF Environment, Crash, Midnight, Expire, MaintenanceTurns, vars, locals, tables, Deciding
<1> QED BY <1>7, <1>8, <1>9, StepKinds

(* The log is written ahead: whatever operators were told stands in it as  *)
(* fired, whichever posts fail, tasks end or processes die.                *)
THEOREM LogIsWrittenAhead == Spec => []WriteAhead
<1>1. Spec => [](IInv /\ Ledger)
  BY TypeInitially, TypeInductive, LedgerInitially, LedgerInductive, PTL DEF Spec
<1>2. Ledger => WriteAhead
  BY DEF Ledger, WriteAhead, FiredRow
<1> QED BY <1>1, <1>2, PTL

(* "Informational-tier services are never Slack-paged."                    *)
THEOREM InformationalIsNeverPaged == Spec => []InformationalIsQuiet
<1>1. Spec => [](IInv /\ Ledger)
  BY TypeInitially, TypeInductive, LedgerInitially, LedgerInductive, PTL DEF Spec
<1>2. Ledger => InformationalIsQuiet
  BY DEF Ledger, InformationalIsQuiet, FiredRow, Paged
<1> QED BY <1>1, <1>2, PTL

-----------------------------------------------------------------------------
(* The audit trail.                                                        *)

(* Nothing else writes to the log.                                         *)
LEMMA OnlyRecorded ==
  ASSUME IInv, [Next]_vars
  PROVE  UNCHANGED log \/ \E t \in Task : Record(t) \/ RecordGroup(t)
BY StepKinds DEF Step, Fail, Correlate, Impact, SkipWarmUp, Decide, Routed, DecideGroup, Grouped, SendHeadline,
   HeadlinesSent, SendBatch, SendSingle, Done, Arrive, Environment, Crash, Midnight, Expire, MaintenanceTurns,
   vars, tables

(* The changes of a task that it has not been through yet.                 *)
Untouched(t) ==
  IF pc[t] \in {"correlate", "impact"} THEN batch[t]
  ELSE IF pc[t] \in {"route", "record"} THEN todo[t] ELSE {}

Unrecorded(e) == RowsOf(e, "status_change") = {}
Audited(e) == IF WarmUp(e) THEN Unrecorded(e) ELSE \E i : RowsOf(e, "status_change") = {i}

(* Which rows there are after one was written.                             *)
LEMMA RowsGrow ==
  ASSUME NEW n, NEW v, NEW k, DOMAIN log' = (DOMAIN log) \cup {n}, n \notin DOMAIN log,
         log'[n].event = v, log'[n].kind = k, \A i \in DOMAIN log : log'[i] = log[i]
  PROVE  /\ \A e, l : e # v \/ l # k => RowsOf(e, l)' = RowsOf(e, l)
         /\ RowsOf(v, k)' = RowsOf(v, k) \cup {n}
<1>1. ASSUME NEW e, NEW l, e # v \/ l # k PROVE RowsOf(e, l)' = RowsOf(e, l)
  <2>1. ASSUME NEW i PROVE i \in RowsOf(e, l)' <=> i \in RowsOf(e, l)
    BY <1>1 DEF RowsOf
  <2> QED BY <2>1 DEF RowsOf
<1>2. RowsOf(v, k)' = RowsOf(v, k) \cup {n}
  <2>1. ASSUME NEW i PROVE i \in RowsOf(v, k)' <=> i \in RowsOf(v, k) \cup {n}
    BY DEF RowsOf
  <2> QED BY <2>1 DEF RowsOf
<1> QED BY <1>1, <1>2

(* A change is one task's, and has its row once the task has been through  *)
(* it.                                                                     *)
Apart ==
  /\ \A t, u \in Task : t # u => batch[t] \cap batch[u] = {}
  /\ \A t \in Task : batch[t] \cap finished = {}

Audit ==
  /\ \A t \in Task : \A e \in Untouched(t) : Unrecorded(e)
  /\ \A t \in Task : \A e \in batch[t] \ Untouched(t) : Audited(e)
  /\ \A e \in finished : Audited(e)

(* A warm-up is skipped before a decision is made of it.                   *)
Decided(t) == {e \in DOMAIN events : e = verdict[t].event}
Chosen == \A t \in Task : pc[t] = "record" => \A e \in Decided(t) : ~WarmUp(e)

AuditInv == Apart /\ Audit /\ Chosen

LEMMA AuditInitially == Init => AuditInv
BY DEF Init, AuditInv, Audit, Apart, Untouched, Chosen

LEMMA ApartInductive == IInv /\ Apart /\ [Next]_vars => Apart'
<1> SUFFICES ASSUME IInv, Apart, [Next]_vars PROVE Apart'
  OBVIOUS
<1>1. finished \subseteq DOMAIN events /\ \A t \in Task : batch[t] \subseteq DOMAIN events
  BY DEF IInv, TypeOK
<1>2. ASSUME NEW t \in Task, Step(t) \/ Fail(t) PROVE Apart'
  <2>1. \A u \in Task \ {t} : batch'[u] = batch[u]
    BY <1>2, OwnLocals
  <2>2. \/ batch'[t] = batch[t] /\ finished' = finished
        \/ batch'[t] = {} /\ finished' \subseteq finished \cup batch[t]
    BY <1>2 DEF Step, Fail, Correlate, Impact, SkipWarmUp, Decide, Record, Routed, DecideGroup, RecordGroup,
       Grouped, SendHeadline, HeadlinesSent, SendBatch, SendSingle, Done, Finish, ClearLocals, Set, IInv, Locals
  <2> QED BY <2>1, <2>2 DEF Apart
<1>3. ASSUME NEW t \in Task, NEW n \in Nat \ {0}, NEW changes \in [1..n -> Event], Arrive(t, changes)
      PROVE  Apart'
  <2>1. finished' = finished /\ batch'[t] \cap DOMAIN events = {} /\ \A u \in Task \ {t} : batch'[u] = batch[u]
    BY <1>3, ArriveFacts, ArriveLocals
  <2> QED BY <1>1, <2>1 DEF Apart
<1>4. CASE Environment
  BY <1>4 DEF Environment, Crash, Midnight, Expire, MaintenanceTurns, vars, locals, Apart
<1> QED BY <1>2, <1>3, <1>4, StepKinds

LEMMA ChosenInductive == IInv /\ Chosen /\ [Next]_vars => Chosen'
<1> SUFFICES ASSUME IInv, Chosen, [Next]_vars, NEW t \in Task, pc'[t] = "record",
                    NEW e \in Decided(t)'
             PROVE  ~WarmUp(e)'
  BY DEF Chosen
<1>1. \A f \in DOMAIN events : WarmUp(f)' = WarmUp(f)
  BY Monotone DEF WarmUp
<1>2. CASE pc[t] = "record" /\ verdict'[t] = verdict[t]
  BY <1>1, <1>2 DEF Chosen, Decided, IInv, TypeOK, Locals
<1>3. CASE Decide(t)
  <2>1. \E f \in todo[t] : ~WarmUp(f) /\ verdict'[t].event = f
    BY <1>3 DEF Decide, Set, IInv, Locals
  <2> QED BY <1>1, <2>1 DEF Decided, IInv, TypeOK
<1>4. CASE \E u \in Task : Step(u) \/ Fail(u)
  <2>1. PICK u \in Task : Step(u) \/ Fail(u)
    BY <1>4
  <2>2. CASE u # t
    BY <1>2, <2>1, <2>2, OwnLocals
  <2>3. CASE u = t
    BY <1>2, <1>3, <2>1, <2>3 DEF Step, Fail, Correlate, Impact, SkipWarmUp, Record, Routed, DecideGroup, RecordGroup,
       Grouped, SendHeadline, HeadlinesSent, SendBatch, SendSingle, Done, Finish, ClearLocals, Goto, Set, IInv, Locals
  <2> QED BY <2>2, <2>3
<1>5. ASSUME NEW u \in Task, NEW n \in Nat \ {0}, NEW changes \in [1..n -> Event], Arrive(u, changes)
      PROVE  ~WarmUp(e)'
  BY <1>2, <1>5, ArriveLocals
<1>6. CASE Environment
  BY <1>2, <1>6 DEF Environment, Crash, Midnight, Expire, MaintenanceTurns, vars, locals
<1> QED BY <1>4, <1>5, <1>6, StepKinds

LEMMA AuditInductive == IInv /\ AuditInv /\ [Next]_vars => Audit'
<1> SUFFICES ASSUME IInv, AuditInv, [Next]_vars PROVE Audit'
  OBVIOUS
<1> USE DEF AuditInv
<1>1. \A e \in DOMAIN events : WarmUp(e)' = WarmUp(e)
  BY Monotone DEF WarmUp
<1>2. \A t \in Task : batch[t] \subseteq DOMAIN events /\ todo[t] \subseteq batch[t] /\ Untouched(t) \subseteq batch[t]
  BY DEF IInv, TypeOK, Untouched
<1>3. finished \subseteq DOMAIN events
  BY DEF IInv, TypeOK
<1>4. ASSUME NEW e \in DOMAIN events, RowsOf(e, "status_change")' = RowsOf(e, "status_change")
      PROVE  (Audited(e) => Audited(e)') /\ (Unrecorded(e) => Unrecorded(e)')
  BY <1>1, <1>4 DEF Audited, Unrecorded
<1>5. CASE UNCHANGED log
  <2>1. \A e \in DOMAIN events : (Audited(e) => Audited(e)') /\ (Unrecorded(e) => Unrecorded(e)')
    BY <1>4, <1>5 DEF RowsOf
  <2>2. CASE UNCHANGED finished /\ \A t \in Task : \/ batch'[t] = batch[t] /\ Untouched(t)' = Untouched(t)
                                                   \/ batch'[t] = {} /\ Untouched(t)' = {}
    <3>1. \A t \in Task : \A e \in Untouched(t)' : Unrecorded(e)'
      BY <1>2, <2>1, <2>2 DEF Audit
    <3>2. \A t \in Task : \A e \in batch'[t] \ Untouched(t)' : Audited(e)'
      BY <1>2, <2>1, <2>2 DEF Audit
    <3>3. \A e \in finished' : Audited(e)'
      BY <1>3, <2>1, <2>2 DEF Audit
    <3> QED BY <3>1, <3>2, <3>3 DEF Audit
  <2>3. ASSUME NEW t \in Task, SkipWarmUp(t) PROVE Audit'
    <3>1. PICK e \in todo[t] : WarmUp(e) /\ todo' = [todo EXCEPT ![t] = todo[t] \ {e}]
      BY <2>3 DEF SkipWarmUp, Set
    <3>2. UNCHANGED <<finished, batch, pc>> /\ pc[t] = "route"
      BY <2>3 DEF SkipWarmUp
    <3>3. /\ Untouched(t) = todo[t] /\ Untouched(t)' = todo[t] \ {e}
          /\ \A u \in Task \ {t} : Untouched(u)' = Untouched(u)
      BY <3>1, <3>2 DEF Untouched, IInv, Locals
    <3>4. Audited(e)
      BY <3>1, <3>3 DEF Audit, Audited
    <3>5. \A u \in Task : \A f \in Untouched(u)' : Unrecorded(f)'
      BY <1>2, <2>1, <3>3 DEF Audit
    <3>6. \A u \in Task : \A f \in batch'[u] \ Untouched(u)' : Audited(f)'
      BY <1>2, <2>1, <3>2, <3>3, <3>4 DEF Audit
    <3>7. \A f \in finished' : Audited(f)'
      BY <1>3, <2>1, <3>2 DEF Audit
    <3> QED BY <3>5, <3>6, <3>7 DEF Audit
  <2>4. ASSUME NEW t \in Task, SendBatch(t) \/ Done(t) PROVE Audit'
    <3>1. /\ batch'[t] = {} /\ Untouched(t)' = {} /\ Untouched(t) = {} /\ finished' = finished \cup batch[t]
          /\ \A u \in Task \ {t} : Untouched(u)' = Untouched(u) /\ batch'[u] = batch[u]
      BY <2>4 DEF SendBatch, Done, Finish, ClearLocals, Goto, Set, Untouched, IInv, Locals
    <3>2. \A u \in Task : \A e \in Untouched(u)' : Unrecorded(e)'
      BY <1>2, <2>1, <3>1 DEF Audit
    <3>3. \A u \in Task : \A e \in batch'[u] \ Untouched(u)' : Audited(e)'
      BY <1>2, <2>1, <3>1 DEF Audit
    <3>4. \A e \in finished' : Audited(e)'
      BY <1>2, <1>3, <2>1, <3>1 DEF Audit
    <3> QED BY <3>2, <3>3, <3>4 DEF Audit
  <2>5. ASSUME NEW t \in Task, Step(t) \/ Fail(t) PROVE Audit'
    <3>0. \A u \in Task \ {t} : batch'[u] = batch[u] /\ Untouched(u)' = Untouched(u)
      BY <2>5, OwnLocals DEF Untouched
    <3>1. CASE Fail(t)
      BY <2>2, <3>0, <3>1 DEF Fail, ClearLocals, Goto, Set, Untouched, IInv, Locals
    <3>2. CASE Correlate(t) \/ Impact(t) \/ Decide(t)
      BY <2>2, <3>0, <3>2 DEF Correlate, Impact, Decide, Untouched, Goto, Set, IInv, Locals
    <3>3. CASE Routed(t) \/ DecideGroup(t) \/ Grouped(t) \/ SendHeadline(t) \/ HeadlinesSent(t) \/ SendSingle(t)
      BY <2>2, <3>0, <3>3 DEF Routed, DecideGroup, Grouped, SendHeadline, HeadlinesSent, SendSingle, Untouched,
         Goto, Set, IInv, Locals
    <3>4. ~Record(t) /\ ~RecordGroup(t)
      BY <1>5, RecordEffect, RecordGroupEffect
    <3> QED BY <2>3, <2>4, <2>5, <3>1, <3>2, <3>3, <3>4 DEF Step
  <2>6. ASSUME NEW t \in Task, NEW n \in Nat \ {0}, NEW changes \in [1..n -> Event], Arrive(t, changes)
        PROVE  Audit'
    <3>1. UNCHANGED finished /\ batch'[t] \cap DOMAIN events = {} /\ Untouched(t)' = batch'[t]
      BY <2>6, ArriveFacts, ArriveLocals DEF Untouched
    <3>2. \A u \in Task \ {t} : batch'[u] = batch[u] /\ Untouched(u)' = Untouched(u)
      BY <2>6, ArriveLocals DEF Untouched
    <3>3. \A e \in batch'[t] : Unrecorded(e)'
      BY <1>5, <3>1 DEF Unrecorded, RowsOf, IInv, RowsAreOfEvents
    <3>4. \A u \in Task : \A e \in Untouched(u)' : Unrecorded(e)'
      BY <1>2, <2>1, <3>1, <3>2, <3>3 DEF Audit
    <3>5. \A u \in Task : \A e \in batch'[u] \ Untouched(u)' : Audited(e)'
      BY <1>2, <2>1, <3>1, <3>2 DEF Audit
    <3>6. \A e \in finished' : Audited(e)'
      BY <1>3, <2>1, <3>1 DEF Audit
    <3> QED BY <3>4, <3>5, <3>6 DEF Audit
  <2>7. CASE Environment
    <3>1. CASE Crash
      BY <2>2, <3>1 DEF Crash, Untouched
    <3>2. CASE UNCHANGED <<finished, locals>>
      BY <2>2, <3>2 DEF Untouched, locals
    <3> QED BY <2>7, <3>1, <3>2 DEF Environment, Midnight, Expire, MaintenanceTurns, vars
  <2> QED BY <2>5, <2>6, <2>7, StepKinds
<1>6. ASSUME NEW t \in Task, RecordGroup(t) PROVE Audit'
  <2>1. \A e : RowsOf(e, "status_change")' = RowsOf(e, "status_change")
    <3>1. PICK v, n : v = verdict[t].event /\ n = Len(log) + 1
      OBVIOUS
    <3>2. /\ DOMAIN log' = (DOMAIN log) \cup {n} /\ n \notin DOMAIN log /\ \A i \in DOMAIN log : log'[i] = log[i]
          /\ log'[n].event = v /\ log'[n].kind = "aggregated_upstream"
      <4>1. /\ DOMAIN log' = (DOMAIN log) \cup {n} /\ n \notin DOMAIN log /\ \A i \in DOMAIN log : log'[i] = log[i]
        BY <1>6, <3>1, RecordGroupEffect
      <4>2. log'[n] = VerdictRow(t, "aggregated_upstream")
        BY <1>6, <3>1, RecordGroupEffect
      <4> QED BY <4>1, <4>2, <1>6, <3>1, VerdictRowFields
    <3> QED BY <3>2, RowsGrow
  <2>2. UNCHANGED <<finished, batch>> /\ \A u \in Task : Untouched(u)' = Untouched(u)
    BY <1>6, RecordGroupEffect DEF Untouched
  <2>3. \A e \in DOMAIN events : (Audited(e) => Audited(e)') /\ (Unrecorded(e) => Unrecorded(e)')
    BY <1>4, <2>1
  <2>4. \A u \in Task : \A e \in Untouched(u)' : Unrecorded(e)'
    BY <1>2, <2>2, <2>3 DEF Audit
  <2>5. \A u \in Task : \A e \in batch'[u] \ Untouched(u)' : Audited(e)'
    BY <1>2, <2>2, <2>3 DEF Audit
  <2>6. \A e \in finished' : Audited(e)'
    BY <1>3, <2>2, <2>3 DEF Audit
  <2> QED BY <2>4, <2>5, <2>6 DEF Audit
<1>7. ASSUME NEW t \in Task, Record(t) PROVE Audit'
  <2>1. PICK v : v = verdict[t].event
    OBVIOUS
  <2>2. v \in todo[t] /\ v \in DOMAIN events /\ ~WarmUp(v) /\ RowsOf(v, "status_change") = {}
    BY <1>2, <1>7, <2>1, RecordEffect DEF Audit, Untouched, Unrecorded, Chosen, Decided
  <2>3. /\ \E n : RowsOf(v, "status_change")' = {n}
        /\ \A e : e # v => RowsOf(e, "status_change")' = RowsOf(e, "status_change")
    <3>1. PICK n : n = Len(log) + 1
      OBVIOUS
    <3>2. /\ DOMAIN log' = (DOMAIN log) \cup {n} /\ n \notin DOMAIN log /\ \A i \in DOMAIN log : log'[i] = log[i]
          /\ log'[n].event = v /\ log'[n].kind = "status_change"
      <4>1. /\ DOMAIN log' = (DOMAIN log) \cup {n} /\ n \notin DOMAIN log /\ \A i \in DOMAIN log : log'[i] = log[i]
        BY <1>7, <2>1, <3>1, RecordEffect
      <4>2. log'[n] = VerdictRow(t, "status_change")
        BY <1>7, <2>1, <3>1, RecordEffect
      <4> QED BY <4>1, <4>2, <1>7, <2>1, <3>1, VerdictRowFields
    <3>3. RowsOf(v, "status_change")' = RowsOf(v, "status_change") \cup {n}
      BY <3>2, RowsGrow
    <3>4. \A e : e # v => RowsOf(e, "status_change")' = RowsOf(e, "status_change")
      BY <3>2, RowsGrow
    <3> QED BY <2>2, <3>3, <3>4
  <2>4. /\ UNCHANGED <<finished, batch>> /\ Untouched(t) = todo[t] /\ Untouched(t)' = todo[t] \ {v}
        /\ \A u \in Task \ {t} : Untouched(u)' = Untouched(u)
    BY <1>7, <2>1, RecordEffect DEF Untouched
  <2>5. Audited(v)'
    BY <1>1, <2>2, <2>3 DEF Audited
  <2>6. \A e \in DOMAIN events : e # v => (Audited(e) => Audited(e)') /\ (Unrecorded(e) => Unrecorded(e)')
    BY <1>4, <2>3
  <2>7. v \notin finished /\ \A u \in Task \ {t} : v \notin batch[u]
    BY <1>2, <2>2 DEF Apart
  <2>8. \A u \in Task : \A e \in Untouched(u)' : Unrecorded(e)'
    BY <1>2, <2>4, <2>6, <2>7 DEF Audit
  <2>9. \A u \in Task : \A e \in batch'[u] \ Untouched(u)' : Audited(e)'
    BY <1>2, <2>4, <2>5, <2>6, <2>7 DEF Audit
  <2>10. \A e \in finished' : Audited(e)'
    BY <1>3, <2>4, <2>6, <2>7 DEF Audit
  <2> QED BY <2>8, <2>9, <2>10 DEF Audit
<1>8. UNCHANGED log \/ \E t \in Task : Record(t) \/ RecordGroup(t)
  BY OnlyRecorded
<1> QED BY <1>5, <1>6, <1>7, <1>8

LEMMA Audits == Spec => [](IInv /\ AuditInv)
<1>1. IInv /\ AuditInv /\ [Next]_vars => (IInv /\ AuditInv)'
  BY TypeInductive, ApartInductive, ChosenInductive, AuditInductive DEF AuditInv
<1> QED BY <1>1, TypeInitially, AuditInitially, PTL DEF Spec

(* Every change that was processed to the end has exactly one row that     *)
(* says whether it was alerted and, if not, why; a warm-up has none.       *)
THEOREM EveryChangeIsAudited == Spec => []AuditTrail
<1>1. AuditInv => AuditTrail
  BY FS_EmptySet, FS_Singleton DEF AuditInv, Audit, Audited, Unrecorded, AuditTrail
<1> QED BY <1>1, Audits, PTL

-----------------------------------------------------------------------------
(* Headlines.                                                              *)

Down(t)     == Affected(batch[t])
Deps(t, u)  == Dependents(u, batch[t])
Ups(t)      == Upstreams(batch[t])
Silenced(t) == Aggregated(batch[t])

(* What a batch amounts to does not change while the batch is processed.   *)
LEMMA SameBatch ==
  ASSUME IInv, [Next]_vars, NEW t \in Task, batch'[t] = batch[t]
  PROVE  /\ \A u \in Ups(t) : Deps(t, u)' = Deps(t, u)
         /\ Ups(t)' = Ups(t) /\ Silenced(t)' = Silenced(t)
<1>0. batch[t] \subseteq DOMAIN events
  BY DEF IInv, TypeOK
<1>1. Down(t)' = Down(t)
  <2>1. \A e : e \in Down(t)' <=> e \in Down(t)
    BY <1>0, Monotone DEF Down, Affected
  <2> QED BY <2>1 DEF Down, Affected
<1>2. \A e \in Down(t) : Svc(e)' = Svc(e)
  BY <1>0, Monotone DEF Down, Affected, Svc
<1>3. ASSUME NEW u \in Down(t) PROVE Deps(t, u)' = Deps(t, u)
  <2>1. \A e : e \in Deps(t, u)' <=> e \in Deps(t, u)
    BY <1>1, <1>2, <1>3 DEF Deps, Dependents, Down
  <2> QED BY <2>1 DEF Deps, Dependents
<1>4. Ups(t)' = Ups(t)
  <2>1. \A u : u \in Ups(t)' <=> u \in Ups(t)
    BY <1>1, <1>3 DEF Ups, Upstreams, Deps, Down
  <2> QED BY <2>1 DEF Ups, Upstreams
<1>5. Ups(t) \subseteq Down(t)
  BY DEF Ups, Upstreams, Down
<1>6. Silenced(t)' = Silenced(t)
  <2>1. \A e : e \in Silenced(t) <=> \E u \in Ups(t) : e \in Deps(t, u)
    BY DEF Silenced, Aggregated, Ups, Deps
  <2>2. \A e : e \in Silenced(t)' <=> \E u \in Ups(t)' : e \in Deps(t, u)'
    BY DEF Silenced, Aggregated, Ups, Deps
  <2>3. \A e : e \in Silenced(t)' <=> e \in Silenced(t)
    BY <1>3, <1>4, <1>5, <2>1, <2>2
  <2> QED BY <2>3 DEF Silenced, Aggregated
<1> QED BY <1>3, <1>4, <1>5, <1>6

HeadRow(u)   == RowsOf(u, "aggregated_upstream") # {}
SilentRow(e) == \E i \in RowsOf(e, "status_change") : log[i].by = "aggregated_under_upstream"
Follows(e, u) == <<Svc(u), Svc(e)>> \in Depends /\ u # e /\ events[u].to # "operational"

(* An upstream is still to be routed as the headline, or it has its row;   *)
(* whoever was silenced, or will be, is one of its dependents.             *)
Headline ==
  /\ \A t \in Task : pc[t] \in {"headlines", "singles"} => groups[t] = {}
  /\ \A t \in Task : \A u \in Ups(t) : pc[t] = "correlate" \/ u \in groups[t] \/ HeadRow(u)
  /\ \A t \in Task : pc[t] = "record" /\ verdict[t].by = "aggregated_under_upstream"
                       => \A e \in Decided(t) : e \in Silenced(t)
  /\ \A t \in Task : \A e \in batch[t] : SilentRow(e) => e \in Silenced(t)
  /\ \A e \in finished : SilentRow(e) => \E u \in finished : Follows(e, u) /\ HeadRow(u)

LEMMA HeadlineInitially == Init => Headline
<1> SUFFICES ASSUME Init PROVE Headline
  OBVIOUS
<1>1. \A t \in Task : batch[t] = {} /\ pc[t] = "idle" /\ Ups(t) = {}
  BY DEF Init, Ups, Upstreams, Affected
<1> QED BY <1>1 DEF Init, Headline

LEMMA HeadlineInductive == IInv /\ AuditInv /\ Headline /\ [Next]_vars => Headline'
<1> SUFFICES ASSUME IInv, AuditInv, Headline, [Next]_vars PROVE Headline'
  OBVIOUS
<1>1. \A t \in Task : batch[t] \subseteq DOMAIN events /\ Ups(t) \subseteq batch[t] /\ Silenced(t) \subseteq batch[t]
  BY DEF IInv, TypeOK, Ups, Upstreams, Affected, Silenced, Aggregated, Dependents
<1>2. finished \subseteq DOMAIN events /\ \A e, u \in DOMAIN events : Follows(e, u)' <=> Follows(e, u)
  BY Monotone DEF IInv, TypeOK, Follows, Svc
<1>3. \A t \in Task : batch'[t] = batch[t] => (Ups(t)' = Ups(t) /\ Silenced(t)' = Silenced(t))
  BY SameBatch
<1>4. \A t \in Task : batch'[t] = {} => Ups(t)' = {}
  BY DEF Ups, Upstreams, Affected
<1>5. CASE UNCHANGED log
  <2>1. (\A u : HeadRow(u)' <=> HeadRow(u)) /\ \A e : SilentRow(e)' <=> SilentRow(e)
    BY <1>5 DEF HeadRow, SilentRow, RowsOf
  <2>2. finished' = finished => \A e \in finished' : SilentRow(e)' => \E u \in finished' : Follows(e, u)' /\ HeadRow(u)'
    BY <1>2, <2>1 DEF Headline
  <2>3. ASSUME NEW t \in Task, batch'[t] = batch[t]
        PROVE  \A e \in batch'[t] : SilentRow(e)' => e \in Silenced(t)'
    BY <1>3, <2>1, <2>3 DEF Headline
  <2>4. ASSUME NEW t \in Task, batch'[t] = batch[t], groups'[t] = groups[t], pc'[t] = pc[t]
        PROVE  /\ pc'[t] \in {"headlines", "singles"} => groups'[t] = {}
               /\ \A u \in Ups(t)' : pc'[t] = "correlate" \/ u \in groups'[t] \/ HeadRow(u)'
    BY <1>3, <2>1, <2>4 DEF Headline
  <2>5. ASSUME NEW t \in Task, batch'[t] = batch[t], verdict'[t] = verdict[t], pc'[t] = "record" => pc[t] = "record"
        PROVE  pc'[t] = "record" /\ verdict'[t].by = "aggregated_under_upstream"
                 => \A e \in Decided(t)' : e \in Silenced(t)'
    <3>1. pc[t] = "record" => Decided(t)' \subseteq Decided(t)
      BY <2>5, <1>1 DEF Decided, IInv, TypeOK, Locals
    <3> QED BY <1>3, <2>5, <3>1 DEF Headline
  <2>6. ASSUME NEW t \in Task, batch'[t] = {}, pc'[t] = "idle"
        PROVE  /\ pc'[t] \in {"headlines", "singles"} => groups'[t] = {}
               /\ \A u \in Ups(t)' : pc'[t] = "correlate" \/ u \in groups'[t] \/ HeadRow(u)'
               /\ pc'[t] = "record" /\ verdict'[t].by = "aggregated_under_upstream"
                    => \A e \in Decided(t)' : e \in Silenced(t)'
               /\ \A e \in batch'[t] : SilentRow(e)' => e \in Silenced(t)'
    BY <1>4, <2>6
  <2>7. ASSUME NEW t \in Task, Step(t) \/ Fail(t) PROVE Headline'
    <3>0. \A u \in Task \ {t} : /\ batch'[u] = batch[u] /\ groups'[u] = groups[u] /\ pc'[u] = pc[u]
                                /\ verdict'[u] = verdict[u]
      BY <2>7, OwnLocals
    <3>1. ASSUME finished' = finished, batch'[t] = batch[t],
                 pc'[t] \in {"headlines", "singles"} => groups'[t] = {},
                 \A u \in Ups(t)' : pc'[t] = "correlate" \/ u \in groups'[t] \/ HeadRow(u)',
                 pc'[t] = "record" /\ verdict'[t].by = "aggregated_under_upstream"
                    => \A e \in Decided(t)' : e \in Silenced(t)'
          PROVE  Headline'
      BY <2>2, <2>3, <2>4, <2>5, <3>0, <3>1 DEF Headline
    <3>2. CASE Fail(t)
      <4>1. finished' = finished /\ batch'[t] = {} /\ pc'[t] = "idle"
        BY <3>2 DEF Fail, ClearLocals, Goto, Set, IInv, Locals
      <4> QED BY <2>2, <2>3, <2>4, <2>5, <2>6, <3>0, <4>1 DEF Headline
    <3>3. CASE SendBatch(t) \/ Done(t)
      <4>1. /\ finished' = finished \cup batch[t] /\ batch'[t] = {} /\ pc'[t] = "idle"
            /\ pc[t] = "singles" /\ groups[t] = {}
        BY <3>3 DEF SendBatch, Done, Finish, ClearLocals, Goto, Set, IInv, Locals, Headline
      <4>2. ASSUME NEW e \in batch[t], SilentRow(e)'
            PROVE  \E u \in finished' : Follows(e, u)' /\ HeadRow(u)'
        <5>1. e \in Silenced(t)
          BY <2>1, <4>2 DEF Headline
        <5>2. PICK u \in Ups(t) : e \in Deps(t, u)
          BY <5>1 DEF Silenced, Aggregated, Ups, Deps
        <5>3. HeadRow(u) /\ u \in batch[t] /\ Follows(e, u)
          BY <1>1, <4>1, <5>2 DEF Headline, Deps, Dependents, Follows, Ups, Upstreams, Affected
        <5> QED BY <1>1, <1>2, <2>1, <4>1, <5>3
      <4>3. \A e \in finished : SilentRow(e)' => \E u \in finished' : Follows(e, u)' /\ HeadRow(u)'
        BY <1>2, <2>1, <4>1 DEF Headline
      <4> QED BY <2>3, <2>4, <2>5, <2>6, <3>0, <4>1, <4>2, <4>3 DEF Headline
    <3>4. CASE Correlate(t)
      <4>1. /\ groups'[t] = Ups(t) /\ pc'[t] = "impact" /\ finished' = finished /\ batch'[t] = batch[t]
        BY <3>4 DEF Correlate, Ups, Goto, Set, IInv, Locals
      <4> QED BY <1>3, <3>1, <4>1
    <3>5. CASE Decide(t)
      <4>1. /\ UNCHANGED <<groups, finished, batch>> /\ pc'[t] = "record" /\ pc[t] = "route"
        BY <3>5 DEF Decide, Goto, Set, IInv, Locals
      <4>2. verdict'[t].by = "aggregated_under_upstream" => verdict'[t].event \in Silenced(t)
        BY <3>5 DEF Decide, Set, Suppression, Silenced, Fired, IInv, Locals
      <4> QED BY <1>3, <2>1, <3>1, <4>1, <4>2 DEF Headline, Decided
    <3>6. CASE Impact(t) \/ SkipWarmUp(t) \/ Routed(t) \/ DecideGroup(t) \/ Grouped(t) \/ SendHeadline(t)
               \/ HeadlinesSent(t) \/ SendSingle(t)
      <4>1. /\ UNCHANGED <<groups, finished, batch>> /\ pc'[t] # "record" /\ pc'[t] # "correlate" /\ pc[t] # "correlate"
            /\ pc'[t] \in {"headlines", "singles"} => (pc[t] \in {"headlines", "singles"} \/ groups[t] = {})
        BY <3>6 DEF Impact, SkipWarmUp, Routed, DecideGroup, Grouped, SendHeadline, HeadlinesSent, SendSingle, Goto, Set,
           IInv, Locals
      <4> QED BY <1>3, <2>1, <3>1, <4>1 DEF Headline
    <3>7. ~Record(t) /\ ~RecordGroup(t)
      BY <1>5, RecordEffect, RecordGroupEffect
    <3> QED BY <2>7, <3>2, <3>3, <3>4, <3>5, <3>6, <3>7 DEF Step
  <2>8. ASSUME NEW t \in Task, NEW n \in Nat \ {0}, NEW changes \in [1..n -> Event], Arrive(t, changes)
        PROVE  Headline'
    <3>1. /\ finished' = finished /\ pc'[t] = "correlate" /\ batch'[t] \cap DOMAIN events = {}
          /\ \A u \in Task \ {t} : /\ batch'[u] = batch[u] /\ groups'[u] = groups[u] /\ pc'[u] = pc[u]
                                   /\ verdict'[u] = verdict[u]
      BY <2>8, ArriveFacts, ArriveLocals
    <3>2. \A e \in batch'[t] : ~SilentRow(e)'
      BY <2>1, <3>1 DEF SilentRow, RowsOf, IInv, RowsAreOfEvents
    <3> QED BY <2>2, <2>3, <2>4, <2>5, <3>1, <3>2 DEF Headline
  <2>9. CASE Environment
    <3>1. CASE Crash
      BY <2>2, <2>6, <3>1 DEF Crash, Headline
    <3>2. CASE UNCHANGED <<finished, locals>>
      <4>1. \A t \in Task : batch'[t] = batch[t] /\ groups'[t] = groups[t] /\ pc'[t] = pc[t] /\ verdict'[t] = verdict[t]
        BY <3>2 DEF locals
      <4> QED BY <2>2, <2>3, <2>4, <2>5, <3>2, <4>1 DEF Headline
    <3> QED BY <2>9, <3>1, <3>2 DEF Environment, Midnight, Expire, MaintenanceTurns, vars
  <2> QED BY <2>7, <2>8, <2>9, StepKinds
<1>6. ASSUME NEW t \in Task, Record(t) PROVE Headline'
  <2>1. PICK v, n : v = verdict[t].event /\ n = Len(log) + 1
    OBVIOUS
  <2>2. v \in todo[t] /\ v \in batch[t] /\ RowsOf(v, "status_change") = {}
    BY <1>6, <2>1, RecordEffect DEF AuditInv, Audit, Untouched, Unrecorded, IInv, TypeOK
  <2>3. /\ DOMAIN log' = (DOMAIN log) \cup {n} /\ n \notin DOMAIN log /\ \A i \in DOMAIN log : log'[i] = log[i]
        /\ log'[n] = VerdictRow(t, "status_change")
    BY <1>6, <2>1, RecordEffect
  <2>4. log'[n].event = v /\ log'[n].kind = "status_change" /\ log'[n].by = verdict[t].by
    BY <2>1, <2>3, VerdictRowFields
  <2>5. /\ \A e, l : e # v \/ l # "status_change" => RowsOf(e, l)' = RowsOf(e, l)
        /\ RowsOf(v, "status_change")' = RowsOf(v, "status_change") \cup {n}
    BY <2>3, <2>4, RowsGrow
  <2>6. \A u : HeadRow(u)' <=> HeadRow(u)
    BY <2>5 DEF HeadRow
  <2>7. \A e : e # v => (SilentRow(e)' <=> SilentRow(e))
    BY <2>3, <2>5 DEF SilentRow, RowsOf
  <2>8. SilentRow(v)' => v \in Silenced(t)
    <3>1. SilentRow(v)' => verdict[t].by = "aggregated_under_upstream"
      BY <2>2, <2>4, <2>5 DEF SilentRow
    <3>2. v \in Decided(t) /\ pc[t] = "record"
      BY <1>1, <1>6, <2>1, <2>2, RecordEffect DEF Decided
    <3> QED BY <3>1, <3>2 DEF Headline
  <2>9. v \notin finished /\ \A u \in Task \ {t} : v \notin batch[u]
    BY <2>2 DEF AuditInv, Apart
  <2>10. /\ UNCHANGED <<batch, groups, finished, verdict>> /\ pc[t] = "record" /\ pc'[t] = "route"
         /\ \A u \in Task \ {t} : pc'[u] = pc[u]
    BY <1>6, RecordEffect
  <2>11. \A u \in Task : \A e \in batch'[u] : SilentRow(e)' => e \in Silenced(u)'
    BY <1>3, <2>7, <2>8, <2>9, <2>10 DEF Headline
  <2>12. \A e \in finished' : SilentRow(e)' => \E u \in finished' : Follows(e, u)' /\ HeadRow(u)'
    BY <1>2, <2>6, <2>7, <2>9, <2>10 DEF Headline
  <2>13. \A u \in Task : pc'[u] = "record" /\ verdict'[u].by = "aggregated_under_upstream"
                            => \A e \in Decided(u)' : e \in Silenced(u)'
    BY <1>3, <1>6, <2>10, RecordEffect DEF Headline, Decided
  <2>14. \A u \in Task : \A w \in Ups(u)' : pc'[u] = "correlate" \/ w \in groups'[u] \/ HeadRow(w)'
    BY <1>3, <2>6, <2>10 DEF Headline
  <2> QED BY <2>10, <2>11, <2>12, <2>13, <2>14 DEF Headline
<1>7. ASSUME NEW t \in Task, RecordGroup(t) PROVE Headline'
  <2>1. PICK v, n : v = verdict[t].event /\ n = Len(log) + 1
    OBVIOUS
  <2>2. /\ DOMAIN log' = (DOMAIN log) \cup {n} /\ n \notin DOMAIN log /\ \A i \in DOMAIN log : log'[i] = log[i]
        /\ log'[n] = VerdictRow(t, "aggregated_upstream")
    BY <1>7, <2>1, RecordGroupEffect
  <2>3. log'[n].event = v /\ log'[n].kind = "aggregated_upstream"
    BY <2>1, <2>2, VerdictRowFields
  <2>4. /\ \A e, l : e # v \/ l # "aggregated_upstream" => RowsOf(e, l)' = RowsOf(e, l)
        /\ RowsOf(v, "aggregated_upstream")' = RowsOf(v, "aggregated_upstream") \cup {n}
    BY <2>2, <2>3, RowsGrow
  <2>5. HeadRow(v)' /\ \A u : HeadRow(u) => HeadRow(u)'
    BY <2>4 DEF HeadRow
  <2>6. \A e : SilentRow(e)' <=> SilentRow(e)
    BY <2>2, <2>4 DEF SilentRow, RowsOf
  <2>7. /\ UNCHANGED <<batch, finished, verdict>> /\ pc[t] = "grouprecord" /\ pc'[t] = "group"
        /\ groups'[t] = groups[t] \ {v} /\ \A u \in Task \ {t} : pc'[u] = pc[u] /\ groups'[u] = groups[u]
    BY <1>7, <2>1, RecordGroupEffect
  <2>8. \A u \in Task : \A e \in batch'[u] : SilentRow(e)' => e \in Silenced(u)'
    BY <1>3, <2>6, <2>7 DEF Headline
  <2>9. \A e \in finished' : SilentRow(e)' => \E u \in finished' : Follows(e, u)' /\ HeadRow(u)'
    BY <1>2, <2>5, <2>6, <2>7 DEF Headline
  <2>10. \A u \in Task : pc'[u] = "record" /\ verdict'[u].by = "aggregated_under_upstream"
                            => \A e \in Decided(u)' : e \in Silenced(u)'
    BY <1>3, <1>7, <2>7, RecordGroupEffect DEF Headline, Decided
  <2>11. \A u \in Task : \A w \in Ups(u)' : pc'[u] = "correlate" \/ w \in groups'[u] \/ HeadRow(w)'
    BY <1>3, <2>5, <2>7 DEF Headline
  <2>12. \A u \in Task : pc'[u] \in {"headlines", "singles"} => groups'[u] = {}
    BY <2>7 DEF Headline
  <2> QED BY <2>8, <2>9, <2>10, <2>11, <2>12 DEF Headline
<1>8. UNCHANGED log \/ \E t \in Task : Record(t) \/ RecordGroup(t)
  BY OnlyRecorded
<1> QED BY <1>5, <1>6, <1>7, <1>8

-----------------------------------------------------------------------------
(* What is recorded as fired is sent, if Slack takes what it is sent.      *)

LEMMA TellSteps ==
  ASSUME IInv, [Next]_vars
  PROVE  /\ \A e : Told(e) => Told(e)'
         /\ messages' = messages \/ \E t \in Task : SendHeadline(t) \/ SendSingle(t) \/ SendBatch(t)
<1>1. messages' = messages \/ \E t \in Task : SendHeadline(t) \/ SendSingle(t) \/ SendBatch(t)
  BY StepKinds DEF Step, Fail, Correlate, Impact, SkipWarmUp, Decide, Routed, DecideGroup, Grouped, Record,
     RecordGroup, HeadlinesSent, Done, Arrive, Environment, Crash, Midnight, Expire, MaintenanceTurns, vars
<1>2. messages \subseteq messages'
  <2>1. ASSUME NEW m, Post(m) PROVE messages \subseteq messages'
    BY <2>1 DEF Post
  <2> QED BY <1>1, <2>1 DEF SendHeadline, SendSingle, SendBatch
<1> QED BY <1>1, <1>2 DEF Told

Outgoing(t) == sends[t] \cup heads[t]

Sent ==
  /\ \A t \in Task : pc[t] = "singles" => heads[t] = {}
  /\ \A t \in Task : \A e \in batch[t] : FiredRow(e) => (e \in Outgoing(t) \/ Told(e))
  /\ \A e \in finished : FiredRow(e) => Told(e)

LEMMA SentInitially == Init => Sent
BY DEF Init, Sent

LEMMA PostTells ==
  ASSUME ~SlackMayFail, NEW m, Post(m)
  PROVE  \A e \in m.events : Told(e)'
BY DEF Post, Told

LEMMA SentInductive ==
  ASSUME ~SlackMayFail, MainWebhook
  PROVE  IInv /\ AuditInv /\ Sent /\ [Next]_vars => Sent'
<1> SUFFICES ASSUME IInv, AuditInv, Sent, [Next]_vars PROVE Sent'
  OBVIOUS
<1>1. finished \subseteq DOMAIN events /\ \A t \in Task : batch[t] \subseteq DOMAIN events
  BY DEF IInv, TypeOK
<1>2. \A e : Told(e) => Told(e)'
  BY TellSteps
<1>3. ASSUME NEW t \in Task, Record(t) \/ RecordGroup(t) PROVE Sent'
  <2>1. PICK v, n : v = verdict[t].event /\ n = Len(log) + 1
    OBVIOUS
  <2>2. /\ DOMAIN log' = (DOMAIN log) \cup {n} /\ \A i \in DOMAIN log : log'[i] = log[i]
        /\ log'[n] = VerdictRow(t, "status_change") \/ log'[n] = VerdictRow(t, "aggregated_upstream")
    BY <1>3, <2>1, RecordEffect, RecordGroupEffect
  <2>3. log'[n].event = v /\ log'[n].by = verdict[t].by
    BY <2>1, <2>2, VerdictRowFields
  <2>4. \A e : FiredRow(e)' => (FiredRow(e) \/ (e = v /\ verdict[t].by = Fired))
    BY <2>2, <2>3 DEF FiredRow
  <2>5. /\ UNCHANGED <<batch, finished>> /\ pc'[t] # "singles" /\ Outgoing(t) \subseteq Outgoing(t)'
        /\ verdict[t].by = Fired => v \in Outgoing(t)'
        /\ \A u \in Task \ {t} : pc'[u] = pc[u] /\ sends'[u] = sends[u] /\ heads'[u] = heads[u]
    <3>1. CASE Record(t)
      BY <2>1, <3>1, RecordEffect DEF Outgoing
    <3>2. CASE RecordGroup(t)
      BY <2>1, <3>2, RecordGroupEffect DEF Outgoing
    <3> QED BY <1>3, <3>1, <3>2
  <2>6. v \in batch[t] /\ v \notin finished /\ \A u \in Task \ {t} : v \notin batch[u]
    <3>1. v \in batch[t]
      BY <1>3, <2>1, RecordEffect, RecordGroupEffect DEF IInv, TypeOK
    <3> QED BY <3>1 DEF AuditInv, Apart
  <2>7. \A e \in finished' : FiredRow(e)' => Told(e)'
    BY <1>2, <2>4, <2>5, <2>6 DEF Sent
  <2>8. \A e \in batch'[t] : FiredRow(e)' => (e \in Outgoing(t)' \/ Told(e)')
    BY <1>2, <2>4, <2>5 DEF Sent
  <2>9. \A u \in Task \ {t} : \A e \in batch'[u] : FiredRow(e)' => (e \in Outgoing(u)' \/ Told(e)')
    BY <1>2, <2>4, <2>5, <2>6 DEF Sent, Outgoing
  <2> QED BY <2>5, <2>7, <2>8, <2>9 DEF Sent
<1>4. CASE UNCHANGED log
  <2>1. \A e : FiredRow(e)' <=> FiredRow(e)
    BY <1>4 DEF FiredRow
  <2>2. CASE UNCHANGED finished /\ \A t \in Task :
               /\ pc'[t] = "singles" => heads'[t] = {}
               /\ batch'[t] = {} \/ (batch'[t] = batch[t] /\ \A e \in Outgoing(t) : e \in Outgoing(t)' \/ Told(e)')
    BY <1>2, <2>1, <2>2 DEF Sent
  <2>3. ASSUME NEW t \in Task, Step(t) \/ Fail(t) PROVE Sent'
    <3>0. \A u \in Task \ {t} : /\ batch'[u] = batch[u] /\ pc'[u] = pc[u] /\ sends'[u] = sends[u]
                                /\ heads'[u] = heads[u] /\ Outgoing(u)' = Outgoing(u)
      BY <2>3, OwnLocals DEF Outgoing
    <3>1. ASSUME UNCHANGED finished, pc'[t] = "singles" => heads'[t] = {},
                 batch'[t] = {} \/ (batch'[t] = batch[t] /\ \A e \in Outgoing(t) : e \in Outgoing(t)' \/ Told(e)')
          PROVE  Sent'
      BY <2>2, <3>0, <3>1 DEF Sent
    <3>2. CASE Fail(t)
      BY <3>1, <3>2 DEF Fail, ClearLocals, Goto, Set, IInv, Locals
    <3>3. CASE Correlate(t) \/ Impact(t) \/ SkipWarmUp(t) \/ Decide(t) \/ Routed(t) \/ DecideGroup(t) \/ Grouped(t)
               \/ HeadlinesSent(t)
      <4>1. /\ UNCHANGED <<finished, batch, sends, heads>>
            /\ pc'[t] = "singles" => (pc[t] = "singles" \/ heads[t] = {})
        BY <3>3 DEF Correlate, Impact, SkipWarmUp, Decide, Routed, DecideGroup, Grouped, HeadlinesSent, Goto, Set,
           IInv, Locals
      <4> QED BY <3>1, <4>1 DEF Sent, Outgoing
    <3>4. CASE SendHeadline(t)
      <4>1. PICK u \in heads[t] :
              /\ Post([events |-> {u}, cites |-> Dependents(u, batch[t]), names |-> Names(t, {u}), kind |-> "aggregated"])
              /\ heads' = [heads EXCEPT ![t] = heads[t] \ {u}]
        BY <3>4 DEF SendHeadline, Set
      <4>2. Told(u)'
        BY <4>1, PostTells
      <4>3. UNCHANGED <<finished, batch, sends, pc>> /\ pc[t] = "headlines"
        BY <3>4 DEF SendHeadline
      <4>4. \A e \in Outgoing(t) : e \in Outgoing(t)' \/ Told(e)'
        BY <4>1, <4>2, <4>3 DEF Outgoing, IInv, Locals
      <4> QED BY <3>1, <4>3, <4>4
    <3>5. CASE SendSingle(t)
      <4>1. PICK e \in sends[t] :
              /\ Post([events |-> {e}, cites |-> {}, names |-> Names(t, {e}), kind |-> "single"])
              /\ sends' = [sends EXCEPT ![t] = sends[t] \ {e}]
        BY <3>5 DEF SendSingle, Set
      <4>2. Told(e)'
        BY <4>1, PostTells
      <4>3. UNCHANGED <<finished, batch, heads, pc>>
        BY <3>5 DEF SendSingle
      <4>4. \A f \in Outgoing(t) : f \in Outgoing(t)' \/ Told(f)'
        BY <4>1, <4>2, <4>3 DEF Outgoing, IInv, Locals
      <4> QED BY <3>1, <4>3, <4>4 DEF Sent
    <3>6. CASE SendBatch(t) \/ Done(t)
      <4>1. /\ finished' = finished \cup batch[t] /\ batch'[t] = {} /\ pc'[t] = "idle" /\ pc[t] = "singles"
        BY <3>6 DEF SendBatch, Done, Finish, ClearLocals, Goto, Set, IInv, Locals
      <4>2. \A e \in sends[t] : Told(e)'
        <5>1. CASE SendBatch(t)
          <6>1. Post([events |-> sends[t], cites |-> {}, names |-> Names(t, sends[t]), kind |-> "batch"])
            BY <5>1 DEF SendBatch
          <6> QED BY <6>1, PostTells
        <5>2. CASE Done(t)
          BY <5>2 DEF Done
        <5> QED BY <3>6, <5>1, <5>2
      <4>3. \A e \in finished' : FiredRow(e)' => Told(e)'
        BY <1>2, <2>1, <4>1, <4>2 DEF Sent, Outgoing
      <4> QED BY <1>2, <2>1, <3>0, <4>1, <4>3 DEF Sent
    <3>7. CASE Record(t) \/ RecordGroup(t)
      BY <1>3, <3>7
    <3> QED BY <2>3, <3>2, <3>3, <3>4, <3>5, <3>6, <3>7 DEF Step
  <2>4. ASSUME NEW t \in Task, NEW n \in Nat \ {0}, NEW changes \in [1..n -> Event], Arrive(t, changes)
        PROVE  Sent'
    <3>1. /\ finished' = finished /\ pc'[t] = "correlate" /\ batch'[t] \cap DOMAIN events = {}
          /\ \A u \in Task \ {t} : /\ batch'[u] = batch[u] /\ pc'[u] = pc[u] /\ heads'[u] = heads[u]
                                   /\ Outgoing(u)' = Outgoing(u)
      BY <2>4, ArriveFacts, ArriveLocals DEF Outgoing
    <3>2. \A e \in batch'[t] : ~FiredRow(e)
      BY <3>1 DEF FiredRow, IInv, RowsAreOfEvents
    <3> QED BY <1>2, <2>1, <3>1, <3>2 DEF Sent
  <2>5. CASE Environment
    <3>1. CASE Crash
      BY <2>2, <3>1 DEF Crash
    <3>2. CASE UNCHANGED <<finished, locals>>
      BY <2>2, <3>2 DEF locals, Outgoing, Sent
    <3> QED BY <2>5, <3>1, <3>2 DEF Environment, Midnight, Expire, MaintenanceTurns, vars
  <2> QED BY <2>3, <2>4, <2>5, StepKinds
<1> QED BY <1>3, <1>4, OnlyRecorded

(* What was_recently_alerted takes for sent was sent, once its task ended: *)
(* if Slack takes every post and the main webhook is configured.           *)
THEOREM FiredIsSent ==
  ASSUME ~SlackMayFail, MainWebhook
  PROVE  Spec => []FiredMeansSent
<1>1. IInv /\ AuditInv /\ Sent /\ [Next]_vars => Sent'
  BY SentInductive
<1>2. Spec => []Sent
  BY <1>1, SentInitially, Audits, PTL DEF Spec
<1>3. Sent => FiredMeansSent
  BY DEF Sent, FiredMeansSent, FiredRow
<1> QED BY <1>2, <1>3, PTL

-----------------------------------------------------------------------------
(* What a message names.                                                   *)

(* The texts of a batch name the declared dependents of every change that  *)
(* its task has been through, and so do the messages.                      *)
Texted(t) == IF pc[t] = "impact" THEN batch[t] \ todo[t] ELSE IF pc[t] = "correlate" THEN {} ELSE batch[t]

Naming ==
  /\ \A t \in Task : pc[t] = "correlate" => todo[t] = batch[t]
  /\ \A t \in Task : \A u \in Texted(t) : ({u} \X ImpactOn(u)) \subseteq named[t]
  /\ \A m \in messages : m.events \subseteq DOMAIN events /\ \A u \in m.events : ImpactOn(u) \subseteq m.names

LEMMA NamingInitially == Init => Naming
BY DEF Init, Naming, Texted

(* A message names whatever the changes that it is about have impact on.   *)
LEMMA NamesAll ==
  ASSUME IInv, Naming, NEW t \in Task, pc[t] \in {"headlines", "singles"}, NEW E \in SUBSET batch[t]
  PROVE  E \subseteq DOMAIN events /\ \A u \in E : ImpactOn(u) \subseteq Names(t, E)
<1>1. ASSUME NEW u \in E, NEW s \in ImpactOn(u) PROVE s \in Names(t, E)
  <2>1. <<u, s>> \in {u} \X ImpactOn(u)
    BY <1>1
  <2>2. <<u, s>> \in named[t]
    BY <2>1 DEF Naming, Texted
  <2> QED BY <2>2 DEF Names
<1>2. E \subseteq DOMAIN events
  BY DEF IInv, TypeOK
<1> QED BY <1>1, <1>2

LEMMA NamingInductive ==
  ASSUME ~MayFail
  PROVE  IInv /\ Naming /\ [Next]_vars => Naming'
<1> SUFFICES ASSUME IInv, Naming, [Next]_vars PROVE Naming'
  OBVIOUS
<1>1. DOMAIN events \subseteq DOMAIN events' /\ \A e \in DOMAIN events : ImpactOn(e)' = ImpactOn(e)
  BY Monotone DEF ImpactOn, Svc
<1>2. \A t \in Task : batch[t] \subseteq DOMAIN events /\ Texted(t) \subseteq batch[t] /\ todo[t] \subseteq batch[t]
                      /\ sends[t] \subseteq batch[t] /\ heads[t] \subseteq batch[t]
  BY DEF IInv, TypeOK, Texted
<1>3. CASE /\ \A t \in Task : Texted(t)' = {} \/ (Texted(t)' \subseteq Texted(t) /\ named'[t] = named[t])
           /\ \A t \in Task : pc'[t] = "correlate" => todo'[t] = batch'[t]
           /\ messages' = messages
  BY <1>1, <1>2, <1>3 DEF Naming
<1>4. ASSUME NEW t \in Task, Step(t) \/ Fail(t) PROVE Naming'
  <2>1. \A u \in Task \ {t} : /\ Texted(u)' = Texted(u) /\ named'[u] = named[u] /\ pc'[u] = pc[u]
                              /\ todo'[u] = todo[u] /\ batch'[u] = batch[u]
    BY <1>4, OwnLocals DEF Texted
  <2>2. pc'[t] # "correlate"
    BY <1>4 DEF Step, Fail, Correlate, Impact, SkipWarmUp, Decide, Record, Routed, DecideGroup, RecordGroup,
       Grouped, SendHeadline, HeadlinesSent, SendBatch, SendSingle, Done, Finish, ClearLocals, Goto, Set, IInv, Locals
  <2>3. \A u \in Task : pc'[u] = "correlate" => todo'[u] = batch'[u]
    BY <2>1, <2>2 DEF Naming
  <2>4. CASE UNCHANGED messages /\ (Texted(t)' = {} \/ (Texted(t)' \subseteq Texted(t) /\ named'[t] = named[t]))
    BY <1>3, <2>1, <2>3, <2>4
  <2>5. CASE Correlate(t)
    <3>1. UNCHANGED <<messages, batch, todo>> /\ pc[t] = "correlate" /\ pc'[t] = "impact"
      BY <2>5 DEF Correlate, Goto, IInv, Locals
    <3>2. Texted(t)' = {}
      BY <3>1 DEF Texted, Naming
    <3> QED BY <2>4, <3>1, <3>2
  <2>6. CASE Impact(t)
    <3>1. PICK e \in todo[t] :
            /\ named' = Set(named, t, named[t] \cup ({e} \X ImpactOn(e)))
            /\ IF todo[t] = {e}
               THEN todo' = Set(todo, t, batch[t]) /\ Goto(t, "route")
               ELSE todo' = Set(todo, t, todo[t] \ {e}) /\ UNCHANGED pc
      BY <2>6 DEF Impact
    <3>2. UNCHANGED <<messages, batch, events>> /\ pc[t] = "impact"
      BY <2>6 DEF Impact
    <3>3. named'[t] = named[t] \cup ({e} \X ImpactOn(e))
      BY <3>1 DEF Set, IInv, Locals
    <3>4. Texted(t)' = Texted(t) \cup {e}
      <4>1. CASE todo[t] = {e}
        <5>1. pc'[t] = "route"
          BY <3>1, <4>1 DEF Goto, IInv, Locals
        <5> QED BY <1>2, <3>2, <4>1, <5>1 DEF Texted
      <4>2. CASE todo[t] # {e}
        <5>1. pc'[t] = "impact" /\ todo'[t] = todo[t] \ {e}
          BY <3>1, <3>2, <4>2 DEF Set, IInv, Locals
        <5> QED BY <1>2, <3>1, <3>2, <5>1 DEF Texted
      <4> QED BY <4>1, <4>2
    <3>5. \A u \in Texted(t)' : ({u} \X ImpactOn(u)') \subseteq named'[t]
      BY <1>1, <1>2, <3>1, <3>3, <3>4 DEF Naming
    <3>6. \A u \in Task \ {t} : \A f \in Texted(u)' : ({f} \X ImpactOn(f)') \subseteq named'[u]
      BY <1>1, <1>2, <2>1 DEF Naming
    <3>7. \A m \in messages' : m.events \subseteq DOMAIN events' /\ \A u \in m.events : ImpactOn(u)' \subseteq m.names
      BY <1>1, <3>2 DEF Naming
    <3> QED BY <2>3, <3>5, <3>6, <3>7 DEF Naming
  <2>7. CASE SkipWarmUp(t) \/ Decide(t) \/ Record(t) \/ Routed(t) \/ DecideGroup(t) \/ RecordGroup(t) \/ Grouped(t)
             \/ HeadlinesSent(t)
    <3>1. UNCHANGED <<messages, batch, named>> /\ pc[t] \notin {"correlate", "impact"}
      BY <2>7 DEF SkipWarmUp, Decide, Record, Routed, DecideGroup, RecordGroup, Grouped, HeadlinesSent
    <3> QED BY <2>4, <3>1 DEF Texted
  <2>8. CASE Done(t) \/ Fail(t)
    <3>1. UNCHANGED messages /\ batch'[t] = {}
      BY <2>8 DEF Done, Fail, Finish, ClearLocals, Set, IInv, Locals
    <3> QED BY <2>4, <3>1 DEF Texted
  <2>9. CASE SendHeadline(t) \/ SendSingle(t) \/ SendBatch(t)
    <3>1. /\ pc[t] \in {"headlines", "singles"}
          /\ \E E \in SUBSET batch[t] : \E m : m.events = E /\ m.names = Names(t, E) /\ Post(m)
      <4>1. CASE SendHeadline(t)
        <5>1. PICK u \in heads[t] :
                Post([events |-> {u}, cites |-> Dependents(u, batch[t]), names |-> Names(t, {u}), kind |-> "aggregated"])
          BY <4>1 DEF SendHeadline
        <5>2. {u} \in SUBSET batch[t] /\ pc[t] = "headlines"
          BY <1>2, <4>1 DEF SendHeadline
        <5>3. PICK m : m.events = {u} /\ m.names = Names(t, {u}) /\ Post(m)
          BY <5>1
        <5> QED BY <5>2, <5>3
      <4>2. CASE SendSingle(t)
        <5>1. PICK e \in sends[t] : Post([events |-> {e}, cites |-> {}, names |-> Names(t, {e}), kind |-> "single"])
          BY <4>2 DEF SendSingle
        <5>2. {e} \in SUBSET batch[t] /\ pc[t] = "singles"
          BY <1>2, <4>2 DEF SendSingle
        <5>3. PICK m : m.events = {e} /\ m.names = Names(t, {e}) /\ Post(m)
          BY <5>1
        <5> QED BY <5>2, <5>3
      <4>3. CASE SendBatch(t)
        <5>1. Post([events |-> sends[t], cites |-> {}, names |-> Names(t, sends[t]), kind |-> "batch"])
          BY <4>3 DEF SendBatch
        <5>2. sends[t] \in SUBSET batch[t] /\ pc[t] = "singles"
          BY <1>2, <4>3 DEF SendBatch
        <5>3. PICK m : m.events = sends[t] /\ m.names = Names(t, sends[t]) /\ Post(m)
          BY <5>1
        <5> QED BY <5>2, <5>3
      <4> QED BY <2>9, <4>1, <4>2, <4>3
    <3>2. PICK E \in SUBSET batch[t] : \E m : m.events = E /\ m.names = Names(t, E) /\ Post(m)
      BY <3>1
    <3>3. PICK m : m.events = E /\ m.names = Names(t, E) /\ Post(m)
      BY <3>2
    <3>4. E \subseteq DOMAIN events /\ \A u \in E : ImpactOn(u) \subseteq Names(t, E)
      BY <3>1, NamesAll
    <3>5. \A n \in messages' : n.events \subseteq DOMAIN events' /\ \A u \in n.events : ImpactOn(u)' \subseteq n.names
      BY <1>1, <3>4, <3>3 DEF Post, Naming
    <3>6. batch'[t] = {} \/ (batch'[t] = batch[t] /\ named'[t] = named[t])
      BY <2>9 DEF SendHeadline, SendSingle, SendBatch, Finish, ClearLocals, Set, IInv, Locals
    <3>7. Texted(t)' = {} \/ (Texted(t)' \subseteq Texted(t) /\ named'[t] = named[t])
      BY <3>1, <3>6 DEF Texted
    <3>8. \A u \in Task : \A f \in Texted(u)' : ({f} \X ImpactOn(f)') \subseteq named'[u]
      BY <1>1, <1>2, <2>1, <3>7 DEF Naming
    <3> QED BY <2>3, <3>5, <3>8 DEF Naming
  <2> QED BY <1>4, <2>5, <2>6, <2>7, <2>8, <2>9 DEF Step
<1>5. ASSUME NEW t \in Task, NEW n \in Nat \ {0}, NEW changes \in [1..n -> Event], Arrive(t, changes)
      PROVE  Naming'
  <2>1. /\ UNCHANGED <<messages, named>> /\ pc'[t] = "correlate" /\ todo'[t] = batch'[t]
        /\ \A u \in Task \ {t} : batch'[u] = batch[u] /\ todo'[u] = todo[u] /\ pc'[u] = pc[u]
    BY <1>5, ArriveFacts, ArriveLocals
  <2> QED BY <1>3, <2>1 DEF Texted, Naming
<1>6. CASE Environment
  <2>1. CASE Crash
    BY <1>3, <2>1 DEF Crash, Texted
  <2>2. CASE UNCHANGED <<messages, locals>>
    BY <1>3, <2>2 DEF locals, Texted, Naming
  <2> QED BY <1>6, <2>1, <2>2 DEF Environment, Midnight, Expire, MaintenanceTurns, vars
<1> QED BY <1>4, <1>5, <1>6, StepKinds

(* A change silenced in favour of its upstream has one: an upstream it     *)
(* depends on went down with it and was routed as the aggregated alert,    *)
(* and if any alert of that upstream was fired, a message about it names   *)
(* the silenced service: where statements do not fail, Slack takes what it *)
(* is sent and the main webhook is configured, for any number of requests, *)
(* crashes, midnights and maintenance.                                     *)
THEOREM SilencedHaveHeadlines ==
  ASSUME ~SlackMayFail, ~MayFail, MainWebhook
  PROVE  Spec => []SilencedHasHeadline
<1>1. IInv /\ AuditInv /\ Headline /\ Sent /\ Naming /\ [Next]_vars => (Headline /\ Sent /\ Naming)'
  BY HeadlineInductive, SentInductive, NamingInductive
<1>2. Spec => [](IInv /\ Headline /\ Sent /\ Naming)
  BY <1>1, HeadlineInitially, SentInitially, NamingInitially, Audits, PTL DEF Spec
<1>3. IInv /\ Headline /\ Sent /\ Naming => SilencedHasHeadline
  <2> SUFFICES ASSUME IInv, Headline, Sent, Naming, NEW e \in finished, SilentRow(e)
               PROVE  \E u \in finished :
                         /\ <<Svc(u), Svc(e)>> \in Depends /\ u # e
                         /\ RowsOf(u, "aggregated_upstream") # {}
                         /\ \/ \E m \in messages : u \in m.events /\ Svc(e) \in m.names
                            \/ \A j \in DOMAIN log : log[j].event = u => log[j].by # Fired
    BY DEF SilencedHasHeadline, SilentRow
  <2>1. PICK u \in finished : Follows(e, u) /\ HeadRow(u)
    BY DEF Headline
  <2>2. Svc(e) \in ImpactOn(u)
    <3>1. e \in DOMAIN events
      BY DEF IInv, TypeOK
    <3>2. Svc(e) \in Service
      BY <3>1, EventFacts DEF IInv, Svc, Event
    <3> QED BY <2>1, <3>2 DEF ImpactOn, Follows
  <2>3. CASE FiredRow(u)
    <3>1. PICK m \in messages : u \in m.events
      BY <2>3 DEF Sent, Told
    <3>2. Svc(e) \in m.names
      BY <2>2, <3>1 DEF Naming
    <3> QED BY <2>1, <3>1, <3>2 DEF Follows, HeadRow
  <2>4. CASE ~FiredRow(u)
    BY <2>1, <2>4 DEF Follows, HeadRow, FiredRow
  <2> QED BY <2>3, <2>4
<1> QED BY <1>2, <1>3, PTL

-----------------------------------------------------------------------------
(* Recoveries.                                                             *)

(* A recovery that neither tier nor maintenance silences is never recorded *)
(* as suppressed.                                                          *)
Heard(e) == Recovery(e) /\ TierOf[Svc(e)] # "informational" /\ Svc(e) \notin Maintained

RecoveriesFire ==
  /\ \A e \in DOMAIN events : Heard(e) => \A i \in RowsOf(e, "status_change") : log[i].by = Fired
  /\ \A t \in Task : pc[t] = "record" => \A e \in Decided(t) : Heard(e) => verdict[t].by = Fired

LEMMA RecoveriesFireInitially == Init => RecoveriesFire
<1> SUFFICES ASSUME Init PROVE RecoveriesFire
  OBVIOUS
<1>1. DOMAIN log = {}
  BY EmptySeq DEF Init
<1> QED BY <1>1 DEF Init, RecoveriesFire, RowsOf

LEMMA RecoveriesFireInductive ==
  ASSUME MainWebhook
  PROVE  IInv /\ RecoveriesFire /\ [Next]_vars => RecoveriesFire'
<1> SUFFICES ASSUME IInv, RecoveriesFire, [Next]_vars PROVE RecoveriesFire'
  OBVIOUS
<1>1. \A e \in DOMAIN events : Heard(e)' <=> Heard(e)
  BY Monotone DEF Heard, Recovery, WarmUp, Svc
<1>2. \A e \in DOMAIN events' : Heard(e)' => \A i \in RowsOf(e, "status_change")' : log'[i].by = Fired
  <2>1. CASE UNCHANGED log
    <3>1. \A e \in DOMAIN events' : e \notin DOMAIN events => RowsOf(e, "status_change")' = {}
      BY <2>1 DEF IInv, RowsAreOfEvents, RowsOf
    <3>2. \A e : RowsOf(e, "status_change")' = RowsOf(e, "status_change")
      BY <2>1 DEF RowsOf
    <3> QED BY <1>1, <2>1, <3>1, <3>2 DEF RecoveriesFire
  <2>2. ASSUME NEW t \in Task, RecordGroup(t)
        PROVE  \A e \in DOMAIN events' : Heard(e)' => \A i \in RowsOf(e, "status_change")' : log'[i].by = Fired
    <3>1. PICK v, n : v = verdict[t].event /\ n = Len(log) + 1
      OBVIOUS
    <3>2. /\ DOMAIN log' = (DOMAIN log) \cup {n} /\ n \notin DOMAIN log /\ \A i \in DOMAIN log : log'[i] = log[i]
          /\ log'[n] = VerdictRow(t, "aggregated_upstream") /\ UNCHANGED events
      BY <2>2, <3>1, RecordGroupEffect
    <3>3. log'[n].event = v /\ log'[n].kind = "aggregated_upstream"
      BY <3>1, <3>2, VerdictRowFields
    <3>4. \A e : RowsOf(e, "status_change")' = RowsOf(e, "status_change")
      BY <3>2, <3>3, RowsGrow
    <3> QED BY <1>1, <3>2, <3>4 DEF RecoveriesFire, RowsOf
  <2>3. ASSUME NEW t \in Task, Record(t)
        PROVE  \A e \in DOMAIN events' : Heard(e)' => \A i \in RowsOf(e, "status_change")' : log'[i].by = Fired
    <3>1. PICK v, n : v = verdict[t].event /\ n = Len(log) + 1
      OBVIOUS
    <3>2. /\ DOMAIN log' = (DOMAIN log) \cup {n} /\ n \notin DOMAIN log /\ \A i \in DOMAIN log : log'[i] = log[i]
          /\ log'[n] = VerdictRow(t, "status_change") /\ UNCHANGED events /\ pc[t] = "record"
      BY <2>3, <3>1, RecordEffect
    <3>3. log'[n].event = v /\ log'[n].by = verdict[t].by
      BY <3>1, <3>2, VerdictRowFields
    <3>4. \A e \in DOMAIN events : e = v /\ Heard(e) => log'[n].by = Fired
      BY <3>1, <3>2, <3>3 DEF RecoveriesFire, Decided
    <3> QED BY <1>1, <3>2, <3>3, <3>4 DEF RecoveriesFire, RowsOf
  <2> QED BY <2>1, <2>2, <2>3, OnlyRecorded
<1>3. ASSUME NEW t \in Task, pc'[t] = "record", NEW e \in Decided(t)', Heard(e)'
      PROVE  verdict'[t].by = Fired
  <2>1. CASE pc[t] = "record" /\ verdict'[t] = verdict[t]
    <3>1. verdict[t].event \in DOMAIN events /\ e = verdict'[t].event
      BY <1>3, <2>1 DEF Decided, IInv, TypeOK, Locals
    <3>2. e \in Decided(t) /\ Heard(e)
      BY <1>1, <1>3, <2>1, <3>1 DEF Decided
    <3> QED BY <2>1, <3>2 DEF RecoveriesFire
  <2>2. CASE Decide(t)
    <3>1. e \in todo[t] /\ verdict'[t].by = Suppression(e, e \in Aggregated(batch[t]))
      BY <1>3, <2>2 DEF Decide, Set, Decided, IInv, Locals
    <3>2. e \in DOMAIN events /\ Heard(e)
      BY <1>1, <1>3, <3>1 DEF IInv, TypeOK
    <3>3. e \notin Aggregated(batch[t])
      BY <3>2 DEF Heard, Recovery, Aggregated, Dependents, Affected
    <3>4. Svc(e) \notin maintenance /\ TierOf[Svc(e)] # "informational" /\ events[e].to = "operational"
      BY <3>2 DEF Heard, Recovery, IInv, TypeOK
    <3>5. Webhook(Svc(e)) # "none"
      BY DEF Webhook
    <3> QED BY <3>1, <3>3, <3>4, <3>5 DEF Suppression, Fired
  <2>3. CASE \E u \in Task : Step(u) \/ Fail(u)
    <3>1. PICK u \in Task : Step(u) \/ Fail(u)
      BY <2>3
    <3>2. CASE u # t
      BY <1>3, <2>1, <3>1, <3>2, OwnLocals
    <3>3. CASE u = t
      BY <1>3, <2>1, <2>2, <3>1, <3>3 DEF Step, Fail, Correlate, Impact, SkipWarmUp, Record, Routed, DecideGroup,
         RecordGroup, Grouped, SendHeadline, HeadlinesSent, SendBatch, SendSingle, Done, Finish, ClearLocals, Goto,
         Set, IInv, Locals
    <3> QED BY <3>2, <3>3
  <2>4. ASSUME NEW u \in Task, NEW n \in Nat \ {0}, NEW changes \in [1..n -> Event], Arrive(u, changes)
        PROVE  verdict'[t].by = Fired
    BY <1>3, <2>1, <2>4, ArriveLocals
  <2>5. CASE Environment
    BY <1>3, <2>1, <2>5 DEF Environment, Crash, Midnight, Expire, MaintenanceTurns, vars, locals
  <2> QED BY <2>3, <2>4, <2>5, StepKinds
<1> QED BY <1>2, <1>3 DEF RecoveriesFire

(* Operators always hear "it's back": whatever batches, requests, failing  *)
(* statements, crashes and upstreams do, a recovery that was processed and *)
(* that neither tier nor maintenance silences was accepted by Slack.       *)
THEOREM RecoveriesAreTold ==
  ASSUME ~SlackMayFail
  PROVE  Spec => []RecoveryIsTold
<1>1. CASE MainWebhook
  <2>1. IInv /\ AuditInv /\ Sent /\ [Next]_vars => Sent'
    BY <1>1, SentInductive
  <2>2. IInv /\ RecoveriesFire /\ [Next]_vars => RecoveriesFire'
    BY <1>1, RecoveriesFireInductive
  <2>3. Spec => [](IInv /\ AuditInv /\ Sent /\ RecoveriesFire)
    BY <2>1, <2>2, SentInitially, RecoveriesFireInitially, Audits, PTL DEF Spec
  <2>4. IInv /\ AuditInv /\ Sent /\ RecoveriesFire => RecoveryIsTold
    <3> SUFFICES ASSUME IInv, AuditInv, Sent, RecoveriesFire, NEW e \in finished, Heard(e) PROVE Told(e)
      BY DEF RecoveryIsTold, Heard
    <3>1. PICK i : RowsOf(e, "status_change") = {i}
      BY DEF Heard, Recovery, AuditInv, Audit, Audited
    <3>2. e \in DOMAIN events
      BY DEF IInv, TypeOK
    <3>3. FiredRow(e)
      BY <3>1, <3>2 DEF RecoveriesFire, FiredRow, RowsOf
    <3> QED BY <3>3 DEF Sent
  <2> QED BY <2>3, <2>4, PTL
<1>2. CASE ~MainWebhook
  <2>1. RecoveryIsTold
    BY <1>2 DEF RecoveryIsTold
  <2> QED BY <2>1, PTL
<1> QED BY <1>1, <1>2

-----------------------------------------------------------------------------
(* Nobody is told twice.                                                   *)

Window == expired = 0

Once ==
  /\ \A m \in messages : m.events \subseteq DOMAIN events
  /\ \A m, n \in messages : m # n => m.events \cap n.events = {}
  /\ \A t \in Task : \A e \in batch[t] : Told(e) => (pc[t] \in {"headlines", "singles"} /\ e \notin Outgoing(t))

TwoLists ==
  /\ \A t \in Task : sends[t] \cap heads[t] = {}
  /\ \A t \in Task : pc[t] \in {"correlate", "impact", "route", "record"} => heads[t] = {}
  /\ \A t \in Task : \A e \in groups[t] : events[e].to # "operational"
  /\ \A t \in Task : pc[t] = "grouprecord" /\ verdict[t].by = Fired => \A e \in Decided(t) : e \notin sends[t]

OnceInv == Window /\ TwoLists /\ Once

LEMMA OnceInitially == Init => OnceInv
BY DEF Init, OnceInv, Window, TwoLists, Once

LEMMA WindowInductive ==
  ASSUME MaxClock = 0
  PROVE  IInv /\ Window /\ [Next]_vars => Window'
<1> SUFFICES ASSUME IInv, Window, [Next]_vars PROVE Window'
  OBVIOUS
<1>1. day \in 0..MaxClock
  BY DEF IInv, TypeOK
<1>2. ~Expire
  BY <1>1 DEF Expire, Window
<1>3. expired' = expired \/ Expire
  BY StepKinds DEF Step, Fail, Correlate, Impact, SkipWarmUp, Decide, Routed, DecideGroup,
     Grouped, Record, RecordGroup, SendHeadline, HeadlinesSent, SendBatch, SendSingle, Done, Arrive, Environment,
     Crash, Midnight, MaintenanceTurns, vars, clock
<1> QED BY <1>2, <1>3 DEF Window

(* As long as no row leaves the window, a fired row of today's key blocks. *)
LEMMA FiredBlocks ==
  ASSUME MaxClock = 0, IInv, Window, NEW e, FiredRow(e), events[e].to # "operational"
  PROVE  Suppression(e, FALSE) # Fired
<1>1. PICK i \in DOMAIN log : log[i].event = e /\ log[i].by = Fired
  BY DEF FiredRow
<1>2. i \in (expired + 1)..Len(log)
  BY <1>1, LogFacts DEF Window, IInv
<1>3. log[i].day = day
  <2>1. log[i].day \in 0..0 /\ day \in 0..0
    BY <1>1, LogFacts DEF IInv, TypeOK, Row
  <2> QED BY <2>1
<1>4. RecentlyAlerted(Key(e, day))
  BY <1>1, <1>2, <1>3 DEF RecentlyAlerted
<1> QED BY <1>4 DEF Suppression, Fired

LEMMA TwoListsInductive ==
  ASSUME MaxClock = 0
  PROVE  IInv /\ Ledger /\ Window /\ TwoLists /\ [Next]_vars => TwoLists'
<1> SUFFICES ASSUME IInv, Ledger, Window, TwoLists, [Next]_vars PROVE TwoLists'
  OBVIOUS
<1>1. \A t \in Task : batch[t] \subseteq DOMAIN events /\ groups[t] \subseteq batch[t] /\ Decided(t) \subseteq DOMAIN events
  BY DEF IInv, TypeOK, Decided
<1>2. \A e \in DOMAIN events : events'[e] = events[e]
  BY Monotone
<1>3. CASE \A t \in Task : /\ sends'[t] \subseteq sends[t] /\ heads'[t] \subseteq heads[t] /\ groups'[t] \subseteq groups[t]
                           /\ pc'[t] \in {"correlate", "impact", "route", "record"}
                                => (pc[t] \in {"correlate", "impact", "route", "record"} \/ heads'[t] = {})
                           /\ pc'[t] = "grouprecord" => (pc[t] = "grouprecord" /\ verdict'[t] = verdict[t])
  <2>1. \A t \in Task : pc'[t] = "grouprecord" => Decided(t)' \subseteq Decided(t)
    BY <1>1, <1>3 DEF Decided, IInv, TypeOK, Locals
  <2> QED BY <1>1, <1>2, <1>3, <2>1 DEF TwoLists
<1>4. ASSUME NEW t \in Task, Step(t) \/ Fail(t) PROVE TwoLists'
  <2>0. \A u \in Task \ {t} : /\ pc'[u] = pc[u] /\ sends'[u] = sends[u] /\ heads'[u] = heads[u] /\ groups'[u] = groups[u]
                              /\ verdict'[u] = verdict[u]
    BY <1>4, OwnLocals
  <2>1. \A u \in Task \ {t} :
          /\ sends'[u] \cap heads'[u] = {}
          /\ pc'[u] \in {"correlate", "impact", "route", "record"} => heads'[u] = {}
          /\ \A e \in groups'[u] : events'[e].to # "operational"
          /\ pc'[u] = "grouprecord" /\ verdict'[u].by = Fired => \A e \in Decided(u)' : e \notin sends'[u]
    <3>1. \A u \in Task \ {t} : pc[u] = "grouprecord" => Decided(u)' \subseteq Decided(u)
      BY <1>1, <2>0 DEF Decided, IInv, TypeOK, Locals
    <3> QED BY <1>1, <1>2, <2>0, <3>1 DEF TwoLists
  <2>2. ASSUME sends'[t] \cap heads'[t] = {},
               pc'[t] \in {"correlate", "impact", "route", "record"} => heads'[t] = {},
               \A e \in groups'[t] : events'[e].to # "operational",
               pc'[t] = "grouprecord" /\ verdict'[t].by = Fired => \A e \in Decided(t)' : e \notin sends'[t]
        PROVE  TwoLists'
    BY <2>1, <2>2 DEF TwoLists
  <2>3. CASE Correlate(t)
    <3>1. /\ UNCHANGED <<sends, heads>> /\ pc[t] = "correlate" /\ pc'[t] = "impact" /\ groups'[t] = Upstreams(batch[t])
      BY <2>3 DEF Correlate, Goto, Set, IInv, Locals
    <3>2. \A e \in Upstreams(batch[t]) : e \in DOMAIN events /\ events[e].to # "operational"
      BY <1>1 DEF Upstreams, Affected
    <3> QED BY <1>2, <2>2, <3>1, <3>2 DEF TwoLists
  <2>4. CASE DecideGroup(t)
    <3>1. /\ UNCHANGED <<sends, heads, groups>> /\ pc'[t] = "grouprecord"
      BY <2>4 DEF DecideGroup, Goto, IInv, Locals
    <3>2. PICK u \in groups[t] : verdict'[t].event = u /\ verdict'[t].by = Suppression(u, FALSE)
      <4>1. PICK u \in groups[t] :
              verdict' = [verdict EXCEPT ![t] = [event |-> u, by |-> Suppression(u, FALSE), day |-> day]]
        BY <2>4 DEF DecideGroup, Set
      <4>2. verdict'[t] = [event |-> u, by |-> Suppression(u, FALSE), day |-> day]
        BY <4>1 DEF IInv, Locals
      <4>3. verdict'[t].event = u /\ verdict'[t].by = Suppression(u, FALSE)
        BY <4>2
      <4> QED BY <4>3
    <3>3. verdict'[t].by = Fired => u \notin sends[t]
      BY <3>2, FiredBlocks DEF Ledger, TwoLists
    <3> QED BY <1>1, <1>2, <2>2, <3>1, <3>2, <3>3 DEF TwoLists, Decided
  <2>5. CASE Record(t)
    <3>1. /\ UNCHANGED <<heads, groups>> /\ pc[t] = "record" /\ pc'[t] = "route"
      BY <2>5, RecordEffect
    <3> QED BY <1>1, <1>2, <2>2, <3>1 DEF TwoLists
  <2>6. CASE RecordGroup(t)
    <3>1. PICK v : v = verdict[t].event
      OBVIOUS
    <3>2. /\ UNCHANGED sends /\ pc[t] = "grouprecord" /\ pc'[t] = "group" /\ groups'[t] = groups[t] \ {v}
          /\ verdict[t].by = Fired => heads'[t] = heads[t] \cup {v}
          /\ verdict[t].by # Fired => heads'[t] = heads[t]
          /\ v \in Decided(t)
      BY <1>1, <2>6, <3>1, RecordGroupEffect DEF Decided
    <3> QED BY <1>1, <1>2, <2>2, <3>2 DEF TwoLists
  <2>7. CASE Impact(t) \/ SkipWarmUp(t) \/ Decide(t) \/ Routed(t) \/ Grouped(t) \/ HeadlinesSent(t) \/ SendHeadline(t)
              \/ SendSingle(t)
    <3>1. /\ sends'[t] \subseteq sends[t] /\ heads'[t] \subseteq heads[t] /\ groups'[t] \subseteq groups[t]
          /\ pc'[t] \in {"correlate", "impact", "route", "record"}
               => pc[t] \in {"correlate", "impact", "route", "record"}
          /\ pc'[t] # "grouprecord"
      BY <2>7 DEF Impact, SkipWarmUp, Decide, Routed, Grouped, HeadlinesSent, SendHeadline, SendSingle, Goto, Set,
         IInv, Locals
    <3> QED BY <1>3, <2>0, <3>1
  <2>8. CASE SendBatch(t) \/ Done(t) \/ Fail(t)
    <3>1. pc'[t] = "idle" /\ sends'[t] = {} /\ heads'[t] = {} /\ groups'[t] = {}
      BY <2>8 DEF SendBatch, Done, Fail, Finish, ClearLocals, Goto, Set, IInv, Locals
    <3> QED BY <1>3, <2>0, <3>1
  <2> QED BY <1>4, <2>3, <2>4, <2>5, <2>6, <2>7, <2>8 DEF Step
<1>5. ASSUME NEW t \in Task, NEW n \in Nat \ {0}, NEW changes \in [1..n -> Event], Arrive(t, changes)
      PROVE  TwoLists'
  <2>1. pc'[t] = "correlate" /\ pc[t] = "idle" /\ UNCHANGED <<sends, heads, groups, verdict>> /\ heads[t] = {}
        /\ \A u \in Task \ {t} : pc'[u] = pc[u]
    BY <1>5, ArriveLocals
  <2> QED BY <1>3, <2>1
<1>6. CASE Environment
  BY <1>3, <1>6 DEF Environment, Crash, Midnight, Expire, MaintenanceTurns, vars, locals
<1> QED BY <1>4, <1>5, <1>6, StepKinds

LEMMA OnceInductive == IInv /\ AuditInv /\ TwoLists /\ Once /\ [Next]_vars => Once'
<1> SUFFICES ASSUME IInv, AuditInv, TwoLists, Once, [Next]_vars PROVE Once'
  OBVIOUS
<1>1. DOMAIN events \subseteq DOMAIN events' /\ \A t \in Task : batch[t] \subseteq DOMAIN events /\ Outgoing(t) \subseteq batch[t]
  BY Monotone DEF IInv, TypeOK, Outgoing
<1>2. \A t, u \in Task : t # u => batch[t] \cap batch[u] = {}
  BY DEF AuditInv, Apart
<1>3. CASE UNCHANGED messages
  <2>1. \A e : Told(e)' <=> Told(e)
    BY <1>3 DEF Told
  <2>2. CASE \A t \in Task : \/ batch'[t] \cap DOMAIN events = {}
                             \/ /\ batch'[t] = batch[t] /\ Outgoing(t)' \subseteq Outgoing(t)
                                /\ pc[t] \in {"headlines", "singles"} => pc'[t] \in {"headlines", "singles"}
                             \/ batch'[t] = batch[t] /\ pc[t] \notin {"headlines", "singles"}
    <3>1. \A e : Told(e) => e \in DOMAIN events
      BY DEF Told, Once
    <3> QED BY <1>1, <1>3, <2>1, <2>2, <3>1 DEF Once
  <2>3. ASSUME NEW t \in Task, Step(t) \/ Fail(t) PROVE Once'
    <3>1. \A u \in Task \ {t} : batch'[u] = batch[u] /\ Outgoing(u)' = Outgoing(u) /\ pc'[u] = pc[u]
      BY <2>3, OwnLocals DEF Outgoing
    <3>2. CASE pc[t] \notin {"headlines", "singles"}
      <4>1. batch'[t] = batch[t] \/ batch'[t] = {}
        BY <2>3 DEF Step, Fail, Correlate, Impact, SkipWarmUp, Decide, Record, Routed, DecideGroup, RecordGroup,
           Grouped, SendHeadline, HeadlinesSent, SendBatch, SendSingle, Done, Finish, ClearLocals, Set, IInv, Locals
      <4> QED BY <2>2, <3>1, <3>2, <4>1
    <3>3. CASE pc[t] \in {"headlines", "singles"}
      <4>1. \/ batch'[t] = {}
            \/ /\ batch'[t] = batch[t] /\ sends'[t] \subseteq sends[t] /\ heads'[t] \subseteq heads[t]
               /\ pc'[t] \in {"headlines", "singles"}
        BY <2>3, <3>3 DEF Step, Fail, Correlate, Impact, SkipWarmUp, Decide, Record, Routed, DecideGroup, RecordGroup,
           Grouped, SendHeadline, HeadlinesSent, SendBatch, SendSingle, Done, Finish, ClearLocals, Goto, Set,
           IInv, Locals
      <4>2. batch'[t] = batch[t] /\ sends'[t] \subseteq sends[t] /\ heads'[t] \subseteq heads[t]
              => Outgoing(t)' \subseteq Outgoing(t)
        BY DEF Outgoing
      <4> QED BY <2>2, <3>1, <3>3, <4>1, <4>2
    <3> QED BY <3>2, <3>3
  <2>4. ASSUME NEW t \in Task, NEW n \in Nat \ {0}, NEW changes \in [1..n -> Event], Arrive(t, changes)
        PROVE  Once'
    <3>1. /\ batch'[t] \cap DOMAIN events = {}
          /\ \A u \in Task \ {t} : batch'[u] = batch[u] /\ Outgoing(u)' = Outgoing(u) /\ pc'[u] = pc[u]
      BY <2>4, ArriveFacts, ArriveLocals DEF Outgoing
    <3> QED BY <2>2, <3>1
  <2>5. CASE Environment
    <3>1. CASE Crash
      BY <2>2, <3>1 DEF Crash
    <3>2. CASE UNCHANGED locals
      BY <2>2, <3>2 DEF locals, Outgoing
    <3> QED BY <2>5, <3>1, <3>2 DEF Environment, Midnight, Expire, MaintenanceTurns, vars
  <2> QED BY <2>3, <2>4, <2>5, StepKinds
<1>4. ASSUME NEW t \in Task, SendHeadline(t) \/ SendSingle(t) \/ SendBatch(t), ~UNCHANGED messages PROVE Once'
  <2>1. PICK m : /\ messages' = messages \cup {m} /\ m.events \subseteq Outgoing(t)
                 /\ pc[t] \in {"headlines", "singles"}
                 /\ \/ batch'[t] = {}
                    \/ batch'[t] = batch[t] /\ pc'[t] = pc[t] /\ Outgoing(t)' \subseteq Outgoing(t) \ m.events
    <3>1. CASE SendHeadline(t)
      <4>1. PICK u \in heads[t] :
              /\ Post([events |-> {u}, cites |-> Dependents(u, batch[t]), names |-> Names(t, {u}), kind |-> "aggregated"])
              /\ heads' = [heads EXCEPT ![t] = heads[t] \ {u}]
        BY <3>1 DEF SendHeadline, Set
      <4>2. PICK m : m.events = {u} /\ Post(m)
        BY <4>1
      <4>3. UNCHANGED <<batch, sends, pc>> /\ pc[t] = "headlines"
        BY <3>1 DEF SendHeadline
      <4>4. Outgoing(t)' \subseteq Outgoing(t) \ {u} /\ u \in Outgoing(t)
        BY <4>1, <4>3 DEF Outgoing, TwoLists, IInv, Locals
      <4> QED BY <1>4, <4>2, <4>3, <4>4 DEF Post
    <3>2. CASE SendSingle(t)
      <4>1. PICK e \in sends[t] :
              /\ Post([events |-> {e}, cites |-> {}, names |-> Names(t, {e}), kind |-> "single"])
              /\ sends' = [sends EXCEPT ![t] = sends[t] \ {e}]
        BY <3>2 DEF SendSingle, Set
      <4>2. PICK m : m.events = {e} /\ Post(m)
        BY <4>1
      <4>3. UNCHANGED <<batch, heads, pc>> /\ pc[t] = "singles"
        BY <3>2 DEF SendSingle
      <4>4. Outgoing(t)' \subseteq Outgoing(t) \ {e} /\ e \in Outgoing(t)
        BY <4>1, <4>3 DEF Outgoing, TwoLists, IInv, Locals
      <4> QED BY <1>4, <4>2, <4>3, <4>4 DEF Post
    <3>3. CASE SendBatch(t)
      <4>1. PICK m : m.events = sends[t] /\ Post(m)
        BY <3>3 DEF SendBatch
      <4>2. batch'[t] = {} /\ pc[t] = "singles"
        BY <3>3 DEF SendBatch, Finish, ClearLocals, Set, IInv, Locals
      <4> QED BY <1>4, <4>1, <4>2 DEF Post, Outgoing
    <3> QED BY <1>4, <3>1, <3>2, <3>3
  <2>2. \A u \in Task \ {t} : batch'[u] = batch[u] /\ Outgoing(u)' = Outgoing(u) /\ pc'[u] = pc[u]
    BY <1>4, OwnLocals DEF Outgoing, Step
  <2>3. \A e : Told(e)' <=> (Told(e) \/ e \in m.events)
    BY <2>1 DEF Told
  <2>4. \A e \in m.events : ~Told(e) /\ e \in batch[t]
    BY <1>1, <2>1 DEF Once
  <2>5. \A n \in messages : n.events \cap m.events = {}
    BY <2>4 DEF Told
  <2>6. \A n \in messages' : n.events \subseteq DOMAIN events'
    BY <1>1, <2>1, <2>4 DEF Once
  <2>7. \A n, o \in messages' : n # o => n.events \cap o.events = {}
    BY <2>1, <2>5 DEF Once
  <2>8. \A u \in Task : \A e \in batch'[u] : Told(e)' => (pc'[u] \in {"headlines", "singles"} /\ e \notin Outgoing(u)')
    BY <1>1, <1>2, <2>1, <2>2, <2>3, <2>4 DEF Once
  <2> QED BY <2>6, <2>7, <2>8 DEF Once
<1> QED BY <1>3, <1>4, TellSteps

(* As long as no row leaves the dedup window, no two messages are about    *)
(* the same change: neither an alert of its own and the aggregated one,    *)
(* nor the messages of two tasks.                                          *)
THEOREM NobodyIsToldTwice ==
  ASSUME MaxClock = 0
  PROVE  Spec => []ToldOnce
<1>1. IInv /\ Ledger /\ AuditInv /\ OnceInv /\ [Next]_vars => OnceInv'
  BY WindowInductive, TwoListsInductive, OnceInductive DEF OnceInv
<1>2. Spec => [](IInv /\ Ledger)
  BY TypeInitially, TypeInductive, LedgerInitially, LedgerInductive, PTL DEF Spec
<1>3. Spec => []OnceInv
  BY <1>1, <1>2, OnceInitially, Audits, PTL DEF Spec
<1>4. OnceInv => ToldOnce
  BY DEF OnceInv, Once, ToldOnce
<1> QED BY <1>3, <1>4, PTL

-----------------------------------------------------------------------------
(* Repeats within the window.                                              *)

(* The key as a function of the event.                                     *)
KeyOf(event, d) == IF event.incident # NoIncident THEN <<event.svc, "vendor", event.incident, 0>>
                                                  ELSE <<event.svc, "fallback", event.to, d>>

(* The tasks that have decided to alert of an outage with this key and     *)
(* have not recorded it.                                                   *)
Holds(t, key) ==
  /\ Deciding(t) /\ verdict[t].by = Fired /\ events[verdict[t].event].to # "operational"
  /\ KeyOf(events[verdict[t].event], verdict[t].day) = key
Holders(key) == {t \in Task : Holds(t, key)}

(* A row takes the place of the task that held it.                         *)
Few == \A key : Cardinality(Alike(key)) + Cardinality(Holders(key)) <= Cardinality(Task)

LEMMA TasksAreFinite ==
  /\ IsFiniteSet(Task) /\ Cardinality(Task) \in Nat
  /\ \A S \in SUBSET Task : IsFiniteSet(S) /\ Cardinality(S) \in Nat /\ Cardinality(S) <= Cardinality(Task)
<1>1. IsFiniteSet(Task)
  BY EngineAssumption, FS_AddElement DEF Task
<1> QED BY <1>1, FS_CardinalityType, FS_Subset

LEMMA AlikeIsFinite ==
  ASSUME IInv, NEW key
  PROVE  IsFiniteSet(Alike(key)) /\ Cardinality(Alike(key)) \in Nat
<1>1. Len(log) \in Nat /\ expired \in Nat
  BY LogFacts DEF IInv, TypeOK
<1>2. IsFiniteSet(1..Len(log))
  BY <1>1, FS_Interval
<1>3. Alike(key) \subseteq 1..Len(log)
  BY <1>1 DEF Alike
<1>4. IsFiniteSet(Alike(key))
  BY <1>2, <1>3, FS_Subset
<1> QED BY <1>4, FS_CardinalityType

(* Fewer rows, or fewer tasks.                                             *)
LEMMA NoMore ==
  ASSUME NEW A, IsFiniteSet(A), NEW B \in SUBSET A, NEW H \in SUBSET Task, NEW I \in SUBSET H,
         Cardinality(A) + Cardinality(H) <= Cardinality(Task)
  PROVE  Cardinality(B) + Cardinality(I) <= Cardinality(Task)
<1>1. IsFiniteSet(H) /\ Cardinality(H) \in Nat /\ Cardinality(Task) \in Nat
  BY TasksAreFinite
<1>2. IsFiniteSet(I) /\ Cardinality(I) <= Cardinality(H)
  BY <1>1, FS_Subset
<1>3. IsFiniteSet(B) /\ Cardinality(B) <= Cardinality(A)
  BY FS_Subset
<1>4. Cardinality(A) \in Nat /\ Cardinality(B) \in Nat /\ Cardinality(I) \in Nat
  BY <1>2, <1>3, FS_CardinalityType
<1> QED BY <1>1, <1>2, <1>3, <1>4

(* One row more and one task less.                                         *)
LEMMA InItsPlace ==
  ASSUME NEW A, IsFiniteSet(A), NEW n, n \notin A, NEW H \in SUBSET Task, NEW t \in H,
         Cardinality(A) + Cardinality(H) <= Cardinality(Task)
  PROVE  Cardinality(A \cup {n}) + Cardinality(H \ {t}) <= Cardinality(Task)
<1>1. IsFiniteSet(H) /\ Cardinality(H) \in Nat /\ Cardinality(Task) \in Nat
  BY TasksAreFinite
<1>2. Cardinality(A \cup {n}) = Cardinality(A) + 1
  BY FS_AddElement
<1>3. Cardinality(H \ {t}) = Cardinality(H) - 1
  BY <1>1, FS_RemoveElement
<1>4. Cardinality(A) \in Nat
  BY FS_CardinalityType
<1> QED BY <1>1, <1>2, <1>3, <1>4

LEMMA FewInitially == Init => Few
<1> SUFFICES ASSUME Init, NEW key PROVE Cardinality(Alike(key)) + Cardinality(Holders(key)) <= Cardinality(Task)
  BY DEF Few
<1>1. Len(log) = 0 /\ expired = 0
  BY DEF Init
<1>2. Alike(key) = {}
  BY <1>1 DEF Alike
<1>3. Holders(key) = {}
  BY DEF Init, Holders, Holds, Deciding
<1> QED BY <1>2, <1>3, FS_EmptySet, TasksAreFinite

LEMMA AlikeRows ==
  ASSUME NEW key, NEW i
  PROVE  i \in Alike(key) <=> /\ i \in (expired + 1)..Len(log) /\ log[i].by = Fired
                              /\ events[log[i].event].to # "operational"
                              /\ KeyOf(events[log[i].event], log[i].day) = key
<1>1. Key(log[i].event, log[i].day) = KeyOf(events[log[i].event], log[i].day)
  BY DEF Key, KeyOf, Svc
<1>2. i \in Alike(key) <=> /\ i \in (expired + 1)..Len(log) /\ log[i].by = Fired
                           /\ events[log[i].event].to # "operational"
                           /\ Key(log[i].event, log[i].day) = key
  BY DEF Alike
<1> QED BY <1>1, <1>2

LEMMA AlikeRowsAfter ==
  ASSUME NEW key, NEW i
  PROVE  i \in Alike(key)' <=> /\ i \in (expired' + 1)..Len(log') /\ log'[i].by = Fired
                               /\ events'[log'[i].event].to # "operational"
                               /\ KeyOf(events'[log'[i].event], log'[i].day) = key
<1>1. Key(log[i].event, log[i].day)' = KeyOf(events'[log'[i].event], log'[i].day)
  BY DEF Key, KeyOf, Svc
<1>2. i \in Alike(key)' <=> /\ i \in (expired' + 1)..Len(log') /\ log'[i].by = Fired
                            /\ events'[log'[i].event].to # "operational"
                            /\ Key(log[i].event, log[i].day)' = key
  BY DEF Alike
<1> QED BY <1>1, <1>2

LEMMA SameRows ==
  ASSUME IInv, [Next]_vars, UNCHANGED log, expired' >= expired, NEW key
  PROVE  Alike(key)' \subseteq Alike(key)
<1>1. \A i \in DOMAIN log : log[i].event \in DOMAIN events
  BY DEF IInv, RowsAreOfEvents
<1>2. expired \in Nat /\ Len(log) \in Nat /\ DOMAIN log = 1..Len(log)
  BY LogFacts DEF IInv, TypeOK
<1>3. expired' \in Nat
  BY TypeInductive DEF IInv, TypeOK
<1>4. (expired' + 1)..Len(log) \subseteq (expired + 1)..Len(log) /\ (expired' + 1)..Len(log) \subseteq DOMAIN log
  BY <1>2, <1>3
<1>5. ASSUME NEW i \in Alike(key)' PROVE i \in Alike(key)
  <2>1. /\ i \in (expired' + 1)..Len(log') /\ log'[i].by = Fired /\ events'[log'[i].event].to # "operational"
        /\ KeyOf(events'[log'[i].event], log'[i].day) = key
    BY AlikeRowsAfter
  <2>2. log[i].event \in DOMAIN events /\ i \in (expired + 1)..Len(log)
    BY <1>1, <1>4, <2>1
  <2>3. events'[log[i].event] = events[log[i].event]
    BY <2>2, Monotone
  <2> QED BY <2>1, <2>2, <2>3, AlikeRows
<1> QED BY <1>5

LEMMA SameHolder ==
  ASSUME IInv, [Next]_vars, NEW t \in Task, NEW key, Holds(t, key)', pc'[t] = pc[t], verdict'[t] = verdict[t]
  PROVE  Holds(t, key)
<1>1. Deciding(t) /\ verdict[t].by = Fired
  BY DEF Holds, Deciding
<1>2. verdict[t].event \in DOMAIN events
  BY <1>1 DEF Deciding, IInv, TypeOK, Locals
<1>3. events'[verdict[t].event] = events[verdict[t].event]
  BY <1>2, Monotone
<1>4. events'[verdict'[t].event].to # "operational" /\ KeyOf(events'[verdict'[t].event], verdict'[t].day) = key
  BY DEF Holds
<1> QED BY <1>1, <1>3, <1>4 DEF Holds

(* A decision to alert of an outage finds no row with its key.             *)
LEMMA DecidedAlone ==
  ASSUME IInv, NEW e, NEW a, Suppression(e, a) = Fired, events[e].to # "operational"
  PROVE  Alike(KeyOf(events[e], day)) = {}
<1>1. ~RecentlyAlerted(Key(e, day))
  BY DEF Suppression, Fired
<1>2. Key(e, day) = KeyOf(events[e], day)
  BY DEF Key, KeyOf, Svc
<1> QED BY <1>1, <1>2 DEF RecentlyAlerted, Alike

LEMMA FewInductive == IInv /\ Few /\ [Next]_vars => Few'
<1> SUFFICES ASSUME IInv, Few, [Next]_vars, NEW key
             PROVE  Cardinality(Alike(key)') + Cardinality(Holders(key)') <= Cardinality(Task)
  BY DEF Few
<1>1. /\ Cardinality(Alike(key)) + Cardinality(Holders(key)) <= Cardinality(Task)
      /\ IsFiniteSet(Alike(key)) /\ Holders(key) \in SUBSET Task /\ Holders(key)' \in SUBSET Task
  BY AlikeIsFinite DEF Few, Holders
<1>2. ASSUME Alike(key)' \subseteq Alike(key), Holders(key)' \subseteq Holders(key)
      PROVE  Cardinality(Alike(key)') + Cardinality(Holders(key)') <= Cardinality(Task)
  BY <1>1, <1>2, NoMore
<1>3. expired \in Nat
  BY DEF IInv, TypeOK
<1>4. ASSUME UNCHANGED log, expired' >= expired,
             \A t \in Task : (pc'[t] = pc[t] /\ verdict'[t] = verdict[t]) \/ ~Deciding(t)'
      PROVE  Cardinality(Alike(key)') + Cardinality(Holders(key)') <= Cardinality(Task)
  <2>1. Alike(key)' \subseteq Alike(key)
    BY <1>4, SameRows
  <2>2. ASSUME NEW t \in Holders(key)' PROVE t \in Holders(key)
    <3>1. t \in Task /\ Holds(t, key)'
      BY DEF Holders
    <3>2. pc'[t] = pc[t] /\ verdict'[t] = verdict[t]
      BY <1>4, <3>1 DEF Holds
    <3> QED BY <3>1, <3>2, SameHolder DEF Holders
  <2> QED BY <1>2, <2>1, <2>2
<1>5. ASSUME NEW t \in Task, Decide(t) \/ DecideGroup(t)
      PROVE  Cardinality(Alike(key)') + Cardinality(Holders(key)') <= Cardinality(Task)
  <2>1. /\ UNCHANGED <<log, events, expired, day>> /\ ~Deciding(t)
        /\ \A u \in Task \ {t} : pc'[u] = pc[u] /\ verdict'[u] = verdict[u]
    <3>1. UNCHANGED <<log, events, expired, day>> /\ pc[t] \in {"route", "group"}
      BY <1>5 DEF Decide, DecideGroup, tables, clock
    <3> QED BY <1>5, <3>1, OwnLocals DEF Step, Deciding
  <2>2. Alike(key)' \subseteq Alike(key)
    BY <1>3, <2>1, SameRows
  <2>3. CASE t \in Holders(key)'
    <3>1. Holds(t, key)'
      BY <2>3 DEF Holders
    <3>2. \E e, a : verdict' = [verdict EXCEPT ![t] = [event |-> e, by |-> Suppression(e, a), day |-> day]]
      <4>1. CASE Decide(t)
        BY <4>1 DEF Decide, Set
      <4>2. CASE DecideGroup(t)
        BY <4>2 DEF DecideGroup, Set
      <4> QED BY <1>5, <4>1, <4>2
    <3>3. PICK e, a : verdict' = [verdict EXCEPT ![t] = [event |-> e, by |-> Suppression(e, a), day |-> day]]
      BY <3>2
    <3>4. verdict'[t].event = e /\ verdict'[t].by = Suppression(e, a) /\ verdict'[t].day = day
      <4>1. verdict'[t] = [event |-> e, by |-> Suppression(e, a), day |-> day]
        BY <3>3 DEF IInv, Locals
      <4> QED BY <4>1
    <3>5. Suppression(e, a) = Fired /\ events[e].to # "operational" /\ KeyOf(events[e], day) = key
      BY <2>1, <3>1, <3>4 DEF Holds
    <3>6. Alike(key)' = {}
      BY <2>2, <3>5, DecidedAlone
    <3>7. Cardinality(Holders(key)') \in Nat /\ Cardinality(Holders(key)') <= Cardinality(Task)
      BY <1>1, TasksAreFinite
    <3> QED BY <3>6, <3>7, FS_EmptySet
  <2>4. CASE t \notin Holders(key)'
    <3>1. ASSUME NEW u \in Holders(key)' PROVE u \in Holders(key)
      <4>1. u \in Task \ {t} /\ Holds(u, key)'
        BY <2>4 DEF Holders
      <4> QED BY <2>1, <4>1, SameHolder DEF Holders
    <3> QED BY <1>2, <2>2, <3>1
  <2> QED BY <2>3, <2>4
<1>6. ASSUME NEW t \in Task, Record(t) \/ RecordGroup(t)
      PROVE  Cardinality(Alike(key)') + Cardinality(Holders(key)') <= Cardinality(Task)
  <2>1. PICK n : n = Len(log) + 1
    OBVIOUS
  <2>2. /\ DOMAIN log' = (DOMAIN log) \cup {n} /\ n \notin DOMAIN log /\ \A i \in DOMAIN log : log'[i] = log[i]
        /\ UNCHANGED <<events, verdict, expired>> /\ Deciding(t) /\ ~Deciding(t)'
        /\ \A u \in Task \ {t} : pc'[u] = pc[u]
        /\ log'[n] = VerdictRow(t, "status_change") \/ log'[n] = VerdictRow(t, "aggregated_upstream")
    BY <1>6, <2>1, RecordEffect, RecordGroupEffect DEF Deciding, clock
  <2>3. log'[n].event = verdict[t].event /\ log'[n].by = verdict[t].by /\ log'[n].day = verdict[t].day
    BY <2>2, VerdictRowFields
  <2>4. Holders(key)' \subseteq Holders(key) \ {t}
    <3>1. ASSUME NEW u \in Holders(key)' PROVE u \in Holders(key) \ {t}
      <4>1. u \in Task /\ Holds(u, key)'
        BY DEF Holders
      <4>2. u # t
        BY <2>2, <4>1 DEF Holds
      <4> QED BY <2>2, <4>1, <4>2, SameHolder DEF Holders
    <3> QED BY <3>1
  <2>5. /\ Len(log) \in Nat /\ DOMAIN log = 1..Len(log)
        /\ Len(log') = Len(log) + 1
    <3>3. Len(log) \in Nat /\ DOMAIN log = 1..Len(log)
      BY LogFacts DEF IInv
    <3>4. PICK k \in {"status_change", "aggregated_upstream"} : InsertRow(t, k)
      BY <1>6 DEF Record, RecordGroup
    <3>5. Len(log') = Len(log) + 1
      BY <1>6, <3>4, InsertIsRow DEF Record, RecordGroup
    <3> QED BY <3>3, <3>5
  <2>6. (expired + 1)..Len(log') = ((expired + 1)..Len(log)) \cup {n}
    <3>1. expired \in Nat /\ expired <= Len(log)
      BY <2>5 DEF IInv, TypeOK
    <3> QED BY <2>1, <2>5, <3>1
  <2>7. n \notin Alike(key) /\ Alike(key)' \subseteq Alike(key) \cup {n}
    <3>1. (expired + 1)..Len(log) \subseteq DOMAIN log
      BY <1>3, <2>5
    <3>2. ASSUME NEW i \in Alike(key)' PROVE i \in Alike(key) \/ i = n
      <4>1. /\ i \in (expired + 1)..Len(log') /\ log'[i].by = Fired /\ events[log'[i].event].to # "operational"
            /\ KeyOf(events[log'[i].event], log'[i].day) = key
        BY <2>2, AlikeRowsAfter
      <4>2. CASE i # n
        <5>1. i \in (expired + 1)..Len(log) /\ log'[i] = log[i]
          BY <2>2, <2>6, <3>1, <4>1, <4>2
        <5> QED BY <4>1, <5>1, AlikeRows
      <4> QED BY <4>2
    <3> QED BY <2>2, <3>1, <3>2 DEF Alike
  <2>8. CASE n \in Alike(key)'
    <3>1. /\ log'[n].by = Fired /\ events[log'[n].event].to # "operational"
          /\ KeyOf(events[log'[n].event], log'[n].day) = key
      BY <2>2, <2>8, AlikeRowsAfter
    <3>3. t \in Holders(key)
      BY <2>2, <2>3, <3>1 DEF Holders, Holds
    <3>4. Cardinality(Alike(key) \cup {n}) + Cardinality(Holders(key) \ {t}) <= Cardinality(Task)
      BY <1>1, <2>7, <3>3, InItsPlace
    <3>5. IsFiniteSet(Alike(key) \cup {n}) /\ Holders(key) \ {t} \in SUBSET Task
      BY <1>1, FS_AddElement
    <3> QED BY <2>4, <2>7, <3>4, <3>5, NoMore
  <2>9. CASE n \notin Alike(key)'
    BY <1>2, <2>4, <2>7, <2>9
  <2> QED BY <2>8, <2>9
<1>7. ASSUME NEW t \in Task, Step(t) \/ Fail(t)
      PROVE  Cardinality(Alike(key)') + Cardinality(Holders(key)') <= Cardinality(Task)
  <2>1. CASE Correlate(t) \/ Impact(t) \/ SkipWarmUp(t) \/ Routed(t) \/ Grouped(t) \/ SendHeadline(t)
             \/ HeadlinesSent(t) \/ SendBatch(t) \/ SendSingle(t) \/ Done(t) \/ Fail(t)
    <3>1. ~Deciding(t)' /\ UNCHANGED <<log, expired>>
      <4>1. CASE Correlate(t) \/ Impact(t) \/ SkipWarmUp(t) \/ Routed(t) \/ Grouped(t)
        BY <4>1 DEF Correlate, Impact, SkipWarmUp, Routed, Grouped, Goto, Deciding, IInv, Locals, tables, clock
      <4>2. CASE SendHeadline(t) \/ HeadlinesSent(t) \/ SendBatch(t) \/ SendSingle(t) \/ Done(t) \/ Fail(t)
        BY <4>2 DEF SendHeadline, HeadlinesSent, SendBatch, SendSingle, Done, Fail, Finish, Goto, Deciding,
           IInv, Locals, tables, clock
      <4> QED BY <2>1, <4>1, <4>2
    <3>2. expired' >= expired
      BY <1>3, <3>1
    <3> QED BY <1>4, <1>7, <3>1, <3>2, OwnLocals
  <2> QED BY <1>5, <1>6, <1>7, <2>1 DEF Step
<1>8. ASSUME NEW t \in Task, NEW n \in Nat \ {0}, NEW changes \in [1..n -> Event], Arrive(t, changes)
      PROVE  Cardinality(Alike(key)') + Cardinality(Holders(key)') <= Cardinality(Task)
  <2>1. /\ UNCHANGED <<log, expired, verdict>> /\ ~Deciding(t)'
        /\ \A u \in Task \ {t} : pc'[u] = pc[u]
    BY <1>8, ArriveLocals DEF Deciding, clock
  <2>2. expired' >= expired
    BY <1>3, <2>1
  <2> QED BY <1>4, <2>1, <2>2
<1>9. CASE Environment
  <2>1. CASE Crash
    <3>1. UNCHANGED <<log, expired>> /\ \A t \in Task : ~Deciding(t)'
      BY <2>1 DEF Crash, Deciding, tables, clock
    <3>2. expired' >= expired
      BY <1>3, <3>1
    <3> QED BY <1>4, <3>1, <3>2
  <2>2. CASE Midnight \/ Expire \/ (\E s \in Maintained : MaintenanceTurns(s)) \/ UNCHANGED vars
    <3>1. UNCHANGED <<log, pc, verdict>> /\ (expired' = expired \/ expired' = expired + 1)
      BY <2>2 DEF Midnight, Expire, MaintenanceTurns, vars, tables, clock, locals
    <3>2. expired' >= expired
      BY <1>3, <3>1
    <3> QED BY <1>4, <3>1, <3>2
  <2> QED BY <1>9, <2>1, <2>2 DEF Environment
<1> QED BY <1>7, <1>8, <1>9, StepKinds

(* "Dedup window blocks repeats", for any number of tasks at once: of      *)
(* alerts of outages with one key, the window never holds more than one of *)
(* each task, however tasks, failures, crashes, midnights and expiries     *)
(* come between decisions and their records.                               *)
THEOREM WindowBlocksRepeats == Spec => []RepeatsAreConcurrent
<1>1. IInv /\ Few /\ [Next]_vars => (IInv /\ Few)'
  BY TypeInductive, FewInductive
<1>2. Spec => [](IInv /\ Few)
  BY <1>1, TypeInitially, FewInitially, PTL DEF Spec
<1>3. IInv /\ Few => RepeatsAreConcurrent
  <2> SUFFICES ASSUME IInv, Few, NEW key PROVE Cardinality(Alike(key)) <= Cardinality(Task)
    BY DEF RepeatsAreConcurrent
  <2>1. Cardinality(Alike(key)) + Cardinality(Holders(key)) <= Cardinality(Task)
    BY DEF Few
  <2>2. Holders(key) \in SUBSET Task
    BY DEF Holders
  <2>3. Cardinality(Holders(key)) \in Nat /\ Cardinality(Task) \in Nat
    BY <2>2, TasksAreFinite
  <2>4. Cardinality(Alike(key)) \in Nat
    BY AlikeIsFinite
  <2> QED BY <2>1, <2>3, <2>4
<1> QED BY <1>2, <1>3, PTL

=============================================================================
