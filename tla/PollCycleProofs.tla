---------------------------- MODULE PollCycleProofs ----------------------------
(***************************************************************************)
(* PollCycle for any services, hosts, pages, thresholds and attempts.      *)
(***************************************************************************)
EXTENDS PollCycle, Folding, TLAPS

Pages == {NoPage} \cup UNION {Page[t] : t \in PollType}
Outcome == [stage : {"idle", "sent", "refused", "failed", "read"}, page : Pages, tries : 0..(Attempts - 1)]

Fetching == \A r \in Service : fetch[r] \in Outcome /\ (pc # "fetching" => fetch[r] = Idle)

(* What the steps between them keep of the failures and the announcements: *)
(* a broken poller has failed often enough, and only the news of a cycle   *)
(* that is not over yet is still to be told.                               *)
BrokenHasFailed == \A s \in Service : health[s] = "broken" => failures[s] >= FailureThreshold
NewsIsToCome    == pc \in {"idle", "fetching"} => news = {}
Known           == \A s \in Service \ news : told[s] # "missed" => (told[s] = "broken" <=> health[s] = "broken")

(* A closed breaker has not counted more failures than there were.         *)
Counted == \A h \in Host : breaker[h].state = "closed" => breaker[h].failures <= streak[h]

Shape ==
  /\ setup \in Configuration
  /\ breaker \in [Host -> Breaker] /\ streak \in [Host -> 0..BreakerThreshold]
  /\ fetch \in [Service -> Outcome] /\ Fetching
  /\ pc \in {"idle", "fetching", "alerts", "health"}
  /\ failures \in [Service -> 0..FailureCap]
  /\ health \in [Service -> Health] /\ told \in [Service -> Health \cup {"missed"}]
  /\ news \subseteq Service

IInv == Shape /\ BrokenHasFailed /\ NewsIsToCome /\ Known /\ Counted

-----------------------------------------------------------------------------
(* The breaker and the failure counter.                                    *)

LEMMA Bounds ==
  /\ BreakerThreshold \in Nat /\ BreakerThreshold > 0 /\ BreakerTtl \in Nat /\ Attempts \in Nat /\ Attempts > 0
  /\ FailureThreshold \in Nat /\ FailureThreshold > 0 /\ FailureCap \in Nat /\ FailureCap > FailureThreshold
BY CycleAssumption, ThresholdAssumption DEF FailureCap

LEMMA BreakerFacts ==
  ASSUME NEW b \in Breaker
  PROVE  /\ Asked(b) \in Breaker /\ Succeeded(b) \in Breaker /\ FailedOnce(b) \in Breaker
         /\ Asked(b).state = "closed" => Asked(b) = b
         /\ b.state = "closed" => Asked(b).state = "closed"
         /\ b.state = "closed" => Succeeded(b).state = "closed"
         /\ Succeeded(b).state = "closed" => Succeeded(b).failures = 0
         /\ FailedOnce(b).state = "closed" => (/\ b.state = "closed" /\ FailedOnce(b).failures = b.failures + 1
                                               /\ b.failures + 1 < BreakerThreshold)
         /\ b.state = "closed" /\ FailedOnce(b).state = "opened" => b.failures + 1 >= BreakerThreshold
<1>1. Asked(b) \in Breaker /\ (Asked(b).state = "closed" => Asked(b) = b)
      /\ (b.state = "closed" => Asked(b).state = "closed")
  <2>1. CASE b.state # "opened"
    BY <2>1 DEF Asked, Breaker
  <2>2. CASE b.state = "opened" /\ b.age >= BreakerTtl
    <3>1. Asked(b) = [b EXCEPT !.state = "half_opened", !.age = 0]
      BY <2>2, Bounds DEF Asked, Breaker
    <3>2. Asked(b) = [state |-> "half_opened", failures |-> b.failures, age |-> 0]
      BY <3>1 DEF Breaker
    <3> QED BY <2>2, <3>2, Bounds DEF Breaker
  <2>3. CASE b.state = "opened" /\ ~(b.age >= BreakerTtl)
    <3>1. Asked(b) = [b EXCEPT !.age = b.age + 1]
      BY <2>3, Bounds DEF Asked, Breaker
    <3> QED BY <2>3, <3>1, Bounds DEF Breaker
  <2> QED BY <2>1, <2>2, <2>3
<1>2. Succeeded(b) \in Breaker /\ (b.state = "closed" => Succeeded(b).state = "closed")
      /\ (Succeeded(b).state = "closed" => Succeeded(b).failures = 0)
  BY Bounds DEF Breaker, Succeeded, Closed
<1>3. CASE b.state # "closed"
  BY <1>1, <1>2, <1>3, Bounds DEF Breaker, FailedOnce, Opened
<1>4. CASE b.state = "closed" /\ b.failures + 1 >= BreakerThreshold
  BY <1>1, <1>2, <1>4, Bounds DEF Breaker, FailedOnce, Opened
<1>5. CASE b.state = "closed" /\ ~(b.failures + 1 >= BreakerThreshold)
  <2>1. FailedOnce(b) = [b EXCEPT !.failures = b.failures + 1]
    BY <1>5 DEF FailedOnce
  <2> QED BY <1>1, <1>2, <1>5, <2>1, Bounds DEF Breaker
<1> QED BY <1>3, <1>4, <1>5

LEMMA CounterFacts ==
  ASSUME NEW n \in 0..FailureCap, NEW ok \in BOOLEAN
  PROVE  /\ NewFailures(n, ok) \in 0..FailureCap
         /\ ok <=> NewFailures(n, ok) = 0
         /\ ~ok /\ n >= FailureThreshold => NewFailures(n, ok) >= FailureThreshold
BY Bounds DEF NewFailures

LEMMA HealthFacts ==
  ASSUME NEW n \in Nat, NEW ok \in BOOLEAN
  PROVE  /\ ComputeNewHealth(n, ok) \in Health
         /\ ok <=> ComputeNewHealth(n, ok) = "healthy"
         /\ ComputeNewHealth(n, ok) = "broken" <=> ~ok /\ n >= FailureThreshold
BY DEF ComputeNewHealth, Health

-----------------------------------------------------------------------------
(* What each kind of step does to the breakers, the requests and the rows. *)

LEMMA PolledTypes == setup \in Configuration => \A s \in Polled : s \in Service /\ pollType[s] \in PollType
BY CycleAssumption DEF Polled, pollType

(* The first row of some services is one of them.                          *)
LEMMA FirstIsThere ==
  ASSUME NEW S \in SUBSET Service, S # {}
  PROVE  FirstOf(S) \in S
<1> DEFINE G == {T \in SUBSET S : T # {} => \E s \in T : \A t \in T : Place[s] <= Place[t]}
<1>1. \A T \in SUBSET S : T # {} => \E x \in T : T \ {x} \in G => T \in G
  <2> SUFFICES ASSUME NEW T \in SUBSET S, NEW x \in T, T \ {x} \in G PROVE T \in G
    OBVIOUS
  <2>1. \A s, t \in S : Place[s] \in Int /\ Place[t] \in Int
    BY CycleAssumption
  <2>2. CASE T \ {x} = {}
    BY <2>1, <2>2
  <2>3. CASE T \ {x} # {}
    <3>1. PICK s \in T \ {x} : \A t \in T \ {x} : Place[s] <= Place[t]
      BY <2>3
    <3>2. CASE Place[s] <= Place[x]
      BY <2>1, <3>1, <3>2
    <3>3. CASE ~(Place[s] <= Place[x])
      <4>1. \A t \in T : Place[x] <= Place[t]
        BY <2>1, <3>1, <3>3
      <4> QED BY <4>1
    <3> QED BY <3>2, <3>3
  <2> QED BY <2>2, <2>3
<1>2. IsFiniteSet(S) /\ {} \in G
  BY CycleAssumption, FS_Subset
<1>3. S \in G
  <2> HIDE DEF G
  <2> QED BY <1>1, <1>2, Growing
<1> QED BY <1>3 DEF FirstOf

(* A request is made for a service of the type that asks.                  *)
LEMMA AskerFacts ==
  ASSUME setup \in Configuration, NEW s \in Polled
  PROVE  /\ s \in Service /\ Asker(s) \in Service
         /\ pollType[s] \in PollType /\ pollType[Asker(s)] = pollType[s]
<1>1. s \in Service /\ pollType[s] \in PollType
  BY PolledTypes
<1>2. CASE pollType[s] = "statuspage_json"
  <2> DEFINE S == {t \in OfType("statuspage_json") : UrlOf[t] = UrlOf[s]}
  <2>1. S \subseteq Service /\ s \in S
    BY <1>1, <1>2 DEF OfType
  <2>2. FirstOf(S) \in S
    <3> HIDE DEF S
    <3> QED BY <2>1, FirstIsThere
  <2> QED BY <1>1, <1>2, <2>2 DEF Asker, OfType
<1>3. CASE pollType[s] = "product_feed_json"
  <2> DEFINE S == OfType("product_feed_json")
  <2>1. S \subseteq Service /\ s \in S
    BY <1>1, <1>3 DEF OfType
  <2>2. FirstOf(S) \in S
    <3> HIDE DEF S
    <3> QED BY <2>1, FirstIsThere
  <2> QED BY <1>1, <1>3, <2>2 DEF Asker, OfType
<1> QED BY <1>1, <1>2, <1>3 DEF Asker

LEMMA Kinds ==
  ASSUME setup \in Configuration, [Next]_vars
  PROVE  \/ UNCHANGED vars \/ StartCycle \/ Detect \/ DetectRaises
         \/ AlertsRaise \/ AlertsDone \/ Announce \/ NowhereToAnnounce
         \/ \E r \in Service, p \in Pages :
              Retry(r) \/ RequestFails(r) \/ Answer(r, Failed) \/ Answer(r, Read(p))
<1>1. \A r \in Service : PagesFor(r) \subseteq Pages
  <2>1. \A r \in Requested : \E s \in Polled : r = Asker(s)
    BY DEF Requested
  <2>2. \A r \in Requested : pollType[r] \in PollType
    BY <2>1, AskerFacts
  <2> QED BY <2>2 DEF PagesFor, Pages
<1>2. NoPage \in Pages
  BY DEF Pages
<1>3. ASSUME NEW r \in Service, FetchStep(r)
      PROVE  \E p \in Pages : Retry(r) \/ RequestFails(r) \/ Answer(r, Failed) \/ Answer(r, Read(p))
  BY <1>1, <1>2, <1>3 DEF FetchStep, Garbled, Answers, Malformed
<1> QED BY <1>3 DEF Next, CycleStep, NothingToPoll

LEMMA OutcomesOK ==
  /\ Idle \in Outcome /\ Sent \in Outcome /\ Refused \in Outcome /\ Failed \in Outcome
  /\ \A p \in Pages : Read(p) \in Outcome
BY Bounds DEF Outcome, Idle, Sent, Refused, Failed, Read, Pages

LEMMA StartEffect ==
  ASSUME IInv, StartCycle
  PROVE  /\ pc = "idle" /\ pc' = "fetching" /\ UNCHANGED <<setup, failures, health, news, told, streak>>
         /\ breaker' \in [Host -> Breaker] /\ fetch' \in [Service -> Outcome]
         /\ \A h \in Host : breaker'[h] = breaker[h] \/ breaker'[h] = Asked(breaker[h])
<1>1. \A h \in Host : Asked(breaker[h]) \in Breaker
  BY BreakerFacts DEF IInv, Shape
<1>2. breaker' = [h \in Host |-> IF h \in {HostAsked(r) : r \in Requested} THEN Asked(breaker[h]) ELSE breaker[h]]
  BY Zenon DEF StartCycle
<1>3. breaker' \in [Host -> Breaker] /\ \A h \in Host : breaker'[h] = breaker[h] \/ breaker'[h] = Asked(breaker[h])
  BY <1>1, <1>2 DEF IInv, Shape
<1>4. fetch' = [r \in Service |->
       IF r \notin Requested THEN Idle
       ELSE IF Admits(breaker[HostAsked(r)]) THEN Sent ELSE Refused]
  BY DEF StartCycle
<1>5. fetch' \in [Service -> Outcome]
  BY <1>4, OutcomesOK
<1> QED BY <1>3, <1>5 DEF StartCycle, rows

LEMMA HeardAreServices == IInv => Heard \subseteq Service
BY PolledTypes DEF IInv, Shape, Heard

(* What detection does for the results it comes to.                        *)
LEMMA AssessEffect ==
  ASSUME IInv, NEW done \in SUBSET Service, Assess(done)
  PROVE  /\ failures' \in [Service -> 0..FailureCap] /\ health' \in [Service -> Health]
         /\ \A s \in Service \ done : failures'[s] = failures[s] /\ health'[s] = health[s]
         /\ \A s \in done :
              /\ failures'[s] = NewFailures(failures[s], Succeeds(s))
              /\ health'[s] = ComputeNewHealth(failures'[s], Succeeds(s))
<1>0. \A s \in Service : failures[s] \in 0..FailureCap /\ Succeeds(s) \in BOOLEAN
  BY DEF IInv, Shape, Succeeds
<1>2. \A s \in Service : NewFailures(failures[s], Succeeds(s)) \in 0..FailureCap
  BY <1>0, CounterFacts
<1>3. failures' = [s \in Service |-> IF s \in done THEN NewFailures(failures[s], Succeeds(s)) ELSE failures[s]]
  BY DEF Assess
<1>4. failures' \in [Service -> 0..FailureCap]
  BY <1>2, <1>3 DEF IInv, Shape
<1>5. health' = [s \in Service |-> IF s \in done THEN ComputeNewHealth(failures'[s], Succeeds(s)) ELSE health[s]]
  BY DEF Assess
<1>6. \A s \in Service : ComputeNewHealth(failures'[s], Succeeds(s)) \in Health
  <2>1. \A s \in Service : failures'[s] \in Nat /\ Succeeds(s) \in BOOLEAN
    BY <1>0, <1>4, Bounds
  <2> QED BY <2>1, HealthFacts
<1>7. health' \in [Service -> Health]
  BY <1>5, <1>6 DEF IInv, Shape
<1> QED BY <1>3, <1>4, <1>5, <1>7

(* It keeps broken pollers failing, and what it calls no change is none.   *)
LEMMA AssessKeeps ==
  ASSUME IInv, NEW done \in SUBSET Service, Assess(done)
  PROVE  /\ BrokenHasFailed'
         /\ \A s \in Service \ Changed(done) : health'[s] = "broken" <=> health[s] = "broken"
<1>1. \A s \in Service : failures[s] \in 0..FailureCap /\ failures'[s] \in 0..FailureCap /\ Succeeds(s) \in BOOLEAN
  BY AssessEffect DEF IInv, Shape, Succeeds
<1>2. ASSUME NEW s \in Service PROVE health'[s] = "broken" => failures'[s] >= FailureThreshold
  <2>1. CASE s \in done
    <3>1. failures'[s] \in Nat /\ health'[s] = ComputeNewHealth(failures'[s], Succeeds(s))
      BY <1>1, <2>1, AssessEffect, Bounds
    <3> QED BY <1>1, <3>1, HealthFacts
  <2>2. CASE s \notin done
    BY <2>2, AssessEffect DEF IInv, BrokenHasFailed
  <2> QED BY <2>1, <2>2
<1>3. ASSUME NEW s \in Service \ Changed(done)
      PROVE  health'[s] = "broken" <=> health[s] = "broken"
  <2>1. CASE s \in done
    <3> DEFINE ok == Succeeds(s)
    <3>1. HealthNews(health[s], health'[s]) = "none"
      BY <1>3, <2>1 DEF Changed
    <3>2. /\ health'[s] = ComputeNewHealth(failures'[s], ok) /\ failures'[s] = NewFailures(failures[s], ok)
          /\ failures[s] \in 0..FailureCap /\ failures'[s] \in 0..FailureCap /\ ok \in BOOLEAN
      BY <1>1, <2>1, AssessEffect
    <3> HIDE DEF ok
    <3>3. health[s] = "broken" /\ ~ok => failures'[s] >= FailureThreshold
      BY <3>2, CounterFacts DEF IInv, BrokenHasFailed
    <3>4. /\ ok <=> health'[s] = "healthy"
          /\ health'[s] = "broken" <=> ~ok /\ failures'[s] >= FailureThreshold
      BY <3>2, HealthFacts, Bounds
    <3> QED BY <3>1, <3>3, <3>4 DEF HealthNews
  <2>2. CASE s \notin done
    BY <2>2, AssessEffect
  <2> QED BY <2>1, <2>2
<1> QED BY <1>2, <1>3 DEF BrokenHasFailed

LEMMA DetectEffect ==
  ASSUME IInv, Detect
  PROVE  /\ pc = "fetching" /\ pc' = "alerts" /\ UNCHANGED <<setup, breaker, told, streak>>
         /\ fetch' = [r \in Service |-> Idle]
         /\ Heard \in SUBSET Service /\ Assess(Heard) /\ news' = Changed(Heard) /\ news' \subseteq Service
<1>1. Heard \subseteq Service
  BY HeardAreServices
<1> QED BY <1>1 DEF Detect, AllAnswered, Changed

LEMMA RaisesEffect ==
  ASSUME IInv, DetectRaises
  PROVE  /\ pc = "fetching" /\ pc' = "idle" /\ UNCHANGED <<setup, breaker, news, streak>>
         /\ fetch' = [r \in Service |-> Idle]
         /\ \E r \in Heard : \E done \in Reached(r) :
              /\ Upset(r) \/ setup.faults
              /\ done \in SUBSET Service /\ Assess(done) /\ Missing(Changed(done))
<1>1. \A r \in Heard : \A done \in Reached(r) : done \subseteq Service
  BY HeardAreServices DEF Reached, AheadOf
<1> QED BY <1>1 DEF DetectRaises, AllAnswered

LEMMA AnnounceEffect ==
  ASSUME IInv, Announce
  PROVE  /\ pc = "health" /\ pc' \in {"idle", "health"} /\ (pc' = "idle" => news' = {})
         /\ UNCHANGED <<setup, failures, health, breaker, fetch, streak>>
         /\ \E s \in news : \E word \in {health[s], "missed"} :
              told' = [told EXCEPT ![s] = word] /\ news' = news \ {s}
<1>1. pc' \in {"idle", "health"} /\ (pc' = "idle" => news' = {})
  BY DEF Announce
<1> QED BY <1>1 DEF Announce, rows

LEMMA MissedEffect ==
  ASSUME IInv, AlertsRaise \/ NowhereToAnnounce
  PROVE  /\ pc # "fetching" /\ pc' = "idle" /\ news' = {}
         /\ UNCHANGED <<setup, failures, health, breaker, fetch, streak>>
         /\ told' = [s \in Service |-> IF s \in news THEN "missed" ELSE told[s]]
BY DEF AlertsRaise, NowhereToAnnounce, Missed, Missing, rows

LEMMA DoneEffect ==
  ASSUME IInv, AlertsDone
  PROVE  /\ pc = "alerts" /\ pc' \in {"idle", "health"} /\ (pc' = "idle" => news = {})
         /\ UNCHANGED <<setup, failures, health, breaker, fetch, news, told, streak>>
BY DEF AlertsDone, rows

(* A step of one request leaves the rows and the announcements alone.      *)
LEMMA FetchEffect ==
  ASSUME IInv, NEW r \in Service, NEW p \in Pages, Retry(r) \/ RequestFails(r) \/ Answer(r, Failed) \/ Answer(r, Read(p))
  PROVE  /\ pc = "fetching" /\ UNCHANGED <<setup, failures, health, pc, news, told>>
         /\ fetch' \in [Service -> Outcome]
         /\ LET h == HostAsked(r)
            IN  /\ h \in Host
                /\ \/ UNCHANGED <<breaker, streak>>
                   \/ /\ breaker' = [breaker EXCEPT ![h] = Succeeded(@)]
                      /\ streak' = [streak EXCEPT ![h] = 0]
                   \/ /\ breaker' = [breaker EXCEPT ![h] = FailedOnce(@)]
                      /\ streak' = [streak EXCEPT ![h] = IF @ < BreakerThreshold THEN @ + 1 ELSE @]
<1>0. HostAsked(r) \in Host
  BY CycleAssumption DEF HostAsked
<1>1. fetch[r].stage = "sent"
  BY DEF Retry, RequestFails, Answer
<1>2. pc = "fetching"
  BY <1>1 DEF IInv, Shape, Fetching, Idle
<1>3. CASE Retry(r)
  <2>1. fetch[r] \in Outcome /\ fetch[r].tries + 1 < Attempts
    BY <1>3 DEF IInv, Shape, Retry
  <2>2. [fetch[r] EXCEPT !.tries = @ + 1] \in Outcome
    BY <2>1, Bounds DEF Outcome
  <2>3. fetch' \in [Service -> Outcome]
    BY <1>3, <2>2 DEF IInv, Shape, Retry, Set
  <2> QED BY <1>2, <1>3, <1>0, <2>3 DEF Retry, rows
<1>4. CASE RequestFails(r)
  <2>1. fetch' \in [Service -> Outcome]
    BY <1>4, OutcomesOK DEF IInv, Shape, RequestFails, Set
  <2> QED BY <1>2, <1>4, <1>0, <2>1 DEF RequestFails, Report, rows
<1>5. ASSUME NEW o \in Outcome, Answer(r, o)
      PROVE  /\ fetch' \in [Service -> Outcome] /\ HostAsked(r) \in Host
             /\ UNCHANGED <<setup, failures, health, pc, news, told>>
             /\ breaker' = [breaker EXCEPT ![HostAsked(r)] = Succeeded(@)]
             /\ streak' = [streak EXCEPT ![HostAsked(r)] = 0]
  <2>1. fetch' \in [Service -> Outcome]
    BY <1>5 DEF IInv, Shape, Answer, Set
  <2> QED BY <1>5, <1>0, <2>1 DEF Answer, Report, rows
<1>6. CASE Answer(r, Failed) \/ Answer(r, Read(p))
  BY <1>2, <1>5, <1>6, OutcomesOK
<1> QED BY <1>3, <1>4, <1>6

-----------------------------------------------------------------------------
(* The invariant is inductive.                                             *)

LEMMA IInvInitially == Init => IInv
<1> SUFFICES ASSUME Init PROVE IInv
  OBVIOUS
<1>1. Closed \in Breaker
  BY Bounds DEF Closed, Breaker
<1>2. Shape
  BY <1>1, OutcomesOK, Bounds DEF Init, Shape, Fetching, Health
<1> QED BY <1>2, Bounds DEF Init, IInv, BrokenHasFailed, NewsIsToCome, Known, Counted, Closed

LEMMA IInvInductive == IInv /\ [Next]_vars => IInv'
<1> SUFFICES ASSUME IInv, [Next]_vars PROVE IInv'
  OBVIOUS
<1> USE DEF IInv
<1>1. CASE UNCHANGED vars
  BY <1>1 DEF vars, rows, Shape, Fetching, BrokenHasFailed, NewsIsToCome, Known, Counted
<1>2. CASE StartCycle
  <2>1. Shape'
    BY <1>2, StartEffect DEF Shape, Fetching
  <2>2. Counted'
    BY <1>2, StartEffect, BreakerFacts DEF Counted, Shape
  <2> QED BY <1>2, <2>1, <2>2, StartEffect DEF BrokenHasFailed, NewsIsToCome, Known
<1>3. CASE Detect
  <2>1. /\ pc = "fetching" /\ pc' = "alerts" /\ UNCHANGED <<setup, breaker, told, streak>>
        /\ fetch' = [r \in Service |-> Idle]
        /\ Heard \in SUBSET Service /\ Assess(Heard) /\ news' = Changed(Heard) /\ news' \subseteq Service
    BY <1>3, DetectEffect
  <2>2. /\ failures' \in [Service -> 0..FailureCap] /\ health' \in [Service -> Health] /\ BrokenHasFailed'
        /\ \A s \in Service \ news' : health'[s] = "broken" <=> health[s] = "broken"
    BY <2>1, AssessEffect, AssessKeeps
  <2>3. Shape'
    BY <2>1, <2>2, OutcomesOK DEF Shape, Fetching
  <2>4. Known'
    BY <2>1, <2>2 DEF Known, NewsIsToCome
  <2> QED BY <2>1, <2>2, <2>3, <2>4 DEF NewsIsToCome, Counted
<1>9. CASE DetectRaises
  <2>1. /\ pc = "fetching" /\ pc' = "idle" /\ UNCHANGED <<setup, breaker, news, streak>>
        /\ fetch' = [r \in Service |-> Idle]
    BY <1>9, RaisesEffect
  <2>2. PICK done \in SUBSET Service : Assess(done) /\ Missing(Changed(done))
    BY <1>9, RaisesEffect
  <2>3. /\ failures' \in [Service -> 0..FailureCap] /\ health' \in [Service -> Health] /\ BrokenHasFailed'
        /\ \A s \in Service \ Changed(done) : health'[s] = "broken" <=> health[s] = "broken"
    BY <2>2, AssessEffect, AssessKeeps
  <2>4. told' = [s \in Service |-> IF s \in Changed(done) THEN "missed" ELSE told[s]]
    BY <2>2 DEF Missing
  <2>5. Shape'
    BY <2>1, <2>3, <2>4, OutcomesOK DEF Shape, Fetching
  <2>6. Known'
    BY <2>1, <2>3, <2>4 DEF Known, NewsIsToCome
  <2> QED BY <2>1, <2>3, <2>5, <2>6 DEF NewsIsToCome, Counted
<1>4. CASE AlertsRaise \/ NowhereToAnnounce
  <2>1. told' \in [Service -> Health \cup {"missed"}] /\ Known'
    BY <1>4, MissedEffect DEF Shape, Known
  <2> QED BY <1>4, <2>1, MissedEffect DEF Shape, Fetching, BrokenHasFailed, NewsIsToCome, Counted
<1>5. CASE AlertsDone
  BY <1>5, DoneEffect DEF Shape, Fetching, BrokenHasFailed, NewsIsToCome, Known, Counted
<1>6. CASE Announce
  <2>1. told' \in [Service -> Health \cup {"missed"}] /\ news' \subseteq Service /\ Known'
    BY <1>6, AnnounceEffect DEF Shape, Known
  <2> QED BY <1>6, <2>1, AnnounceEffect DEF Shape, Fetching, BrokenHasFailed, NewsIsToCome, Counted
<1>7. ASSUME NEW r \in Service, NEW p \in Pages, Retry(r) \/ RequestFails(r) \/ Answer(r, Failed) \/ Answer(r, Read(p))
      PROVE  IInv'
  <2> DEFINE h == HostAsked(r)
  <2>1. /\ pc = "fetching" /\ UNCHANGED <<setup, failures, health, pc, news, told>>
        /\ fetch' \in [Service -> Outcome] /\ h \in Host
    BY <1>7, FetchEffect
  <2>2. /\ breaker[h] \in Breaker /\ streak[h] \in 0..BreakerThreshold
        /\ breaker[h].state = "closed" => breaker[h].failures <= streak[h]
    BY <2>1 DEF Shape, Counted
  <2>3. CASE UNCHANGED <<breaker, streak>>
    BY <2>1, <2>3 DEF Shape, Fetching, BrokenHasFailed, NewsIsToCome, Known, Counted
  <2>4. CASE /\ breaker' = [breaker EXCEPT ![h] = Succeeded(@)]
             /\ streak' = [streak EXCEPT ![h] = 0]
    <3>1. /\ breaker' \in [Host -> Breaker] /\ streak' \in [Host -> 0..BreakerThreshold]
      BY <2>1, <2>2, <2>4, BreakerFacts, Bounds DEF Shape
    <3>2. Counted'
      BY <2>1, <2>2, <2>4, BreakerFacts DEF Shape, Counted
    <3> QED BY <2>1, <3>1, <3>2 DEF Shape, Fetching, BrokenHasFailed, NewsIsToCome, Known
  <2>5. CASE /\ breaker' = [breaker EXCEPT ![h] = FailedOnce(@)]
             /\ streak' = [streak EXCEPT ![h] = IF @ < BreakerThreshold THEN @ + 1 ELSE @]
    <3>1. /\ breaker' \in [Host -> Breaker] /\ streak' \in [Host -> 0..BreakerThreshold]
      BY <2>1, <2>2, <2>5, BreakerFacts, Bounds DEF Shape
    <3>2. FailedOnce(breaker[h]).state = "closed" => FailedOnce(breaker[h]).failures <= streak'[h]
      <4>1. streak'[h] = IF streak[h] < BreakerThreshold THEN streak[h] + 1 ELSE streak[h]
        BY <2>1, <2>5 DEF Shape
      <4>2. breaker[h].failures \in Nat
        BY <2>2 DEF Breaker
      <4> QED BY <2>2, <4>1, <4>2, BreakerFacts, Bounds
    <3>3. Counted'
      BY <2>1, <2>5, <3>2 DEF Shape, Counted
    <3> QED BY <2>1, <3>1, <3>3 DEF Shape, Fetching, BrokenHasFailed, NewsIsToCome, Known
  <2> QED BY <1>7, <2>3, <2>4, <2>5, FetchEffect
<1>8. setup \in Configuration
  BY DEF Shape
<1> QED BY <1>1, <1>2, <1>3, <1>4, <1>5, <1>6, <1>7, <1>8, <1>9, Kinds

(* Every variable stays in its type, and a cycle ends with its news told.  *)
THEOREM TypeCorrect == Spec => []TypeOK
<1>1. IInv => TypeOK
  BY DEF IInv, Shape, Fetching, NewsIsToCome, Outcome, TypeOK
<1> QED BY <1>1, IInvInitially, IInvInductive, PTL DEF Spec

(* Between two cycles the operators' last word on a poller is its health,  *)
(* unless that word itself could not be said.                              *)
THEOREM BlindnessIsKnown == Spec => []BlindnessIsTold
<1>1. IInv => BlindnessIsTold
  BY DEF IInv, NewsIsToCome, Known, BlindnessIsTold
<1> QED BY <1>1, IInvInitially, IInvInductive, PTL DEF Spec

(* A breaker opens on the failure that makes BreakerThreshold in a row, or *)
(* on that of the request that probed the host.                            *)
THEOREM BreakersOpenOnFailures == Spec => OpensOnFailures
<1>1. ASSUME IInv, [Next]_vars, NEW h \in Host, breaker[h].state = "closed", breaker'[h].state = "opened"
      PROVE  streak'[h] = BreakerThreshold
  <2>1. breaker[h] \in Breaker /\ streak[h] \in 0..BreakerThreshold /\ breaker[h].failures <= streak[h]
    BY <1>1 DEF IInv, Shape, Counted
  <2>2. CASE breaker' = breaker
    BY <1>1, <2>2
  <2>3. CASE StartCycle
    BY <1>1, <2>1, <2>3, StartEffect, BreakerFacts
  <2>4. ASSUME NEW r \in Service, NEW p \in Pages, Retry(r) \/ RequestFails(r) \/ Answer(r, Failed) \/ Answer(r, Read(p))
        PROVE  streak'[h] = BreakerThreshold
    <3> DEFINE g == HostAsked(r)
    <3>1. CASE /\ breaker' = [breaker EXCEPT ![g] = Succeeded(@)]
               /\ streak' = [streak EXCEPT ![g] = 0]
      BY <1>1, <2>1, <3>1, BreakerFacts DEF IInv, Shape
    <3>2. CASE /\ breaker' = [breaker EXCEPT ![g] = FailedOnce(@)]
               /\ streak' = [streak EXCEPT ![g] = IF @ < BreakerThreshold THEN @ + 1 ELSE @]
      <4>1. h = g /\ FailedOnce(breaker[h]).state = "opened"
        BY <1>1, <3>2 DEF IInv, Shape
      <4>2. breaker[h].failures + 1 >= BreakerThreshold
        BY <1>1, <2>1, <4>1, BreakerFacts
      <4>3. breaker[h].failures \in Nat
        BY <2>1, Bounds DEF Breaker
      <4>4. streak'[h] = IF streak[h] < BreakerThreshold THEN streak[h] + 1 ELSE streak[h]
        BY <1>1, <3>2, <4>1 DEF IInv, Shape
      <4> QED BY <2>1, <4>2, <4>3, <4>4, Bounds
    <3> QED BY <1>1, <2>2, <2>4, <3>1, <3>2, FetchEffect
  <2>5. setup \in Configuration
    BY <1>1 DEF IInv, Shape
  <2>6. \/ breaker' = breaker \/ StartCycle
        \/ \E r \in Service, p \in Pages : Retry(r) \/ RequestFails(r) \/ Answer(r, Failed) \/ Answer(r, Read(p))
    BY <1>1, <2>5, Kinds, DetectEffect, RaisesEffect, MissedEffect, DoneEffect, AnnounceEffect DEF vars
  <2> QED BY <2>2, <2>3, <2>4, <2>6
<1>2. IInv /\ [Next]_vars =>
        [\A h \in Host : breaker[h].state = "closed" /\ breaker'[h].state = "opened"
            => streak'[h] = BreakerThreshold]_vars
  BY <1>1
<1> QED BY <1>2, IInvInitially, IInvInductive, PTL DEF Spec, OpensOnFailures

(* The results have an order: no two of them stand in the same place.      *)
LEMMA OneStandsBefore ==
  ASSUME setup \in Configuration, NEW s \in Polled, NEW t \in Polled, s # t
  PROVE  Before(s, t) \/ Before(t, s)
<1> DEFINE a == Turn(s)
           b == Turn(t)
<1>1. \A k \in 1..3 : a[k] \in Int /\ b[k] \in Int
  <2>1. \A x \in Polled : x \in Service /\ Asker(x) \in Service /\ pollType[x] \in PollType
    BY AskerFacts
  <2>2. \A x \in Polled : Rank[pollType[x]] \in Int /\ Place[x] \in Int /\ Place[Asker(x)] \in Int
    BY <2>1, CycleAssumption DEF Rank, PollType
  <2> QED BY <2>2 DEF Turn
<1>2. a[3] # b[3]
  <2>1. s \in Service /\ t \in Service
    BY AskerFacts
  <2> QED BY <2>1, CycleAssumption DEF Turn
<1> HIDE DEF a, b
<1>3. \/ \E k \in 1..3 : a[k] < b[k] /\ \A j \in 1..(k - 1) : a[j] = b[j]
      \/ \E k \in 1..3 : b[k] < a[k] /\ \A j \in 1..(k - 1) : b[j] = a[j]
  <2>1. CASE a[1] # b[1]
    <3>1. 1..(1 - 1) = {}
      OBVIOUS
    <3> QED BY <1>1, <2>1, <3>1
  <2>2. CASE a[1] = b[1] /\ a[2] # b[2]
    <3>1. 1..(2 - 1) = {1}
      OBVIOUS
    <3> QED BY <1>1, <2>2, <3>1
  <2>3. CASE a[1] = b[1] /\ a[2] = b[2]
    <3>1. 1..(3 - 1) = {1, 2}
      OBVIOUS
    <3> QED BY <1>1, <1>2, <2>3, <3>1
  <2> QED BY <2>1, <2>2, <2>3
<1> QED BY <1>3 DEF Before, a, b

(* A service is only lost with pages of its own group, or behind a         *)
(* malformed maintenance: otherwise its failures and its health follow its *)
(* own page, whatever raised elsewhere.                                    *)
THEOREM OthersDoNotHide == Spec => GroupsAreIsolated
<1>1. ASSUME IInv, [Next]_vars, NEW s \in Polled, pc = "fetching", pc' # "fetching",
             pc' = "alerts" \/ ~setup.faults,
             \A t \in Kin(s) : Result(t) # "raises", \A t \in AheadOf(s) : ~Upset(t)
      PROVE  /\ (health'[s] = "healthy") <=> Succeeds(s)
             /\ (failures'[s] = 0) <=> Succeeds(s)
  <2>1. setup \in Configuration /\ s \in Service /\ failures[s] \in 0..FailureCap /\ Succeeds(s) \in BOOLEAN
    BY <1>1, PolledTypes DEF IInv, Shape, Succeeds
  <2>2. Group(s) \subseteq Kin(s)
    BY DEF Group, Kin, OfType, Polled, pollType
  <2>3. s \in Heard
    BY <1>1, <2>2 DEF Heard
  <2>4. PICK done \in SUBSET Service : s \in done /\ Assess(done)
    <3>1. Detect \/ DetectRaises
      <4>1. \/ UNCHANGED pc \/ Detect \/ DetectRaises \/ StartCycle
            \/ AlertsRaise \/ AlertsDone \/ Announce \/ NowhereToAnnounce
        BY <1>1, <2>1, Kinds, FetchEffect DEF vars
      <4> QED BY <1>1, <4>1 DEF StartCycle, AlertsRaise, AlertsDone, Announce, NowhereToAnnounce, Missed
    <3>2. CASE Detect
      BY <1>1, <2>3, <3>2, DetectEffect
    <3>3. CASE DetectRaises
      <4>1. pc' = "idle"
        BY <1>1, <3>3, RaisesEffect
      <4>2. ~setup.faults
        BY <1>1, <4>1
      <4>3. PICK r \in Heard : \E done \in Reached(r) :
              (Upset(r) \/ setup.faults) /\ done \in SUBSET Service /\ Assess(done)
        BY <1>1, <3>3, RaisesEffect
      <4>4. PICK done \in Reached(r) : done \in SUBSET Service /\ Assess(done)
        BY <4>3
      <4>5. done = AheadOf(r) \cup {r}
        BY <4>2, <4>4 DEF Reached
      <4>6. ~Before(r, s)
        BY <1>1, <4>2, <4>3 DEF AheadOf
      <4>7. s = r \/ Before(s, r)
        BY <2>1, <4>6, OneStandsBefore DEF Heard
      <4>8. s \in done
        BY <2>3, <4>5, <4>7 DEF AheadOf
      <4> QED BY <4>4, <4>8
    <3> QED BY <3>1, <3>2, <3>3
  <2>5. /\ failures'[s] = NewFailures(failures[s], Succeeds(s)) /\ health'[s] = ComputeNewHealth(failures'[s], Succeeds(s))
        /\ failures'[s] \in Nat
    BY <1>1, <2>1, <2>4, AssessEffect, Bounds
  <2> QED BY <2>1, <2>5, CounterFacts, HealthFacts
<1>2. IInv /\ [Next]_vars =>
        [\A s \in Polled :
           /\ pc = "fetching" /\ pc' # "fetching" /\ (pc' = "alerts" \/ ~setup.faults)
           /\ \A t \in Kin(s) : Result(t) # "raises"
           /\ \A t \in AheadOf(s) : ~Upset(t)
           => /\ (health'[s] = "healthy") <=> Succeeds(s)
              /\ (failures'[s] = 0) <=> Succeeds(s)]_vars
  BY <1>1
<1> QED BY <1>2, IInvInitially, IInvInductive, PTL DEF Spec, GroupsAreIsolated

-----------------------------------------------------------------------------
(* What the readers make of a page, whatever is on it.                     *)

(* The last position of what is left to read. *)
LEMMA LastOf ==
  ASSUME NEW T, T \in SUBSET Int, IsFiniteSet(T), T # {}
  PROVE  Sets!Max(T) \in T /\ \A x \in T : x <= Sets!Max(T)
<1>1. \E m \in T : \A x \in T : m >= x
  BY Extremes
<1> QED BY <1>1 DEF Sets!Max

LEMMA Severities ==
  /\ \A a \in ServiceStatus : STATUS_SEVERITY[a] \in Int
  /\ \A a, b \in ServiceStatus : Worse(a, b) \in {a, b} /\ STATUS_SEVERITY[a] <= STATUS_SEVERITY[Worse(a, b)]
                                  /\ STATUS_SEVERITY[b] <= STATUS_SEVERITY[Worse(a, b)]
BY DEF STATUS_SEVERITY, ServiceStatus, Observable, Worse

(* A loop over positions goes from each set of them to the last and to what *)
(* is found without it.                                                    *)
IsLoop(g, D, V, start, step) ==
  /\ g \in [SUBSET D -> V]
  /\ \A T \in SUBSET D : g[T] = IF T = {} THEN start ELSE step[<<g[T \ {Sets!Max(T)}], Sets!Max(T)>>]

LEMMA LoopTable ==
  ASSUME NEW D, D \in SUBSET Int, IsFiniteSet(D), NEW V, NEW start, start \in V,
         NEW step, \A v \in V, i \in D : step[<<v, i>>] \in V
  PROVE  \E g : IsLoop(g, D, V, start, step)
<1> DEFINE pick == [T \in SUBSET D |-> Sets!Max(T)]
           next == [p \in (SUBSET D) \X V |-> IF p[1] = {} THEN start ELSE step[<<p[2], Sets!Max(p[1])>>]]
<1>1. \A T \in SUBSET D : T # {} => Sets!Max(T) \in T /\ pick[T] = Sets!Max(T)
  BY LastOf, FS_Subset
<1>2. \A T \in SUBSET D, v \in V : next[<<T, v>>] = IF T = {} THEN start ELSE step[<<v, Sets!Max(T)>>]
  OBVIOUS
<1> HIDE DEF pick, next
<1>3. Foldable(D, V, start, pick, next)
  BY <1>1, <1>2 DEF Foldable
<1>4. PICK g : IsTable(g, D, V, start, pick, next)
  BY <1>3, FoldTable
<1>5. IsLoop(g, D, V, start, step)
  BY <1>1, <1>2, <1>4 DEF IsTable, IsLoop
<1> QED BY <1>5

(* What a reader may come to from what the items in T say: one of those     *)
(* statuses, and the worst.                                                *)
Said(start, says, T) == {start} \cup {says[i] : i \in T}
IsWorstOf(v, start, says, T) ==
  v \in Said(start, says, T) /\ \A c \in Said(start, says, T) : STATUS_SEVERITY[c] <= STATUS_SEVERITY[v]

(* A loop that keeps the worse of two statuses comes to the worst.         *)
LEMMA LoopsClimb ==
  ASSUME NEW D \in SUBSET Int, IsFiniteSet(D), NEW V \in SUBSET ServiceStatus,
         NEW says \in [D -> V], NEW start \in V, NEW g, g[{}] = start,
         \A T \in SUBSET D : T # {} /\ g[T \ {Sets!Max(T)}] \in V =>
            g[T] = Worse(g[T \ {Sets!Max(T)}], says[Sets!Max(T)])
  PROVE  IsWorstOf(g[D], start, says, D)
<1> DEFINE G == {T \in SUBSET D : IsWorstOf(g[T], start, says, T)}
<1>1. \A T \in SUBSET D : T # {} => \E x \in T : T \ {x} \in G => T \in G
  <2> SUFFICES ASSUME NEW T \in SUBSET D, T # {}, T \ {Sets!Max(T)} \in G
               PROVE  IsWorstOf(g[T], start, says, T) /\ Sets!Max(T) \in T
    BY LastOf, FS_Subset
  <2> DEFINE x == Sets!Max(T)
  <2>1. x \in T
    BY LastOf, FS_Subset
  <2>2. IsWorstOf(g[T \ {x}], start, says, T \ {x}) /\ Said(start, says, T) = Said(start, says, T \ {x}) \cup {says[x]}
    BY <2>1 DEF Said
  <2>3. Said(start, says, T) \subseteq V
    BY DEF Said
  <2>4. g[T \ {x}] \in V /\ says[x] \in V
    BY <2>1, <2>2, <2>3 DEF IsWorstOf
  <2>5. g[T] = Worse(g[T \ {x}], says[x])
    BY <2>4
  <2>6. \A v \in V : v \in ServiceStatus /\ STATUS_SEVERITY[v] \in Int
    BY Severities
  <2>7. IsWorstOf(g[T], start, says, T)
    <3>1. \A c \in Said(start, says, T) : STATUS_SEVERITY[c] <= STATUS_SEVERITY[g[T \ {x}]] \/ c = says[x]
      BY <2>2 DEF IsWorstOf
    <3>2. g[T] \in {g[T \ {x}], says[x]} /\ STATUS_SEVERITY[g[T \ {x}]] <= STATUS_SEVERITY[g[T]]
          /\ STATUS_SEVERITY[says[x]] <= STATUS_SEVERITY[g[T]]
      <4> HIDE DEF x
      <4> QED BY <2>4, <2>5, <2>6, Severities
    <3>3. g[T] \in Said(start, says, T)
      <4> HIDE DEF x
      <4> QED BY <2>2, <3>2 DEF IsWorstOf
    <3>4. ASSUME NEW c \in Said(start, says, T) PROVE STATUS_SEVERITY[c] <= STATUS_SEVERITY[g[T]]
      <4> HIDE DEF x
      <4>1. STATUS_SEVERITY[c] \in Int /\ STATUS_SEVERITY[g[T]] \in Int /\ STATUS_SEVERITY[g[T \ {x}]] \in Int
        BY <2>3, <2>4, <2>6, <3>2
      <4> QED BY <3>1, <3>2, <4>1
    <3> HIDE DEF x
    <3> QED BY <3>3, <3>4 DEF IsWorstOf
  <2> QED BY <2>1, <2>7
<1>2. {} \in G
  BY Severities DEF IsWorstOf, Said
<1>3. D \in G
  <2> HIDE DEF G
  <2> QED BY <1>1, <1>2, Growing
<1> QED BY <1>3

LEMMA WorstOfIsWorst ==
  ASSUME NEW D \in SUBSET Int, IsFiniteSet(D), NEW says \in [D -> ServiceStatus], NEW start \in ServiceStatus
  PROVE  IsWorstOf(WorstOf(says, start), start, says, D)
<1> DEFINE Rec(g) == g = [T \in SUBSET D |-> IF T = {} THEN start
                              ELSE LET x == Sets!Max(T) IN Worse(g[T \ {x}], says[x])]
<1>1. \A T \in SUBSET D : T # {} => Sets!Max(T) \in D
  BY LastOf, FS_Subset
<1>2. \E g : Rec(g)
  <2> DEFINE step == [p \in ServiceStatus \X D |-> Worse(p[1], says[p[2]])]
  <2>1. \A v \in ServiceStatus, i \in D : step[<<v, i>>] = Worse(v, says[i]) /\ step[<<v, i>>] \in ServiceStatus
    BY Severities
  <2> HIDE DEF step
  <2>2. PICK g : IsLoop(g, D, ServiceStatus, start, step)
    BY <2>1, LoopTable
  <2>3. \A T \in SUBSET D : g[T] = IF T = {} THEN start ELSE Worse(g[T \ {Sets!Max(T)}], says[Sets!Max(T)])
    BY <1>1, <2>1, <2>2 DEF IsLoop
  <2>4. Rec(g)
    BY <2>2, <2>3 DEF IsLoop
  <2> QED BY <2>4
<1>3. WorstOf(says, start) = (CHOOSE g : Rec(g))[D]
  BY DEF WorstOf, Walk, Sets!MapThenFoldSet
<1>4. PICK g : Rec(g) /\ WorstOf(says, start) = g[D]
  <2> HIDE DEF Rec
  <2> QED BY <1>2, <1>3
<1>5. g[{}] = start /\ \A T \in SUBSET D : T # {} => g[T] = Worse(g[T \ {Sets!Max(T)}], says[Sets!Max(T)])
  BY <1>4
<1>6. \A T \in SUBSET D : T # {} /\ g[T \ {Sets!Max(T)}] \in ServiceStatus =>
         g[T] = Worse(g[T \ {Sets!Max(T)}], says[Sets!Max(T)])
  BY <1>5
<1>7. ServiceStatus \in SUBSET ServiceStatus
  OBVIOUS
<1>8. IsWorstOf(g[D], start, says, D)
  <2> HIDE DEF Rec
  <2> QED BY <1>5, <1>6, <1>7, LoopsClimb
<1> QED BY <1>4, <1>8

(* What the incident readers can come to once there is an incident. *)
Found == {"degraded", "partial_outage", "major_outage"}

LEMMA LoopStepIsWorse ==
  ASSUME NEW found \in Found, NEW text
  PROVE  TextStatus(text) \in Found /\ LoopStep(found, text) = Worse(found, TextStatus(text))
                                    /\ LoopStep(found, text) \in Found
BY DEF Found, LoopStep, TextStatus, Worse, STATUS_SEVERITY

LEMMA IncidentLoopIsWorst ==
  ASSUME NEW D \in SUBSET Int, IsFiniteSet(D), NEW texts, DOMAIN texts = D
  PROVE  IsWorstOf(Walk(LoopStep, "degraded", texts), "degraded", [i \in D |-> TextStatus(texts[i])], D)
<1> DEFINE Rec(g) == g = [T \in SUBSET D |-> IF T = {} THEN "degraded"
                              ELSE LET x == Sets!Max(T) IN LoopStep(g[T \ {x}], texts[x])]
           says == [i \in D |-> TextStatus(texts[i])]
<1>1. \A T \in SUBSET D : T # {} => Sets!Max(T) \in D
  BY LastOf, FS_Subset
<1>2. \E g : Rec(g)
  <2> DEFINE step == [p \in Found \X D |-> LoopStep(p[1], texts[p[2]])]
  <2>1. \A v \in Found, i \in D : step[<<v, i>>] = LoopStep(v, texts[i]) /\ step[<<v, i>>] \in Found
    BY LoopStepIsWorse
  <2>2. "degraded" \in Found
    BY DEF Found
  <2> HIDE DEF step
  <2>3. PICK g : IsLoop(g, D, Found, "degraded", step)
    BY <2>1, <2>2, LoopTable
  <2>4. \A T \in SUBSET D : g[T] = IF T = {} THEN "degraded" ELSE LoopStep(g[T \ {Sets!Max(T)}], texts[Sets!Max(T)])
    BY <1>1, <2>1, <2>3 DEF IsLoop
  <2>5. Rec(g)
    BY <2>3, <2>4 DEF IsLoop
  <2> QED BY <2>5
<1>3. Walk(LoopStep, "degraded", texts) = (CHOOSE g : Rec(g))[D]
  BY DEF Walk, Sets!MapThenFoldSet
<1>4. PICK g : Rec(g) /\ Walk(LoopStep, "degraded", texts) = g[D]
  <2> HIDE DEF Rec
  <2> QED BY <1>2, <1>3
<1>5. g[{}] = "degraded" /\ \A T \in SUBSET D : T # {} => g[T] = LoopStep(g[T \ {Sets!Max(T)}], texts[Sets!Max(T)])
  BY <1>4
<1>6. \A T \in SUBSET D : T # {} /\ g[T \ {Sets!Max(T)}] \in Found =>
         g[T] = Worse(g[T \ {Sets!Max(T)}], says[Sets!Max(T)])
  BY <1>1, <1>5, LoopStepIsWorse
<1>7. "degraded" \in Found /\ Found \in SUBSET ServiceStatus /\ says \in [D -> Found]
  BY LoopStepIsWorse DEF Found, ServiceStatus, Observable
<1> HIDE DEF says
<1>8. IsWorstOf(g[D], "degraded", says, D)
  BY <1>5, <1>6, <1>7, LoopsClimb
<1> QED BY <1>4, <1>8 DEF says

(* The positions of a list, and of what is chosen from it, are finite.      *)
LEMMA Positions ==
  ASSUME NEW V, NEW q \in Seq(V), NEW D \in SUBSET (DOMAIN q)
  PROVE  D \in SUBSET Int /\ IsFiniteSet(D) /\ \A i \in D : q[i] \in V
<1>1. DOMAIN q = 1..Len(q) /\ IsFiniteSet(1..Len(q)) /\ Len(q) \in Nat
  BY FS_Interval
<1> QED BY <1>1, FS_Subset

LEMMA LevelsAndTypes ==
  /\ \A x : ComponentStatus(x) \in ServiceStatus /\ IndicatorStatus(x) \in ServiceStatus /\ LevelStatus(x) \in ServiceStatus
  /\ \A x : TypeStatus(x) \in Found /\ TextStatus(x) \in Found /\ FeedText(x) \in Found
  /\ \A v \in Found : v \in ServiceStatus /\ STATUS_SEVERITY["degraded"] <= STATUS_SEVERITY[v]
                      /\ (STATUS_SEVERITY[v] <= STATUS_SEVERITY["degraded"] => v = "degraded")
BY DEF ComponentStatus, IndicatorStatus, LevelStatus, TypeStatus, TextStatus, FeedText, Found,
       ServiceStatus, Observable, STATUS_SEVERITY

(* What a loop that starts at degraded finds in incidents is what the worst *)
(* of them claims.                                                         *)
LEMMA WorstOfIncidents ==
  ASSUME NEW D, D # {}, NEW says \in [D -> Found], NEW v, IsWorstOf(v, "degraded", says, D)
  PROVE  IsWorst(v, {says[i] : i \in D})
<1>1. v \in {"degraded"} \cup {says[i] : i \in D} /\ \A i \in D : STATUS_SEVERITY[says[i]] <= STATUS_SEVERITY[v]
  BY DEF IsWorstOf, Said
<1>2. v \in {says[i] : i \in D}
  <2>1. PICK i \in D : says[i] \in Found
    OBVIOUS
  <2> QED BY <1>1, <2>1, LevelsAndTypes
<1> QED BY <1>1, <1>2 DEF IsWorst

LEMMA ComponentsAreRead ==
  ASSUME NEW page, NEW s, page.shape \in {"dict", "list"}
  PROVE  IsWorst(Reading("statuspage_json", page, s), Claims("statuspage_json", page, s))
<1> DEFINE v == ExtractServiceStatus(page, s)
<1>1. Reading("statuspage_json", page, s) = v /\ Claims("statuspage_json", page, s) = {v}
  BY DEF Reading, Broken, Claims, ExtractServiceStatus
<1>2. v \in ServiceStatus
  BY LevelsAndTypes DEF ExtractServiceStatus
<1> QED BY <1>1, <1>2, Severities DEF IsWorst

LEMMA CurrentIsRead ==
  ASSUME NEW page, HasItems("current_status_api", page), NEW s
  PROVE  IsWorst(Reading("current_status_api", page, s), Claims("current_status_api", page, s))
<1> DEFINE t == "current_status_api"
<1>1. CASE page \in [shape : {"dict"}, ok : BOOLEAN, incidents : Seq([type : STRING])]
  <2>1. /\ Reading(t, page, s) = NormalizeCurrentStatus(page)
        /\ Claims(t, page, s) = {TypeStatus(x) : x \in Types(page.incidents)}
                                   \cup (IF ~page.ok THEN {"degraded"} ELSE {})
    BY <1>1 DEF Reading, Broken, CurrentStatus, Claims, Types
  <2> QED BY <2>1 DEF NormalizeCurrentStatus, TypeStatus, IsWorst, STATUS_SEVERITY
<1>2. CASE page \in [shape : {"list"}, incidents : Seq([type : STRING, active : BOOLEAN])]
  <2> DEFINE D == ActiveHistory(page)
             says == [i \in D |-> TypeStatus(page.incidents[i].type)]
  <2>1. D \in SUBSET Int /\ IsFiniteSet(D)
    <3>1. D \in SUBSET (DOMAIN page.incidents)
      BY DEF ActiveHistory
    <3> HIDE DEF D
    <3> QED BY <1>2, <3>1, Positions
  <2>2. Reading(t, page, s) = HistoryStatus(page) /\ Claims(t, page, s) = {says[i] : i \in D}
    BY <1>2 DEF Reading, Broken, CurrentStatus, Claims, ActiveHistory
  <2>3. CASE D = {}
    BY <2>2, <2>3 DEF HistoryStatus, IsWorst
  <2>4. CASE D # {}
    <3>1. HistoryStatus(page) = WorstOf(says, "degraded")
      BY <2>4 DEF HistoryStatus
    <3>2. says \in [D -> Found] /\ says \in [D -> ServiceStatus] /\ "degraded" \in ServiceStatus
      BY LevelsAndTypes DEF Found
    <3> HIDE DEF says, D
    <3>3. IsWorstOf(WorstOf(says, "degraded"), "degraded", says, D)
      BY <2>1, <3>2, WorstOfIsWorst
    <3> QED BY <2>2, <2>4, <3>1, <3>2, <3>3, WorstOfIncidents
  <2> QED BY <2>3, <2>4
<1> QED BY <1>1, <1>2 DEF HasItems

(* The first open incident of a product is one of its open incidents.       *)
LEMMA FeedIsRead ==
  ASSUME NEW page, HasItems("product_feed_json", page), NEW s \in Named
  PROVE  LET claims == Claims("product_feed_json", page, s)
         IN  Reading("product_feed_json", page, s) \in IF claims = {} THEN {"operational"} ELSE claims
<1> DEFINE mine == {i \in DOMAIN page.incidents : Concerns(page.incidents[i], s)}
<1>1. /\ page.shape = "list"
      /\ page.incidents \in Seq([products : SUBSET Service, ended : BOOLEAN, text : STRING])
  BY DEF HasItems
<1>2. /\ Reading("product_feed_json", page, s) = ProductFeedStatus(page, s)
      /\ Claims("product_feed_json", page, s) = {FeedText(page.incidents[i].text) : i \in mine}
  BY <1>1 DEF Reading, Broken, Claims
<1>3. CASE mine = {}
  BY <1>1, <1>2, <1>3 DEF ProductFeedStatus
<1>4. CASE mine # {}
  <2>1. mine \in SUBSET Int /\ IsFiniteSet(mine)
    <3>1. mine \in SUBSET (DOMAIN page.incidents)
      OBVIOUS
    <3> HIDE DEF mine
    <3> QED BY <1>1, <3>1, Positions
  <2>2. Sets!Min(mine) \in mine
    <3> HIDE DEF mine
    <3>1. \E l \in mine : \A x \in mine : l <= x
      BY <1>4, <2>1, Extremes
    <3> QED BY <3>1 DEF Sets!Min
  <2>3. ProductFeedStatus(page, s) = FeedText(page.incidents[Sets!Min(mine)].text)
    BY <1>1, <1>4 DEF ProductFeedStatus
  <2> HIDE DEF mine
  <2> QED BY <1>2, <2>2, <2>3
<1> QED BY <1>3, <1>4

LEMMA ArrayIsRead ==
  ASSUME NEW page, HasItems("service_array_json", page), NEW s
  PROVE  IsWorst(Reading("service_array_json", page, s), Claims("service_array_json", page, s))
<1> DEFINE D == DOMAIN page.levels
           says == [i \in D |-> LevelStatus(page.levels[i])]
           v == WorstOf(says, "operational")
<1>1. page.shape = "list" /\ page.levels \in Seq(STRING)
  BY DEF HasItems
<1>2. D \in SUBSET Int /\ IsFiniteSet(D)
  BY <1>1, Positions
<1>3. Reading("service_array_json", page, s) = v
      /\ Claims("service_array_json", page, s) = {says[i] : i \in D} \ {"unknown"}
  BY <1>1 DEF Reading, Broken, ArrayStatus, Claims
<1>4. says \in [D -> ServiceStatus] /\ "operational" \in ServiceStatus
  BY LevelsAndTypes DEF ServiceStatus, Observable
<1>5. IsWorstOf(v, "operational", says, D)
  <2> HIDE DEF says, D
  <2> QED BY <1>2, <1>4, WorstOfIsWorst
<1>6. v # "unknown"
  BY <1>5 DEF IsWorstOf, Said, STATUS_SEVERITY
<1> HIDE DEF v, says, D
<1> QED BY <1>3, <1>5, <1>6 DEF IsWorstOf, Said, IsWorst

(* A loop over texts that stops at the first major incident.                *)
LEMMA TextsAreRead ==
  ASSUME NEW D \in SUBSET Int, IsFiniteSet(D), NEW texts, DOMAIN texts = D
  PROVE  IsWorst(IncidentLoop(texts), {TextStatus(texts[i]) : i \in D})
<1> DEFINE says == [i \in D |-> TextStatus(texts[i])]
<1>1. CASE D = {}
  BY <1>1 DEF IncidentLoop, IsWorst
<1>2. CASE D # {}
  <2>1. IncidentLoop(texts) = Walk(LoopStep, "degraded", texts)
    BY <1>2 DEF IncidentLoop
  <2>2. says \in [D -> Found] /\ {TextStatus(texts[i]) : i \in D} = {says[i] : i \in D}
    BY LevelsAndTypes
  <2>3. IsWorstOf(IncidentLoop(texts), "degraded", says, D)
    BY <2>1, IncidentLoopIsWorst
  <2> HIDE DEF says
  <2> QED BY <1>2, <2>2, <2>3, WorstOfIncidents
<1> QED BY <1>1, <1>2

LEMMA IncidentsAreRead ==
  ASSUME NEW type \in {"trust_incidents_api", "active_incidents_api"}, NEW page, HasItems(type, page), NEW s
  PROVE  IsWorst(Reading(type, page, s), Claims(type, page, s))
<1>1. CASE type = "trust_incidents_api"
  <2> DEFINE D == Unresolved(page)
             texts == [i \in D |-> page.incidents[i].text]
  <2>1. page.shape = "list" /\ page.incidents \in Seq([resolved : STRING, text : STRING])
    BY <1>1 DEF HasItems
  <2>2. D \in SUBSET Int /\ IsFiniteSet(D)
    <3>1. D \in SUBSET (DOMAIN page.incidents)
      BY DEF Unresolved
    <3> HIDE DEF D
    <3> QED BY <2>1, <3>1, Positions
  <2>3. Reading(type, page, s) = IncidentLoop(texts) /\ Claims(type, page, s) = {TextStatus(texts[i]) : i \in D}
    BY <1>1, <2>1 DEF Reading, Broken, TrustStatus, Claims, Unresolved
  <2>4. DOMAIN texts = D
    OBVIOUS
  <2> HIDE DEF D, texts
  <2> QED BY <2>2, <2>3, <2>4, TextsAreRead
<1>2. CASE type = "active_incidents_api"
  <2>1. page.shape = "dict" /\ page.texts \in Seq(STRING)
    BY <1>2 DEF HasItems
  <2>2. DOMAIN page.texts \in SUBSET Int /\ IsFiniteSet(DOMAIN page.texts)
    BY <2>1, Positions
  <2>3. Reading(type, page, s) = IncidentLoop(page.texts)
        /\ Claims(type, page, s) = {TextStatus(page.texts[i]) : i \in DOMAIN page.texts}
    BY <1>2, <2>1 DEF Reading, Broken, ActiveStatus, Claims
  <2> QED BY <2>2, <2>3, TextsAreRead
<1> QED BY <1>1, <1>2

(* Of the pages a reader can be given, those with items are read for the    *)
(* worst of what they claim.                                               *)
LEMMA PagesAreRead ==
  ASSUME NEW type \in PollType, NEW page, IsPage(type, page), page.shape \in {"dict", "list"}, NEW s
  PROVE  LET claims == Claims(type, page, s)
         IN  IF type = "product_feed_json"
             THEN s \in Named => Reading(type, page, s) \in IF claims = {} THEN {"operational"} ELSE claims
             ELSE IsWorst(Reading(type, page, s), claims)
<1>1. HasItems(type, page)
  BY DEF IsPage
<1> QED BY <1>1, ComponentsAreRead, CurrentIsRead, FeedIsRead, ArrayIsRead, IncidentsAreRead DEF PollType

-----------------------------------------------------------------------------
(* A page that was read was published for the service that asked for it.   *)
Published == \A r \in Service : fetch[r].stage = "read" => fetch[r].page \in Page[pollType[r]]

LEMMA PublishedInitially == Init => Published
BY DEF Init, Published, Idle

LEMMA PublishedInductive == IInv /\ Published /\ [Next]_vars => Published'
<1> SUFFICES ASSUME IInv, Published, [Next]_vars PROVE Published'
  OBVIOUS
<1>1. setup' = setup
  BY DEF Next, CycleStep, StartCycle, Detect, DetectRaises, AlertsRaise, AlertsDone, Announce, NowhereToAnnounce,
         NothingToPoll, FetchStep, Retry, RequestFails, Garbled, Answers, Malformed, Answer, rows, vars
<1>2. \A r \in Service : pollType'[r] = pollType[r]
  BY <1>1 DEF pollType
<1>3. CASE UNCHANGED fetch
  BY <1>2, <1>3 DEF Published
<1>4. CASE StartCycle
  BY <1>4 DEF StartCycle, Published, Idle, Sent, Refused
<1>5. CASE Detect \/ DetectRaises
  BY <1>5 DEF Detect, DetectRaises, Published, Idle
<1>6. ASSUME NEW r \in Service, FetchStep(r) PROVE Published'
  <2>1. fetch \in [Service -> Outcome]
    BY DEF IInv, Shape
  <2>2. CASE Retry(r)
    BY <1>2, <2>1, <2>2 DEF Retry, Set, Outcome, Published
  <2>3. CASE RequestFails(r) \/ Garbled(r)
    BY <1>2, <2>1, <2>3 DEF RequestFails, Garbled, Answer, Set, Failed, Published
  <2>4. CASE Answers(r) \/ Malformed(r)
    <3>1. PICK p \in Page[pollType[r]] : Answer(r, Read(p))
      BY <2>4 DEF Answers, Malformed, PagesFor
    <3> QED BY <1>2, <2>1, <3>1 DEF Answer, Set, Read, Published
  <2> QED BY <1>6, <2>2, <2>3, <2>4 DEF FetchStep
<1>7. UNCHANGED fetch \/ StartCycle \/ Detect \/ DetectRaises \/ \E r \in Service : FetchStep(r)
  BY DEF Next, CycleStep, AlertsRaise, AlertsDone, Announce, NowhereToAnnounce, NothingToPoll, vars
<1> QED BY <1>3, <1>4, <1>5, <1>6, <1>7

(* The status read from a page is the worst that its open incidents claim. *)
THEOREM WorstIsAlwaysRead == Spec => []WorstIsRead
<1>1. IInv /\ Published => WorstIsRead
  <2> SUFFICES ASSUME IInv, Published, NEW s \in Polled,
                      fetch[Asker(s)].stage = "read", fetch[Asker(s)].page.shape \in {"dict", "list"}
               PROVE  LET claims == Claims(pollType[s], fetch[Asker(s)].page, s)
                      IN  IF pollType[s] = "product_feed_json"
                          THEN s \in Named => Result(s) \in IF claims = {} THEN {"operational"} ELSE claims
                          ELSE Result(s) = "unknown" \/ IsWorst(Result(s), claims)
    BY DEF WorstIsRead
  <2> DEFINE page == fetch[Asker(s)].page
             type == pollType[s]
  <2>1. setup \in Configuration /\ Asker(s) \in Service /\ type \in PollType /\ pollType[Asker(s)] = type
    BY AskerFacts DEF IInv, Shape
  <2>2. page \in Page[type]
    BY <2>1 DEF Published
  <2>3. IsPage(type, page)
    BY <2>1, <2>2, CycleAssumption
  <2>4. Result(s) = Reading(type, page, s)
    BY DEF Result
  <2> HIDE DEF page, type
  <2> QED BY <2>1, <2>3, <2>4, PagesAreRead DEF page, type
<1> QED BY <1>1, IInvInitially, IInvInductive, PublishedInitially, PublishedInductive, PTL DEF Spec
=============================================================================
