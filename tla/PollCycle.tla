------------------------------ MODULE PollCycle ------------------------------
(***************************************************************************)
(* One poll cycle after another: run_poll_cycle of app/poller/scheduler.py *)
(* with the fetches of app/poller/resilience.py, the readers of            *)
(* StatusPages, the health half of detect_changes, and the announcements   *)
(* of process_poller_health_changes.                                       *)
(*                                                                         *)
(* The fetches of a cycle run concurrently.  Those of one host share a     *)
(* circuit breaker; those of one poller group share its fate: a group that *)
(* raises is logged and its services are not in the results.  Detection    *)
(* goes through the results one by one; where it raises, the cycle ends.   *)
(* Time is counted in cycles.                                              *)
(***************************************************************************)
EXTENDS StatusPages, FiniteSets

CONSTANTS
  Url, Host,
  UrlOf,             \* services.poll_url
  HostOf,            \* host_of: the host name in a URL
  Place,             \* in which order the rows are SELECTed
  Configuration,     \* poll types of the services, whether a webhook is set, and
                     \* whether statements, process_changes and posts may fail
  Page,              \* the pages a vendor may publish, for each poll type
  BreakerThreshold,  \* settings.breaker_threshold
  BreakerTtl,        \* settings.breaker_ttl_seconds, in cycles
  Attempts           \* DEFAULT_RETRY_ATTEMPTS

ASSUME CycleAssumption ==
  /\ IsFiniteSet(Service) /\ UrlOf \in [Service -> Url] /\ HostOf \in [Url -> Host]
  /\ Place \in [Service -> Nat] /\ \A s, t \in Service : Place[s] = Place[t] => s = t
  /\ Configuration \subseteq [types : [Service -> PollType \cup {"manual"}], webhook : BOOLEAN, faults : BOOLEAN]
  /\ DOMAIN Page = PollType /\ \A t \in PollType : \A p \in Page[t] : IsPage(t, p)
  /\ {BreakerThreshold, Attempts} \subseteq Nat \ {0} /\ BreakerTtl \in Nat

VARIABLES
  setup,     \* services.poll_type, the webhook, and what may fail
  breaker,   \* purgatory's breaker of each host
  fetch,     \* this cycle's requests: each made for one service, that may stand for others
  pc,        \* where run_poll_cycle stands
  failures,  \* services.consecutive_failures
  health,    \* services.poller_health
  news,      \* the health changes of this cycle still to be announced
  told,      \* the health last announced for each service, "missed" if that failed
  streak     \* history: failed fetches of a host in a row

rows == <<setup, failures, health>>
vars == <<rows, breaker, fetch, pc, news, told, streak>>

-----------------------------------------------------------------------------
(* The circuit breaker, as purgatory implements it.                        *)

Breaker == [state : {"closed", "opened", "half_opened"},
            failures : 0..BreakerThreshold, age : 0..BreakerTtl]
Closed  == [state |-> "closed", failures |-> 0, age |-> 0]
Opened  == [state |-> "opened", failures |-> 0, age |-> 0]

(* Mutation of Asked: an open breaker stays open. *)
AskedNever(b) == b

(* A request finds the breaker open until its TTL has passed, then probes. *)
Asked(b) ==
  CASE b.state = "opened" /\ b.age >= BreakerTtl -> [b EXCEPT !.state = "half_opened", !.age = 0]
    [] b.state = "opened" /\ b.age < BreakerTtl  -> [b EXCEPT !.age = @ + 1]
    [] OTHER                                     -> b
Admits(b) == Asked(b).state # "opened"

(* Mutation of Succeeded: a success does not reset the count. *)
SucceededSticky(b) == IF b.state = "half_opened" THEN Closed ELSE b

(* A request that ends while another one has opened the breaker is void.   *)
Succeeded(b) == IF b.state = "opened" THEN b ELSE Closed

FailedOnce(b) ==
  CASE b.state = "opened"      -> b
    [] b.state = "half_opened" -> Opened
    [] b.state = "closed" /\ b.failures + 1 >= BreakerThreshold -> Opened
    [] OTHER                   -> [b EXCEPT !.failures = @ + 1]

-----------------------------------------------------------------------------
(* Which services a cycle polls, through which requests, in which groups.  *)

pollType  == setup.types
OfType(t) == {s \in Service : pollType[s] = t}

FirstOf(S) == CHOOSE s \in S : \A t \in S : Place[s] <= Place[t]

(* Of the current_status_api services only the first is polled.            *)
Polled == {s \in Service :
             /\ pollType[s] # "manual"
             /\ pollType[s] = "current_status_api" => s = FirstOf(OfType("current_status_api"))}

(* The service for which a service's page is requested: services that share *)
(* a statuspage URL are one request, all of a feed go by the URL of the     *)
(* first, and every other service asks for itself.                         *)
Asker(s) ==
  CASE pollType[s] = "statuspage_json"   -> FirstOf({t \in OfType("statuspage_json") : UrlOf[t] = UrlOf[s]})
    [] pollType[s] = "product_feed_json" -> FirstOf(OfType("product_feed_json"))
    [] OTHER                             -> s
Requested    == {Asker(s) : s \in Polled}
HostAsked(r) == HostOf[UrlOf[r]]
PagesFor(r)  == IF r \in Requested THEN Page[pollType[r]] ELSE {}

(* Mutation of Group: the cycle is one group. *)
GroupOfAll(s) == Polled

Group(s) == IF pollType[s] \in {"statuspage_json", "product_feed_json"}
            THEN OfType(pollType[s]) ELSE {s}

-----------------------------------------------------------------------------
(* Requests. *)

NoPage   == [shape |-> "none"]
Idle     == [stage |-> "idle",    page |-> NoPage, tries |-> 0]
Sent     == [stage |-> "sent",    page |-> NoPage, tries |-> 0]
Refused  == [stage |-> "refused", page |-> NoPage, tries |-> 0]
Failed   == [stage |-> "failed",  page |-> NoPage, tries |-> 0]
Read(p)  == [stage |-> "read",    page |-> p,      tries |-> 0]

Set(r, outcome) == fetch' = [fetch EXCEPT ![r] = outcome]
Report(r, Outcome(_)) == breaker' = [breaker EXCEPT ![HostAsked(r)] = Outcome(@)]

Init ==
  /\ setup \in Configuration
  /\ breaker = [h \in Host |-> Closed]
  /\ fetch = [r \in Service |-> Idle]
  /\ pc = "idle"
  /\ failures = [s \in Service |-> 0]
  /\ health = [s \in Service |-> "healthy"] /\ told = health
  /\ news = {}
  /\ streak = [h \in Host |-> 0]

(* All requests pass their breaker before the first of them waits. *)
StartCycle ==
  /\ pc = "idle" /\ Polled # {}
  /\ LET hosts == {HostAsked(r) : r \in Requested}
     IN  breaker' = [h \in Host |-> IF h \in hosts THEN Asked(breaker[h]) ELSE breaker[h]]
  /\ fetch' = [r \in Service |->
       IF r \notin Requested THEN Idle
       ELSE IF Admits(breaker[HostAsked(r)]) THEN Sent ELSE Refused]
  /\ pc' = "fetching"
  /\ UNCHANGED <<rows, news, told, streak>>

(* A cycle without pollable services returns. *)
NothingToPoll == pc = "idle" /\ Polled = {} /\ UNCHANGED vars

(* Stamina repeats a request that met a transient error.                   *)
Retry(r) ==
  /\ fetch[r].stage = "sent" /\ fetch[r].tries + 1 < Attempts
  /\ Set(r, [fetch[r] EXCEPT !.tries = @ + 1])
  /\ UNCHANGED <<rows, breaker, pc, news, told, streak>>

(* An error that is not transient fails the request at once, a transient   *)
(* one when no attempt is left: one failure for the breaker either way.    *)
RequestFails(r) ==
  /\ fetch[r].stage = "sent"
  /\ Set(r, Failed)
  /\ Report(r, FailedOnce)
  /\ streak' = [streak EXCEPT ![HostAsked(r)] = IF @ < BreakerThreshold THEN @ + 1 ELSE @]
  /\ UNCHANGED <<rows, pc, news, told>>

(* An answer that is no JSON is a success for the breaker only.            *)
Answer(r, outcome) ==
  /\ fetch[r].stage = "sent"
  /\ Set(r, outcome)
  /\ Report(r, Succeeded)
  /\ streak' = [streak EXCEPT ![HostAsked(r)] = 0]
  /\ UNCHANGED <<rows, pc, news, told>>

Garbled(r)   == Answer(r, Failed)
Answers(r)   == \E p \in {q \in PagesFor(r) : ~Broken(q)} : Answer(r, Read(p))
Malformed(r) == \E p \in {q \in PagesFor(r) : Broken(q)} : Answer(r, Read(p))

-----------------------------------------------------------------------------
(* Results. *)

Result(s) ==
  IF fetch[Asker(s)].stage = "read"
  THEN Reading(pollType[s], fetch[Asker(s)].page, s) ELSE "unknown"
Succeeds(s) == Result(s) # "unknown"

(* Mutation of Heard: what could not be fetched is left out, too. *)
HeardAnswered == {s \in Polled : fetch[Asker(s)].stage = "read" /\ Result(s) # "raises"}

(* What gather returned: groups that raised are left out.                  *)
Heard == {s \in Polled : \A t \in Group(s) : Result(t) # "raises"}

(* all_results: group by group, a statuspage group URL by URL, each in the *)
(* order of the rows.                                                      *)
Rank == [statuspage_json |-> 1, current_status_api |-> 2, product_feed_json |-> 3,
         trust_incidents_api |-> 4, active_incidents_api |-> 5, service_array_json |-> 6]
Turn(s) == <<Rank[pollType[s]], Place[Asker(s)], Place[s]>>
Before(s, t) ==
  \E k \in 1..3 : Turn(s)[k] < Turn(t)[k] /\ \A j \in 1..(k - 1) : Turn(s)[j] = Turn(t)[j]

(* upsert_maintenances raises for a record it cannot read, after the rest  *)
(* of what detect_changes does for the service.                            *)
Upset(s) ==
  /\ pollType[s] = "statuspage_json" /\ Succeeds(s)
  /\ fetch[Asker(s)].page.maintenances = "malformed"

(* detect_changes, for the results it comes to: it counts the failures and *)
(* flips the health.                                                       *)
Assess(done) ==
  /\ failures' = [s \in Service |-> IF s \in done THEN NewFailures(failures[s], Succeeds(s)) ELSE failures[s]]
  /\ health' = [s \in Service |-> IF s \in done THEN ComputeNewHealth(failures'[s], Succeeds(s)) ELSE health[s]]
Changed(done) == {s \in done : HealthNews(health[s], health'[s]) # "none"}
AllAnswered   == pc = "fetching" /\ \A r \in Service : fetch[r].stage # "sent"

Detect ==
  /\ AllAnswered /\ \A s \in Heard : ~Upset(s)
  /\ Assess(Heard)
  /\ news' = Changed(Heard)
  /\ fetch' = [r \in Service |-> Idle]
  /\ pc' = "alerts"
  /\ UNCHANGED <<setup, breaker, told, streak>>

Missing(S) == told' = [s \in Service |-> IF s \in S THEN "missed" ELSE told[s]]

(* Where detection raises, at a malformed maintenance or at any statement, *)
(* the results behind are lost, and so are the health changes before: the  *)
(* rows keep what was written, and go out with the next commit.            *)
AheadOf(r) == {s \in Heard : Before(s, r)}
Reached(r) == {AheadOf(r) \cup {r}} \cup (IF setup.faults THEN {AheadOf(r)} ELSE {})

DetectRaises ==
  /\ AllAnswered
  /\ \E r \in Heard :
       /\ Upset(r) \/ setup.faults
       /\ \A s \in AheadOf(r) : ~Upset(s)
       /\ \E done \in Reached(r) : Assess(done) /\ Missing(Changed(done))
  /\ fetch' = [r \in Service |-> Idle]
  /\ pc' = "idle"
  /\ UNCHANGED <<setup, breaker, news, streak>>

(* The news of this cycle is not announced, in this one or a later one.    *)
Missed == Missing(news) /\ news' = {} /\ pc' = "idle"

(* process_changes comes first; what it raises ends the cycle.             *)
AlertsRaise ==
  /\ setup.faults /\ pc = "alerts" /\ Missed
  /\ UNCHANGED <<rows, breaker, fetch, streak>>

AlertsDone ==
  /\ pc = "alerts"
  /\ pc' = IF news = {} THEN "idle" ELSE "health"
  /\ UNCHANGED <<rows, breaker, fetch, news, told, streak>>

(* Mutation of Announce: one post for a cycle. *)
AnnounceOne ==
  /\ pc = "health" /\ setup.webhook
  /\ \E s \in news : told' = [told EXCEPT ![s] = health[s]]
  /\ news' = {} /\ pc' = "idle"
  /\ UNCHANGED <<rows, breaker, fetch, streak>>

(* One post for each change; one that fails is not made again.             *)
Announce ==
  /\ pc = "health" /\ setup.webhook
  /\ \E s \in news :
       /\ \E word \in {health[s]} \cup (IF setup.faults THEN {"missed"} ELSE {}) :
            told' = [told EXCEPT ![s] = word]
       /\ news' = news \ {s}
  /\ pc' = IF news' = {} THEN "idle" ELSE "health"
  /\ UNCHANGED <<rows, breaker, fetch, streak>>

NowhereToAnnounce ==
  /\ pc = "health" /\ ~setup.webhook /\ Missed
  /\ UNCHANGED <<rows, breaker, fetch, streak>>

-----------------------------------------------------------------------------
FetchStep(r) == Retry(r) \/ RequestFails(r) \/ Garbled(r) \/ Answers(r) \/ Malformed(r)
CycleStep    == StartCycle \/ Detect \/ DetectRaises \/ AlertsDone \/ Announce \/ NowhereToAnnounce

Next == CycleStep \/ AlertsRaise \/ NothingToPoll \/ \E r \in Service : FetchStep(r)

(* The job fires again and again, and every request has a timeout: there   *)
(* is always a next step and it is taken.                                  *)
Spec     == Init /\ [][Next]_vars
FairSpec == Spec /\ WF_vars(Next)

-----------------------------------------------------------------------------
(* Properties.                                                             *)

TypeOK ==
  /\ setup \in Configuration
  /\ breaker \in [Host -> Breaker]
  /\ \A r \in Service : /\ fetch[r].stage \in {"idle", "sent", "refused", "failed", "read"}
                        /\ fetch[r].tries \in 0..(Attempts - 1)
                        /\ pc # "fetching" => fetch[r] = Idle
  /\ pc \in {"idle", "fetching", "alerts", "health"}
  /\ failures \in [Service -> 0..FailureCap]
  /\ health \in [Service -> Health] /\ told \in [Service -> Health \cup {"missed"}]
  /\ news \subseteq Service /\ (pc = "idle" => news = {})
  /\ streak \in [Host -> 0..BreakerThreshold]

(* The status read from a page is the worst that its open incidents claim, *)
(* wherever on the page they stand.  (A product feed is read up to its     *)
(* first open incident: there, one of the claims.)                         *)
WorstIsRead ==
  \A s \in Polled :
    LET f == fetch[Asker(s)] claims == Claims(pollType[s], f.page, s)
    IN  f.stage = "read" /\ f.page.shape \in {"dict", "list"} =>
          IF pollType[s] = "product_feed_json"
          THEN s \in Named => Result(s) \in IF claims = {} THEN {"operational"} ELSE claims
          ELSE Result(s) = "unknown" \/ IsWorst(Result(s), claims)

(* Consecutive failures open a breaker: the host's last BreakerThreshold   *)
(* requests failed when it opens, or the one that probed it did.           *)
OpensOnFailures ==
  [][\A h \in Host : breaker[h].state = "closed" /\ breaker'[h].state = "opened"
        => streak'[h] = BreakerThreshold]_vars

(* A service is only left out for a page of its own batched type that its  *)
(* reader cannot make sense of, or for a malformed maintenance that stood  *)
(* before it in the batch: otherwise its health and its failures follow    *)
(* its own page, whatever becomes of other groups and of those behind it.  *)
Kin(s) == {t \in Polled : t = s \/ (/\ pollType[t] = pollType[s]
                                    /\ pollType[s] \in {"statuspage_json", "product_feed_json"})}

GroupsAreIsolated ==
  [][\A s \in Polled :
       /\ pc = "fetching" /\ pc' # "fetching" /\ (pc' = "alerts" \/ ~setup.faults)
       /\ \A t \in Kin(s) : Result(t) # "raises"
       /\ \A t \in AheadOf(s) : ~Upset(t)
       => /\ (health'[s] = "healthy") <=> Succeeds(s)
          /\ (failures'[s] = 0) <=> Succeeds(s)]_vars

(* Operators know which pollers are broken: between two cycles the last    *)
(* word on a service is its health, unless that word failed itself (its    *)
(* post, the alerts before it, or the rest of its detection), however      *)
(* often others failed before, and wherever detection stopped.             *)
BlindnessIsTold ==
  pc = "idle" => \A s \in Service :
    told[s] # "missed" => ((told[s] = "broken") <=> (health[s] = "broken"))

(* A request of the host fails; a page of the service's group is read that *)
(* its reader cannot make sense of; a request for the service is answered; *)
(* detection stops, and may not have come to the service.                  *)
HostFails(s) == \E r \in Service : HostAsked(r) = HostAsked(Asker(s)) /\ fetch'[r].stage = "failed"
Misread(s)   == \E t \in Kin(s) : Broken(fetch'[Asker(t)].page)
Unclear(s)   == /\ s \in Polled /\ fetch'[Asker(s)].stage = "read"
                /\ Reading(pollType[s], fetch'[Asker(s)].page, s) = "unknown"
Answered(s)  == fetch'[Asker(s)].stage = "read"
CutOff(s)    == /\ s \in Polled /\ pc = "fetching" /\ pc' = "idle"
                /\ setup.faults \/ \E r \in AheadOf(s) : Upset(r)

(* A vendor that is back is heard again, whatever the other hosts do: once *)
(* nothing of its host fails any more, its services become healthy.        *)
VendorIsHeard ==
  \A s \in Service : s \in Polled /\ <>[][~HostFails(s) /\ ~Misread(s) /\ ~Unclear(s) /\ ~CutOff(s)]_vars
    => <>[](health[s] = "healthy")

(* A vendor that stays away is noticed, open breaker or not: if no request *)
(* for a service is answered any more, its poller becomes broken.          *)
AbsenceIsNoticed ==
  \A s \in Service : s \in Polled /\ <>[][~Answered(s) /\ ~Misread(s) /\ ~CutOff(s)]_vars
    => <>[](health[s] = "broken")
=============================================================================
