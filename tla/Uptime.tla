-------------------------------- MODULE Uptime --------------------------------
(***************************************************************************)
(* What status_events say about a service: compute_uptime and the error    *)
(* budget of app/sla.py, the burn rates of app/alerting/burn_rate.py, and  *)
(* the incident of app/reports.py.  Pure: a history is a sequence of       *)
(* events in the order of created_at.  Percentages are in basis points     *)
(* (the code rounds to two decimals), seconds in ticks.                    *)
(***************************************************************************)
EXTENDS Integers, Sequences

Sets == INSTANCE FiniteSetsExt
Seqs == INSTANCE SequencesExt

CONSTANTS
  FastShort, FastLong,   \* 5m and 1h
  SlowShort, SlowLong,   \* 30m and 6h
  Month,                 \* 30d
  SloTarget,             \* settings.slo_target_percent
  FastThreshold, SlowThreshold

ASSUME UptimeAssumption ==
  /\ {FastShort, FastLong, SlowShort, SlowLong, Month} \subseteq Nat \ {0}
  /\ FastShort <= FastLong /\ SlowShort <= SlowLong
  /\ SloTarget \in 0..9999 /\ {FastThreshold, SlowThreshold} \subseteq Nat \ {0}

Whole == 10000
NoData == -1   \* uptime_percent is None
AtMost(a, b) == IF a < b THEN a ELSE b
AtLeast(a, b) == IF a > b THEN a ELSE b

-----------------------------------------------------------------------------
(* compute_uptime. *)

(* Mutation of Kept: everything that comes out of unknown is filtered. *)
KeptKnown(events) == {i \in DOMAIN events : events[i].from # "unknown"}

(* The poller's warm-up is filtered out, and with it the time up to the    *)
(* next event counts as the status before: unknown.  (By position.)        *)
Kept(events) == {i \in DOMAIN events : ~(events[i].from = "unknown" /\ events[i].to = "operational")}
Later(events, i) == {j \in Kept(events) : j > i}

Began(events, i) == events[i].at
Ended(events, i, end) == IF Later(events, i) = {} THEN end ELSE events[Sets!Min(Later(events, i))].at

(* The part of an interval inside the window.                              *)
Inside(events, i, start, end) ==
  AtLeast(0, AtMost(Ended(events, i, end), end) - AtLeast(Began(events, i), start))

Spent(events, Counts(_), start, end) ==
  Sets!MapThenSumSet(LAMBDA i : Inside(events, i, start, end), {i \in Kept(events) : Counts(events[i].to)})

Tracked(events, start, end)     == Spent(events, LAMBDA s : s # "unknown", start, end)
Operational(events, start, end) == Spent(events, LAMBDA s : s = "operational", start, end)

Percent(operational, tracked) ==
  IF tracked = 0 THEN NoData ELSE AtMost((2 * Whole * operational + tracked) \div (2 * tracked), Whole)

Uptime(events, start, end) ==
  Percent(Operational(events, start, end), Tracked(events, start, end))

(* compute_error_budget_remaining. *)
ErrorBudgetRemaining(uptime) ==
  IF uptime = NoData THEN Whole
  ELSE AtLeast(0, Whole - ((Whole - uptime) * Whole) \div (Whole - SloTarget))

-----------------------------------------------------------------------------
(* evaluate_burn_rate: a window burns if its failures use up the budget    *)
(* threshold times as fast as allowed; a breach takes the long window and  *)
(* the short one.                                                          *)
Burns(uptime, threshold) ==
  uptime # NoData /\ Whole - uptime >= threshold * (Whole - SloTarget)

Burning(events, now, window, threshold) == Burns(Uptime(events, now - window, now), threshold)

(* The settings under which a window that is down from end to end burns:   *)
(* the defaults are such settings, not all that config.py accepts are.     *)
OutagesCanBurn ==
  /\ FastThreshold * (Whole - SloTarget) <= Whole
  /\ SlowThreshold * (Whole - SloTarget) <= Whole

(* Mutation of Breaches: the long windows alone. *)
BreachesLong(events, now) ==
  {s \in {"fast", "slow"} : Burning(events, now, IF s = "fast" THEN FastLong ELSE SlowLong,
                                    IF s = "fast" THEN FastThreshold ELSE SlowThreshold)}

Breaches(events, now) ==
  {s \in {"fast", "slow"} :
     \/ /\ s = "fast"
        /\ Burning(events, now, FastShort, FastThreshold) /\ Burning(events, now, FastLong, FastThreshold)
     \/ /\ s = "slow"
        /\ Burning(events, now, SlowShort, SlowThreshold) /\ Burning(events, now, SlowLong, SlowThreshold)}

-----------------------------------------------------------------------------
(* generate_incident_report: back from the newest recovery to the event    *)
(* that left operational, or to the first one.                             *)

SEVERITY_RANK == [major_outage |-> 4, partial_outage |-> 3, degraded |-> 2,
                  operational |-> 1, unknown |-> 0]

(* Mutation of Recoveries: the warm-up is one. *)
RecoveriesAny(events) == {i \in DOMAIN events : events[i].to = "operational"}

Recoveries(events) == {i \in DOMAIN events : events[i].to = "operational" /\ events[i].from # "unknown"}
Starts(events, recovery) ==
  {i \in 1..(recovery - 1) : events[i].from = "operational"}

(* The walk's events; fewer than two are no incident.                      *)
Incident(events) ==
  IF Recoveries(events) = {} THEN <<>>
  ELSE LET recovery == Sets!Max(Recoveries(events))
           starts   == Starts(events, recovery)
       IN  SubSeq(events, IF starts = {} THEN 1 ELSE Sets!Max(starts), recovery)

Peak(incident) ==
  Seqs!FoldLeft(LAMBDA worst, e : IF SEVERITY_RANK[e.to] > SEVERITY_RANK[worst] THEN e.to ELSE worst,
           incident[1].to, incident)
=============================================================================
