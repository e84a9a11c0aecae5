---------------------------- MODULE ConfirmedStatus ----------------------------
(***************************************************************************)
(* What flap suppression promises, with no buffer and no reset rules.      *)
(*                                                                         *)
(* The observer keeps the run of identical vendor reports received since   *)
(* the last override: its status, its length and its age.  The committed   *)
(* status follows a report exactly when the run is long enough and, for a  *)
(* change for the worse, old enough.  An operator or a webhook may set the *)
(* status at once, and the vendor must then earn a change from scratch.    *)
(***************************************************************************)
EXTENDS FlapSuppression

VARIABLES
  status,   \* the committed status
  run       \* the current run of identical reports

abstractVars == <<status, run>>

Run   == [status : Observable \cup {NoStatus}, count : 0..CountCap, age : 0..MinDwell]
NoRun == [status |-> NoStatus, count |-> 0, age |-> 0]

Extend(r, s) ==
  IF r.status = s THEN [r EXCEPT !.count = CountUp(@)]
                  ELSE [status |-> s, count |-> 1, age |-> 0]

Confirmed(from, r) ==
  /\ r.status # from
  /\ r.count >= Threshold(from, r.status)
  /\ IsGoingWorse(from, r.status) => r.age >= MinDwell

AbstractInit ==
  /\ status = "unknown"
  /\ run = NoRun

Report(s) ==
  /\ run' = Extend(run, s)
  /\ status' = IF Confirmed(status, run') THEN s ELSE status

Age ==
  /\ run.status # NoStatus
  /\ run' = [run EXCEPT !.age = Older(@)]
  /\ UNCHANGED status

Override(s) ==
  /\ s # status
  /\ status' = s
  /\ run' = NoRun

AbstractNext ==
  \/ \E s \in Observable : Report(s)
  \/ Age
  \/ \E s \in ServiceStatus : Override(s)

AbstractSpec == AbstractInit /\ [][AbstractNext]_abstractVars
=============================================================================
