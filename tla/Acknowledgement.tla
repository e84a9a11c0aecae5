---------------------------- MODULE Acknowledgement ----------------------------
(***************************************************************************)
(* What a click on Acknowledge promises (app/router_slack.py), with no     *)
(* lock and nothing between the SELECT and the UPDATE.                     *)
(*                                                                         *)
(* Alerts are put on record, those that were fired can be clicked.  Each   *)
(* click, in one step and in the name of who clicked, acknowledges one     *)
(* alert of its key that nobody has acknowledged: none that is older than  *)
(* another one of them up to the one that was clicked.  Only if none is    *)
(* left does it nothing.                                                   *)
(***************************************************************************)
EXTENDS Naturals, Sequences

CONSTANTS
  Key,            \* dedup_key
  Handler, User,
  Nobody

VARIABLES
  rows,     \* the alerts on record, in their order
  clicks    \* per handler, the click that has had no effect yet

abstractVars == <<rows, clicks>>

Outcome == {"fired", "suppressed"}
Alert   == [key : Key, outcome : Outcome, by : User \cup {Nobody}]
NoClick == [message |-> 0, user |-> Nobody]

AbstractInit == rows = <<>> /\ clicks = [h \in Handler |-> NoClick]

Put ==
  /\ \E k \in Key, o \in Outcome : rows' = Append(rows, [key |-> k, outcome |-> o, by |-> Nobody])
  /\ UNCHANGED clicks

Click(h) ==
  /\ clicks[h] = NoClick
  /\ \E i \in DOMAIN rows, u \in User :
       rows[i].outcome = "fired" /\ clicks' = [clicks EXCEPT ![h] = [message |-> i, user |-> u]]
  /\ UNCHANGED rows

Clicked(h) == clicks[h].message
Open(k)    == {i \in DOMAIN rows : rows[i].key = k /\ rows[i].outcome = "fired" /\ rows[i].by = Nobody}

Acknowledge(h) ==
  /\ clicks[h] # NoClick
  /\ \E i \in Open(rows[Clicked(h)].key) :
       /\ \A j \in Open(rows[Clicked(h)].key) : j > i => j > Clicked(h)
       /\ rows' = [rows EXCEPT ![i].by = clicks[h].user]
  /\ clicks' = [clicks EXCEPT ![h] = NoClick]

Miss(h) ==
  /\ clicks[h] # NoClick /\ Open(rows[Clicked(h)].key) = {}
  /\ clicks' = [clicks EXCEPT ![h] = NoClick]
  /\ UNCHANGED rows

AbstractNext == Put \/ \E h \in Handler : Click(h) \/ Acknowledge(h) \/ Miss(h)

AbstractSpec == AbstractInit /\ [][AbstractNext]_abstractVars
=============================================================================
