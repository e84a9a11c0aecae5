----------------------------- MODULE MCPollCycle -----------------------------
(***************************************************************************)
(* PollCycle for three services: two at one URL, the third at another URL  *)
(* of the same host.  Each configuration gives the readers other work.     *)
(***************************************************************************)
EXTENDS PollCycle

Places == [a |-> "u1", b |-> "u1", c |-> "u2"]
OneHost == [u1 |-> "h", u2 |-> "h"]

Row(x, y, z) == [a |-> x, b |-> y, c |-> z]
Estates ==
  [webhook : {TRUE}, faults : {TRUE}, types :
     {Row("current_status_api", "current_status_api", "service_array_json"),
      Row("statuspage_json", "manual", "trust_incidents_api")}]
  \cup [webhook : {TRUE}, faults : {FALSE}, types :
     {Row("statuspage_json", "manual", "statuspage_json"),
      Row("statuspage_json", "statuspage_json", "trust_incidents_api")}]
  \cup [webhook : {FALSE}, faults : {TRUE}, types :
     {Row("product_feed_json", "product_feed_json", "active_incidents_api"), Row("manual", "manual", "manual")}]

Order == [a |-> 1, b |-> 2, c |-> 3]

BrokenPage == [shape |-> "broken"]
OtherPage  == [shape |-> "other"]

Statuspages ==
  {[shape |-> "dict", components |-> Row("operational", "novel", "under_maintenance"),
    indicator |-> i, maintenances |-> m] : <<i, m>> \in {<<"critical", "fine">>, <<"novel", "fine">>, <<"critical", "malformed">>}}
Currents ==
  [shape : {"dict"}, ok : {TRUE}, incidents : {<<>>, <<[type |-> "novel"], [type |-> "incident"]>>}]
  \cup [shape : {"list"}, incidents : {<<[type |-> "notice", active |-> TRUE], [type |-> "outage", active |-> TRUE],
                                        [type |-> "incident", active |-> TRUE]>>}]
Feeds ==
  [shape : {"list"}, incidents : {<<[products |-> {"a"}, ended |-> TRUE, text |-> "other"],
                                    [products |-> {"a", "b"}, ended |-> FALSE, text |-> t]>> :
                                  t \in {"outage", "other"}}]
Arrays == [shape : {"list"}, levels : {<<>>, <<"Good", "Critical", "Minor">>, <<"novel">>}]
Trusts == [shape : {"list"}, incidents : {<<[resolved |-> "missing", text |-> "critical"]>>,
             <<[resolved |-> "no", text |-> "critical"], [resolved |-> "no", text |-> "disruption"]>>}]
Actives == [shape : {"dict"}, texts : {<<>>, <<"other", "disruption">>, <<"critical", "disruption", "other">>}]

Pages ==
  [statuspage_json      |-> Statuspages \cup {BrokenPage},
   current_status_api   |-> Currents \cup {OtherPage},
   product_feed_json    |-> Feeds \cup {OtherPage},
   service_array_json   |-> Arrays \cup {OtherPage},
   trust_incidents_api  |-> Trusts \cup {OtherPage, BrokenPage},
   active_incidents_api |-> Actives]

=============================================================================
