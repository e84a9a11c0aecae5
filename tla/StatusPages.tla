----------------------------- MODULE StatusPages -----------------------------
(***************************************************************************)
(* How the pollers of app/poller read a vendor's status page: one reader   *)
(* for each poll_type.  No variables: PollCycle fetches the pages.         *)
(*                                                                         *)
(* A page is reduced to what its reader looks for.  The keywords a reader  *)
(* searches a text for are the text's value here ("outage", "disruption",  *)
(* "other"), and "novel" is a value the vendor added since the code's      *)
(* tables were written.                                                    *)
(***************************************************************************)
EXTENDS FlapSuppression, Sequences

Sets == INSTANCE FiniteSetsExt

CONSTANTS
  Service,
  Named     \* the services of PRODUCT_FEED_NAMES

PollType == {"statuspage_json", "current_status_api", "product_feed_json",
             "trust_incidents_api", "active_incidents_api", "service_array_json"}

(* A page's shape: what the reader expects ("dict" or "list"), something   *)
(* it does not ("other"), or items of a kind its loop fails on ("broken"). *)
Broken(page) == page.shape = "broken"

Worse(a, b) == IF STATUS_SEVERITY[b] > STATUS_SEVERITY[a] THEN b ELSE a

(* A reader's loop over what the items at some positions of a list say, in *)
(* their order, and the loop that looks for the one that says the worst.   *)
Walk(step(_, _), start, says) ==
  Sets!MapThenFoldSet(LAMBDA said, found : step(found, said), start,
                      LAMBDA i : says[i], LAMBDA S : Sets!Max(S), DOMAIN says)
WorstOf(says, start) == Walk(Worse, start, says)

-----------------------------------------------------------------------------
(* statuspage_json: the service's component, else the page's indicator.    *)

ComponentStatus(c) ==
  CASE c = "operational"          -> "operational"
    [] c = "degraded_performance" -> "degraded"
    [] c = "under_maintenance"    -> "degraded"
    [] c = "partial_outage"       -> "partial_outage"
    [] c = "major_outage"         -> "major_outage"
    [] OTHER                      -> "unknown"

IndicatorStatus(i) ==
  CASE i = "none"     -> "operational"
    [] i = "minor"    -> "degraded"
    [] i = "major"    -> "partial_outage"
    [] i = "critical" -> "major_outage"
    [] OTHER          -> "unknown"

(* A component that is absent and one of a novel status both fall back.    *)
ExtractServiceStatus(page, s) ==
  LET component == ComponentStatus(page.components[s])
  IN  IF component = "unknown" THEN IndicatorStatus(page.indicator) ELSE component

-----------------------------------------------------------------------------
(* current_status_api: the current state, or (redirected) the history.     *)

TypeStatus(type) ==
  CASE type = "outage"   -> "major_outage"
    [] type = "incident" -> "partial_outage"
    [] OTHER             -> "degraded"

Types(incidents) == {incidents[i].type : i \in DOMAIN incidents}

NormalizeCurrentStatus(page) ==
  LET types == Types(page.incidents)
  IN  CASE types = {}          -> IF page.ok THEN "operational" ELSE "degraded"
        [] "outage" \in types   -> "major_outage"
        [] "incident" \in types /\ "outage" \notin types -> "partial_outage"
        [] OTHER                -> "degraded"

ActiveHistory(page) == {i \in DOMAIN page.incidents : page.incidents[i].active}

HistoryStatus(page) ==
  IF ActiveHistory(page) = {} THEN "operational"
  ELSE WorstOf([i \in ActiveHistory(page) |-> TypeStatus(page.incidents[i].type)], "degraded")

CurrentStatus(page) ==
  CASE page.shape = "dict" -> NormalizeCurrentStatus(page)
    [] page.shape = "list" -> HistoryStatus(page)
    [] OTHER               -> "unknown"

-----------------------------------------------------------------------------
(* product_feed_json: the first active incident of the product decides; a  *)
(* service the table has no product names for cannot be read.              *)

FeedText(text) ==
  CASE text = "outage"     -> "major_outage"
    [] text = "disruption" -> "partial_outage"
    [] OTHER               -> "degraded"

Concerns(incident, s) == s \in incident.products /\ ~incident.ended

ProductFeedStatus(page, s) ==
  LET mine == {i \in DOMAIN page.incidents : Concerns(page.incidents[i], s)}
  IN  IF page.shape = "other" \/ s \notin Named THEN "unknown"
      ELSE IF mine = {} THEN "operational" ELSE FeedText(page.incidents[Sets!Min(mine)].text)

-----------------------------------------------------------------------------
(* service_array_json: the worst level; a novel one does not count.        *)

LevelStatus(level) ==
  CASE level \in {"Good", "Informational"} -> "operational"
    [] level = "Minor"    -> "degraded"
    [] level = "Major"    -> "partial_outage"
    [] level = "Critical" -> "major_outage"
    [] OTHER              -> "unknown"

ArrayStatus(page) ==
  IF page.shape = "other" THEN "operational"
  ELSE WorstOf([i \in DOMAIN page.levels |-> LevelStatus(page.levels[i])], "operational")

-----------------------------------------------------------------------------
(* trust_incidents_api and active_incidents_api: a loop that stops at the  *)
(* first major incident and lets a partial one stand.                      *)

TextStatus(text) ==
  CASE text = "critical"   -> "major_outage"
    [] text = "disruption" -> "partial_outage"
    [] OTHER               -> "degraded"

(* Mutation of LoopStep: no break. *)
LoopStepOn(found, text) ==
  IF TextStatus(text) = "degraded" THEN found ELSE TextStatus(text)

LoopStep(found, text) ==
  IF found = "major_outage" \/ TextStatus(text) = "degraded" THEN found ELSE TextStatus(text)

IncidentLoop(texts) ==
  IF DOMAIN texts = {} THEN "operational" ELSE Walk(LoopStep, "degraded", texts)

(* An incident without isResolved counts as resolved. *)
Unresolved(page) == {i \in DOMAIN page.incidents : page.incidents[i].resolved = "no"}

TrustStatus(page) ==
  IF page.shape = "other" THEN "operational"
  ELSE IncidentLoop([i \in Unresolved(page) |-> page.incidents[i].text])

ActiveStatus(page) == IncidentLoop(page.texts)

-----------------------------------------------------------------------------
(* What the poller of a type can be given.                                 *)

HasItems(type, page) ==
  \/ /\ type = "statuspage_json"
     /\ page \in [shape : {"dict"}, components : [Service -> STRING], indicator : STRING, maintenances : STRING]
  \/ /\ type = "current_status_api"
     /\ \/ page \in [shape : {"dict"}, ok : BOOLEAN, incidents : Seq([type : STRING])]
        \/ page \in [shape : {"list"}, incidents : Seq([type : STRING, active : BOOLEAN])]
  \/ /\ type = "product_feed_json"
     /\ page \in [shape : {"list"},
                  incidents : Seq([products : SUBSET Service, ended : BOOLEAN, text : STRING])]
  \/ /\ type = "service_array_json"
     /\ page \in [shape : {"list"}, levels : Seq(STRING)]
  \/ /\ type = "trust_incidents_api"
     /\ page \in [shape : {"list"}, incidents : Seq([resolved : STRING, text : STRING])]
  \/ /\ type = "active_incidents_api"
     /\ page \in [shape : {"dict"}, texts : Seq(STRING)]

IsPage(type, page) == HasItems(type, page) \/ page \in [shape : {"other", "broken"}]

(* What the poller of a type makes of a page it could fetch and parse.     *)

Reading(type, page, s) ==
  IF Broken(page) THEN "raises" ELSE
  CASE type = "statuspage_json"      -> ExtractServiceStatus(page, s)
    [] type = "current_status_api"   -> CurrentStatus(page)
    [] type = "product_feed_json"    -> ProductFeedStatus(page, s)
    [] type = "service_array_json"   -> ArrayStatus(page)
    [] type = "trust_incidents_api"  -> TrustStatus(page)
    [] type = "active_incidents_api" -> ActiveStatus(page)

(* The reference: the statuses that the items of a page which concern the  *)
(* service, and are not over, claim for it.                                *)
Claims(type, page, s) ==
  CASE type = "statuspage_json" ->
         IF ComponentStatus(page.components[s]) # "unknown"
         THEN {ComponentStatus(page.components[s])} ELSE {IndicatorStatus(page.indicator)}
    [] type = "current_status_api" ->
         {TypeStatus(page.incidents[i].type) :
            i \in {j \in DOMAIN page.incidents : page.shape = "dict" \/ page.incidents[j].active}}
         \cup (IF page.shape = "dict" /\ ~page.ok THEN {"degraded"} ELSE {})
    [] type = "product_feed_json" ->
         {FeedText(page.incidents[i].text) :
            i \in {j \in DOMAIN page.incidents : Concerns(page.incidents[j], s)}}
    [] type = "service_array_json" ->
         {LevelStatus(page.levels[i]) : i \in DOMAIN page.levels} \ {"unknown"}
    [] type = "trust_incidents_api" ->
         {TextStatus(page.incidents[i].text) :
            i \in {j \in DOMAIN page.incidents : page.incidents[j].resolved = "no"}}
    [] type = "active_incidents_api" ->
         {TextStatus(page.texts[i]) : i \in DOMAIN page.texts}

IsWorst(status, claims) ==
  /\ status \in claims \cup {"operational"}
  /\ \A c \in claims : STATUS_SEVERITY[c] <= STATUS_SEVERITY[status]
=============================================================================
