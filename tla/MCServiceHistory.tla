-------------------------- MODULE MCServiceHistory --------------------------
(***************************************************************************)
(* ServiceHistory with a poll cycle and a request, two users and two       *)
(* handlers of interactions.                                               *)
(***************************************************************************)
EXTENDS ServiceHistory, TLC

Bound(c, e, r, k, b, t) == [clock |-> c, events |-> e, rows |-> r, clicks |-> k, behind |-> b, wait |-> t]

(* Long histories and their reports, dated in time and late; the burn-rate *)
(* cycle; and the clicks.                                                  *)
Explored == {Bound(4, 4, 0, 0, 1, 0), Bound(3, 3, 0, 0, 1, 1), Bound(4, 2, 2, 0, 1, 0), Bound(3, 1, 4, 2, 0, 0)}

ASSUME SettingsAssumption == OutagesCanBurn

Symmetric == Permutations(Writer) \cup Permutations(Handler) \cup Permutations(User)
=============================================================================
