---------------------------- MODULE MCLifecycle ----------------------------
(***************************************************************************)
(* Lifecycle with two migrations, the second adding a column, and four     *)
(* states of the files: good, another good one without b, one with an edge *)
(* to a service that is not listed, and an empty list.                     *)
(***************************************************************************)
EXTENDS Lifecycle

Migrations == <<<<"if not exists">>, <<"add column", "if not exists">>>>

Tiers(x, y) == [a |-> x, b |-> y]
Written ==
  {[services |-> Tiers("critical", "important"), edges |-> {<<"a", "all_internal">>, <<"b", "a">>}],
   [services |-> Tiers("important", "none"),     edges |-> {<<"a", "all_internal">>}],
   [services |-> Tiers("important", "none"),     edges |-> {<<"a", "b">>}],
   [services |-> Tiers("none", "none"),          edges |-> {}]}
=============================================================================
