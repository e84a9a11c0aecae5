---------------------------- MODULE MCHousekeeping ----------------------------
(***************************************************************************)
(* Housekeeping with windows of a few days and a few rows.  Event ids are  *)
(* interchangeable.                                                        *)
(***************************************************************************)
EXTENDS Housekeeping, TLC

AnyEvent == Permutations(Event)
=============================================================================
