--------------------------- MODULE MCStatusPipeline ---------------------------
(***************************************************************************)
(* StatusPipeline on small instances: one poll job, one or two requests of *)
(* each kind.  Requests of one kind are interchangeable.                   *)
(***************************************************************************)
EXTENDS StatusPipeline, TLC

AnyRequest == Permutations(Admin) \cup Permutations(Hook) \cup Permutations(Service)
=============================================================================
