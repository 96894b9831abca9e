----------------------------- MODULE MCMigration -----------------------------
(***************************************************************************)
(* Migration for TLC.  Transactions are numbers, taken in order, so only   *)
(* the other identifiers are interchangeable.                              *)
(***************************************************************************)
EXTENDS Migration, TLC

Symmetry == Permutations(Procs) \union Permutations(Ops) \union
            Permutations(Targets) \union Permutations(PlanBytes)
=============================================================================
