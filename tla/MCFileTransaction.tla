--------------------------- MODULE MCFileTransaction ---------------------------
(***************************************************************************)
(* FileTransaction for TLC.                                                *)
(***************************************************************************)
EXTENDS FileTransaction, TLC

\* Without refinement or liveness, processes and ids are interchangeable.
Symmetry == Permutations(Procs) \union Permutations(Txs) \union
            Permutations(UserBytes) \union Permutations(PlanBytes)
=============================================================================
