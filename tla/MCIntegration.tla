---------------------------- MODULE MCIntegration ----------------------------
(***************************************************************************)
(* Integration for TLC.                                                    *)
(***************************************************************************)
EXTENDS Integration, TLC

Symmetry == Permutations(Ops) \union Permutations(PlanBytes) \union
            Permutations(UserBytes)
=============================================================================
