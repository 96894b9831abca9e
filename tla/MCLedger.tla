------------------------------ MODULE MCLedger ------------------------------
(***************************************************************************)
(* Ledger for TLC: model values for every identifier.                      *)
(***************************************************************************)
EXTENDS Ledger, TLC

Symmetry == Permutations(Ops) \union Permutations(Txs) \union
            Permutations(Targets) \union Permutations(Hashes)
=============================================================================
