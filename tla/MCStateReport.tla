---------------------------- MODULE MCStateReport ----------------------------
(***************************************************************************)
(* The way of the state for the run, and the descriptors it takes for      *)
(* every set of numbers that are taken when serve prepares a child.        *)
(***************************************************************************)
EXTENDS StateReport, TLC

Child == INSTANCE Spawn

\* All placements of what serve opens, around the fixed numbers and the scratch floor.
ASSUME DescriptorsRight ==
  /\ \A busy \in SUBSET (3 .. 12) : Child!LayoutRight(busy) /\ Child!CommandSees(busy)
  /\ \A p \in Permutations({3, 7, 8, 9, 10, 11, 14}) : Child!RelocationRight(p)
=============================================================================
