----------------------------- MODULE MCDataset ------------------------------
(***************************************************************************)
(* Every length of a plan that the generators use, every size of a split   *)
(* up to 130 groups and the canonical 250 and 500, three strata with any   *)
(* stock of up to three tasks.                                             *)
(***************************************************************************)
EXTENDS Dataset

MCVariants == {"00"}
MCSizes == (1..130) \cup {250, 500}
MCWalked == 6..15
=============================================================================
