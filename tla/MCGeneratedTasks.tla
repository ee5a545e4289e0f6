-------------------------- MODULE MCGeneratedTasks --------------------------
(***************************************************************************)
(* Two of the four goals of a counterfactual group, so that a v1.4 world   *)
(* has two lanes of five operations with two final operations each, and one *)
(* topology with one root and one with two.                                *)
(***************************************************************************)
EXTENDS GeneratedTasks

MCVariants == {"00", "11"}
MCLengths == {6}
MCShapes14 == {"fanout_gate", "dual_root_mesh"}

\* The contracts of the tasks of every length and topology that the generators
\* make, played here or not.
ASSUME EveryTaskKeepsContracts ==
    \A topology \in ToSet(Topologies), length \in 6..15 :
      /\ KeepsContracts(Task13(topology, length))
      /\ \A v \in GoalVariants : KeepsContracts(Task14(topology, length, v))
=============================================================================
