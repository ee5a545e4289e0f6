----------------------------- MODULE MCLearning ----------------------------
(* Numbers in sixty-fourths: a step costs one, success pays three, failure takes one. *)
EXTENDS Learning

One == 64
ZeroOrOne == {0, One}
StepCosts == {-One}
Success == 3 * One
Failure == -One
MCMatrix == <<"copy", "action", "sequence">>
Alike == Permutations(UserIds) \cup Permutations(EpisodeIds)
=============================================================================
