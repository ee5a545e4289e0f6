---------------------------- MODULE MCExperiment ----------------------------
(* One behaviour-cloned and two PPO variants, evaluated on two cases. *)
EXTENDS Experiment

ThreeVariants == <<"B", "D", "E">>
TwoPpo == {"D", "E"}
TwoCases == <<"c1", "c2">>

\* The pre-registered protocol, and one thing different each time.
AnyProtocols ==
    {[frozen |-> TRUE, resampled |-> TRUE, confidence |-> 95],
     [frozen |-> FALSE, resampled |-> TRUE, confidence |-> 95],
     [frozen |-> TRUE, resampled |-> FALSE, confidence |-> 95],
     [frozen |-> TRUE, resampled |-> TRUE, confidence |-> 90]}
=============================================================================
