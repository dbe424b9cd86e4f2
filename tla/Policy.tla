-------------------------------- MODULE Policy --------------------------------
(* The permission primitive of one agent, fixed for its runs. *)
EXTENDS Permission

CONSTANTS Actions, Default, Overrides

ASSUME PolicyAssumption ==
         /\ Default \in Policies
         /\ Overrides \in Seq(Override(Actions))

Evaluate(a) == Decision(Default, Overrides, a)
=============================================================================
