------------------------------- MODULE MCHost -------------------------------
(* An instance of Host for TLC. *)
EXTENDS Host, TLC

\* The second schedule has the id of the first, as two of a brief have, and the
\* last does not parse.
MCDefinitionOf ==
  [crm |-> [vm |-> FALSE, memory |-> TRUE, map_size |-> 2048,
            state_schema |-> <<"stage">>,
            schedules |-> << [id |-> "daily", bad |-> FALSE],
                             [id |-> "daily", bad |-> FALSE],
                             [id |-> "nightly", bad |-> TRUE] >>]]

MCSymmetry == Permutations(Procs) \cup Permutations(Runs)
=============================================================================
