-------------------------- MODULE MCReasoningEngine --------------------------
(* Instances of ReasoningEngine for TLC. *)
EXTENDS ReasoningEngine

\* A tool of each kind: read is allowed, send and wire need an approval, drop
\* is denied; there are executors for read and send only.  The second override
\* matches send too and never decides for it.
MCActions   == {"read", "post", "send", "wire", "drop"}
MCExecutors == {"read", "send", "drop"}
MCOverrides == << [matches |-> {"send", "wire"}, policy |-> "require_approval"],
                  [matches |-> {"read", "send", "post"}, policy |-> "allow"] >>

MCCompletions == { <<"send">>, <<"wire">>, <<"drop", "send">>,
                   <<"send", "read">>, <<"read", "post">> }
=============================================================================
