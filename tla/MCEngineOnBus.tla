----------------------------- MODULE MCEngineOnBus -----------------------------
(* Instances of EngineOnBus for TLC. *)
EXTENDS EngineOnBus, TLC

\* A tool that needs an approval, with an executor, and one that is allowed.
MCActions   == {"send", "read"}
MCOverrides == << [matches |-> {"send"}, policy |-> "require_approval"] >>

MCCompletions == { <<"read", "send">>, <<"send", "send">> }
=============================================================================
