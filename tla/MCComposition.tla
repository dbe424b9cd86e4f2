---------------------------- MODULE MCComposition ----------------------------
(* An instance of Composition for TLC. *)
EXTENDS Composition

\* planner and audit may come to depend on each other, and the built-in memory
\* may be replaced.
MCTemplates ==
  { [name |-> "audit",   deps |-> {"observability"},            version |-> 1],
    [name |-> "planner", deps |-> {"audit"},                    version |-> 1],
    [name |-> "audit",   deps |-> {"observability", "planner"}, version |-> 2],
    [name |-> "memory",  deps |-> {"identity", "compute"},      version |-> 3] }

MCReaches == [email |-> {"gmail"}, slack |-> {"slack"}]

MCBriefs ==
  [cap : {1}, approvals : { << {<<"send">>} >> },
   connections : {{}, {"crm", "gmail"}}, compute : {{}, {"browser"}, {"vm"}},
   triggers : {{}, {"schedule"}, {"email", "slack"}},
   ui : {FALSE}, long_lived : BOOLEAN, sub_agent : BOOLEAN,
   extra : {{}, {"planner"}}]

\* Policies that differ in the order of their overrides, in the name they match
\* and in the default.
MCAllow == [matches |-> {<<"send">>}, policy |-> "allow"]
MCGate  == [matches |-> {<<"send">>, <<"crm", "send">>}, policy |-> "require_approval"]
MCQualified(policy) == [matches |-> {<<"crm", "send">>}, policy |-> policy]

MCPolicyEdits ==
  [default : {"allow", "require_approval"},
   overrides : { <<>>, <<MCGate, MCAllow>>, <<MCAllow, MCGate>>, <<MCAllow>>,
                 <<MCQualified("deny")>>, <<MCQualified("allow")>> }]

MCToolEdits == { {}, {[conn |-> "crm", name |-> "send", gated |-> TRUE]},
                 {[conn |-> "crm", name |-> "send", gated |-> FALSE]} }
=============================================================================
